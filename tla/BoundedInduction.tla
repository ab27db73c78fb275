-------------------------- MODULE BoundedInduction --------------------------
(***************************************************************************)
(* Induction over numbers for the provers, with sets and functions where   *)
(* the library has operators: a set of numbers has a least one, a set that *)
(* has 0 and goes up by one has all numbers to the bound, and a function   *)
(* that is defined by recursion on 0 .. N exists.                          *)
(***************************************************************************)
EXTENDS Integers, FiniteSets, FiniteSetTheorems, WellFoundedInduction, TLAPS

LEMMA SmallerSet ==
  ASSUME NEW A, A \subseteq Nat, NEW B, B \subseteq Nat, A \subseteq B, A # B
  PROVE  <<A, B>> \in StrictSubsetOrdering(Nat)
<1> DEFINE p == <<A, B>>
<1>1. p \in (SUBSET Nat) \X (SUBSET Nat) /\ p[1] = A /\ p[2] = B
  OBVIOUS
<1> HIDE DEF p
<1>2. p \in StrictSubsetOrdering(Nat)
  BY <1>1 DEF StrictSubsetOrdering
<1> QED
  BY <1>2 DEF p

\* A set of numbers has a least one: so have the intervals below them, as finite
\* sets under inclusion are well-founded.
LEMMA Least ==
  ASSUME NEW S, S \subseteq Nat, S # {}
  PROVE  \E m \in S : \A n \in S : m <= n
<1> DEFINE R == StrictSubsetOrdering(Nat)
           F == FiniteSubsetsOf(Nat)
           T == {0 .. n : n \in S}
<1>1. T \subseteq F /\ T # {}
  <2>1. \A n \in S : 0 .. n \subseteq Nat /\ IsFiniteSet(0 .. n)
    BY FS_Interval
  <2> QED
    BY <2>1 DEF FiniteSubsetsOf
<1>2. \E x \in T : \A y \in T : ~ (<<y, x>> \in R)
  <2>1. IsWellFoundedOn(R, F)
    BY FS_StrictSubsetOrderingWellFounded
  <2> HIDE DEF R, F, T
  <2> QED
    BY <1>1, <2>1, WFMin
<1>3. PICK m \in S : \A n \in S : ~ (<<0 .. n, 0 .. m>> \in R)
  BY <1>2
<1>4. ASSUME NEW n \in S, n < m PROVE FALSE
  <2>1. m \in 0 .. m /\ m \notin 0 .. n
    BY <1>4
  <2>2. 0 .. n \subseteq 0 .. m /\ 0 .. n # 0 .. m /\ 0 .. n \subseteq Nat /\ 0 .. m \subseteq Nat
    BY <1>4, <2>1
  <2>3. <<0 .. n, 0 .. m>> \in R
    BY <2>2, SmallerSet
  <2> QED
    BY <1>3, <2>3
<1> QED
  BY <1>4

\* Induction: what holds of 0 and of the successor of each number it holds of.
LEMMA Upwards ==
  ASSUME NEW N \in Nat, NEW P,
         0 \in P, \A n \in 0 .. N - 1 : n \in P => n + 1 \in P
  PROVE  \A n \in 0 .. N : n \in P
<1> DEFINE missed == {n \in 0 .. N : n \notin P}
<1>1. SUFFICES ASSUME missed # {} PROVE FALSE
  OBVIOUS
<1>2. missed \subseteq Nat
  OBVIOUS
<1>3. PICK m \in missed : \A n \in missed : m <= n
  <2> HIDE DEF missed
  <2> QED
    BY <1>1, <1>2, Least
<1>4. m \in 1 .. N /\ m - 1 \in 0 .. N - 1 /\ m - 1 \notin missed
  BY <1>3
<1>5. m - 1 \in P /\ (m - 1) + 1 = m
  BY <1>4
<1>6. m \in P
  BY <1>4, <1>5
<1> QED
  BY <1>3, <1>6

\* A recursion on 1 .. N that starts in first and goes on by step, within S; and
\* its solutions.
Recursion(N, S, first, step) == N \in Nat /\ first \in S /\ step \in [1 .. N -> [S -> S]]

Solution(f, N, S, first, step) ==
  f \in [0 .. N -> S] /\ f[0] = first /\ \A n \in 1 .. N : f[n] = step[n][f[n - 1]]

\* Every such recursion has a solution.
LEMMA Iterates ==
  ASSUME NEW N, NEW S, NEW first, NEW step, Recursion(N, S, first, step)
  PROVE  \E f : Solution(f, N, S, first, step)
<1> USE DEF Recursion
<1> DEFINE Solves(f, n) == f[0] = first /\ \A k \in 1 .. n : f[k] = step[k][f[k - 1]]
           P == {n \in 0 .. N : \E f \in [0 .. N -> S] : Solves(f, n)}
<1>1. 0 \in P
  <2>1. [k \in 0 .. N |-> first] \in [0 .. N -> S]
    OBVIOUS
  <2>2. Solves([k \in 0 .. N |-> first], 0)
    OBVIOUS
  <2> HIDE DEF Solves
  <2> QED
    BY <2>1, <2>2
<1>2. ASSUME NEW n \in 0 .. N - 1, n \in P PROVE n + 1 \in P
  <2>1. PICK f \in [0 .. N -> S] : Solves(f, n)
    BY <1>2
  <2> DEFINE g == [f EXCEPT ![n + 1] = step[n + 1][f[n]]]
  <2>2. n \in 0 .. N /\ n + 1 \in 1 .. N /\ n + 1 \in 0 .. N
    OBVIOUS
  <2>3. step[n + 1][f[n]] \in S
    BY <2>2
  <2>4. g \in [0 .. N -> S] /\ g[n + 1] = step[n + 1][f[n]] /\ \A k \in 0 .. n : g[k] = f[k]
    BY <2>2, <2>3
  <2> HIDE DEF g
  <2>5. Solves(g, n + 1)
    <3>1. g[0] = first
      BY <2>1, <2>4
    <3>2. ASSUME NEW k \in 1 .. n + 1 PROVE g[k] = step[k][g[k - 1]]
      <4>1. CASE k = n + 1
        BY <2>4, <4>1
      <4>2. CASE k # n + 1
        <5>1. k \in 1 .. n /\ k - 1 \in 0 .. n /\ k \in 0 .. n
          BY <4>2
        <5> QED
          BY <2>1, <2>4, <5>1
      <4> QED
        BY <4>1, <4>2
    <3> QED
      BY <3>1, <3>2
  <2> HIDE DEF Solves
  <2> QED
    BY <2>2, <2>4, <2>5
<1> HIDE DEF P
<1>3. \A n \in 0 .. N : n \in P
  BY <1>1, <1>2, Upwards
<1>4. N \in P
  BY <1>3
<1> QED
  BY <1>4 DEF P, Solution

=============================================================================
