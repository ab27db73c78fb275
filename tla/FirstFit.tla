------------------------------ MODULE FirstFit ------------------------------
(***************************************************************************)
(* What the allocator of mod_07 promises: disjoint extents of blocks, each *)
(* the first place a request fitted when it was served; a request is       *)
(* refused only when it fits nowhere; a release frees its own extent only. *)
(***************************************************************************)
EXTENDS Integers

CONSTANT Blocks   \* the blocks of the pool, 0 .. total_blocks - 1

VARIABLES
  extent,   \* extent[s]: length of the extent that starts at s, 0 when none does
  want,     \* blocks that the request being served needs, 0 when it cannot be met
  phase     \* free (no request), or asked

vars == <<extent, want, phase>>

\* b belongs to the extent that starts at s.
Holds(s, b) == s <= b /\ b < s + extent[s]
Taken(b) == \E s \in Blocks : Holds(s, b)

Fits(s, n) == \A b \in s .. s + n - 1 : b \in Blocks /\ ~Taken(b)

Init == extent = [b \in Blocks |-> 0] /\ want = 0 /\ phase = "free"

Ask ==
  /\ phase = "free" /\ phase' = "asked"
  /\ want' \in Nat
  /\ UNCHANGED extent

Grant(s) ==
  /\ phase = "asked" /\ want > 0
  /\ Fits(s, want) /\ \A r \in Blocks : r < s => ~Fits(r, want)
  /\ extent' = [extent EXCEPT ![s] = want]
  /\ phase' = "free" /\ want' = 0

Refuse ==
  /\ phase = "asked"
  /\ want = 0 \/ \A r \in Blocks : ~Fits(r, want)
  /\ phase' = "free" /\ want' = 0
  /\ UNCHANGED extent

Release(s) ==
  /\ phase = "free"
  /\ extent' = [extent EXCEPT ![s] = 0]
  /\ UNCHANGED <<want, phase>>

\* The module is removed, and perhaps loaded again: no extent survives.
Clear ==
  /\ phase = "free"
  /\ extent' = [b \in Blocks |-> 0]
  /\ UNCHANGED <<want, phase>>

Next ==
  \/ Ask \/ Refuse \/ Clear
  \/ \E s \in Blocks : Grant(s) \/ Release(s)

Spec == Init /\ [][Next]_vars

=============================================================================
