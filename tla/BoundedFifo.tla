---------------------------- MODULE BoundedFifo ----------------------------
(***************************************************************************)
(* What the fifo of mod_06 promises its callers: at most Capacity values   *)
(* wait, what a task takes or looks at is the one that has waited longest, *)
(* and a task is told full or empty only of a fifo that is.                *)
(***************************************************************************)
EXTENDS Naturals, Sequences

CONSTANTS Tasks, Values, Capacity, None, Full, Empty

VARIABLES
  contents,   \* the values, the oldest first
  want,       \* want[t]: the value t wants to put in, or None
  got         \* got[t]: what t was given or told and has not yet handed on, or None

vars == <<contents, want, got>>

Init ==
  /\ contents = <<>>
  /\ want = [t \in Tasks |-> None]
  /\ got = [t \in Tasks |-> None]

Want(t, v) ==
  /\ want[t] = None
  /\ want' = [want EXCEPT ![t] = v]
  /\ UNCHANGED <<contents, got>>

Put(t) ==
  /\ want[t] # None /\ Len(contents) < Capacity
  /\ contents' = Append(contents, want[t])
  /\ want' = [want EXCEPT ![t] = None]
  /\ UNCHANGED got

Refuse(t) ==
  /\ want[t] # None /\ Len(contents) = Capacity
  /\ want' = [want EXCEPT ![t] = None]
  /\ got' = [got EXCEPT ![t] = Full]
  /\ UNCHANGED contents

Get(t) ==
  /\ contents # <<>> /\ got[t] = None
  /\ got' = [got EXCEPT ![t] = Head(contents)]
  /\ contents' = Tail(contents)
  /\ UNCHANGED want

Look(t) ==
  /\ contents # <<>> /\ got[t] = None
  /\ got' = [got EXCEPT ![t] = Head(contents)]
  /\ UNCHANGED <<contents, want>>

Miss(t) ==
  /\ contents = <<>> /\ got[t] = None
  /\ got' = [got EXCEPT ![t] = Empty]
  /\ UNCHANGED <<contents, want>>

HandOn(t) ==
  /\ got[t] # None
  /\ got' = [got EXCEPT ![t] = None]
  /\ UNCHANGED <<contents, want>>

Clear == contents' = <<>> /\ UNCHANGED <<want, got>>

Next ==
  \/ Clear
  \/ \E t \in Tasks :
       \/ \E v \in Values : Want(t, v)
       \/ Put(t) \/ Refuse(t) \/ Get(t) \/ Look(t) \/ Miss(t) \/ HandOn(t)

Spec == Init /\ [][Next]_vars

=============================================================================
