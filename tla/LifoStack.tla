----------------------------- MODULE LifoStack -----------------------------
(***************************************************************************)
(* What the stack of mod_05 promises its callers: a value that a task      *)
(* gives goes on the top, and what a task takes or looks at is the top.    *)
(***************************************************************************)
EXTENDS Sequences

CONSTANTS Tasks, Values, None

VARIABLES
  contents,   \* the values, the top first
  giving,     \* giving[t]: the value t wants to push, or None
  taken,      \* taken[t]: the value t has popped and not yet handed on, or None
  seen        \* seen[t]: the value t has looked at and not yet handed on, or None

vars == <<contents, giving, taken, seen>>

Init ==
  /\ contents = <<>>
  /\ giving = [t \in Tasks |-> None]
  /\ taken = [t \in Tasks |-> None]
  /\ seen = [t \in Tasks |-> None]

Give(t, v) ==
  /\ giving[t] = None
  /\ giving' = [giving EXCEPT ![t] = v]
  /\ UNCHANGED <<contents, taken, seen>>

Push(t) ==
  /\ giving[t] # None
  /\ contents' = <<giving[t]>> \o contents
  /\ giving' = [giving EXCEPT ![t] = None]
  /\ UNCHANGED <<taken, seen>>

\* There was no memory for the value.
Withdraw(t) ==
  /\ giving[t] # None
  /\ giving' = [giving EXCEPT ![t] = None]
  /\ UNCHANGED <<contents, taken, seen>>

Pop(t) ==
  /\ contents # <<>> /\ taken[t] = None
  /\ taken' = [taken EXCEPT ![t] = Head(contents)]
  /\ contents' = Tail(contents)
  /\ UNCHANGED <<giving, seen>>

Peek(t) ==
  /\ contents # <<>> /\ seen[t] = None
  /\ seen' = [seen EXCEPT ![t] = Head(contents)]
  /\ UNCHANGED <<contents, giving, taken>>

Deliver(t) ==
  /\ taken[t] # None \/ seen[t] # None
  /\ taken' = [taken EXCEPT ![t] = None]
  /\ seen' = [seen EXCEPT ![t] = None]
  /\ UNCHANGED <<contents, giving>>

Next ==
  \E t \in Tasks :
    \/ \E v \in Values : Give(t, v)
    \/ Push(t) \/ Withdraw(t) \/ Pop(t) \/ Peek(t) \/ Deliver(t)

Spec == Init /\ [][Next]_vars

=============================================================================
