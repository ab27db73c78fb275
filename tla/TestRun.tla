------------------------------ MODULE TestRun ------------------------------
(***************************************************************************)
(* What a run of the mod_08 test promises its caller, whatever the lock    *)
(* and the schedule: it succeeds only after each of its threads has        *)
(* finished, and leaves the counter at zero; or it fails before the first  *)
(* thread ran, and has changed nothing.                                    *)
(***************************************************************************)
EXTENDS Integers

CONSTANT MaxThreads

VARIABLES
  phase,     \* idle, setup (nothing ran yet) or running
  left,      \* threads of the run that have not finished
  counter,   \* the shared counter
  outcome    \* what the last run returned, or will return

vars == <<phase, left, counter, outcome>>

Init == phase = "idle" /\ left = 0 /\ counter = 0 /\ outcome = "ok"

Begin ==
  /\ phase = "idle" /\ phase' = "setup"
  /\ left' \in 1 .. MaxThreads
  /\ counter' = 0
  /\ outcome' = "ok"

Fail ==
  /\ phase = "setup" /\ outcome = "ok"
  /\ outcome' = "error"
  /\ UNCHANGED <<phase, left, counter>>

Launch ==
  /\ phase = "setup" /\ outcome = "ok"
  /\ phase' = "running"
  /\ UNCHANGED <<left, counter, outcome>>

\* A thread raises or lowers the counter; each holds it up by one at most.
Work ==
  /\ phase = "running"
  /\ counter' \in {counter + 1, counter - 1} \intersect (0 .. left)
  /\ UNCHANGED <<phase, left, outcome>>

\* A thread that does not hold the counter up finishes.
Finish ==
  /\ phase = "running" /\ counter < left
  /\ left' = left - 1
  /\ UNCHANGED <<phase, counter, outcome>>

Return ==
  /\ \/ phase = "running" /\ left = 0
     \/ phase = "setup" /\ outcome = "error"
  /\ phase' = "idle"
  /\ left' = 0
  /\ UNCHANGED <<counter, outcome>>

Next == Begin \/ Fail \/ Launch \/ Work \/ Finish \/ Return

Spec == Init /\ [][Next]_vars

=============================================================================
