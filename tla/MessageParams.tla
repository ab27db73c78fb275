--------------------------- MODULE MessageParams ---------------------------
(***************************************************************************)
(* The parameters idx, ch_val and my_arr of mod_03 and the script check.sh *)
(* that spells a string through them: for each character it writes the     *)
(* position to idx and the code to ch_val, and goes on when a write fails. *)
(*                                                                         *)
(* The kernel calls the setters of a module one at a time; nothing keeps   *)
(* two scripts apart.                                                      *)
(***************************************************************************)
EXTENDS Integers, Sequences, FiniteSetsExt

CONSTANTS
  Scripts,          \* runs of check.sh
  Chars, Refused,   \* codes in MIN_CHAR_VALUE .. MAX_CHAR_VALUE, and others
  None,             \* no script
  Nul,              \* the 0 that ends a C string
  LEN_ARR,          \* the entries of my_arr (15)
  MAX_IDX,          \* the last position idx may have (13)
  MaxLength         \* bound: the longest string a script is given

ASSUME MessageAssumption ==
  /\ LEN_ARR \in Nat /\ MAX_IDX \in Nat /\ MaxLength \in Nat
  /\ Chars \intersect Refused = {} /\ Nul \notin Chars
  /\ None \notin Scripts

\* The source defines the two on their own (my_module.c:4, 7): the last position
\* has to leave an entry for the Nul.
ASSUME NulReserved == MAX_IDX < LEN_ARR - 1

Entries == 0 .. LEN_ARR - 1
Strings == UNION {[1 .. n -> Chars \union Refused] : n \in 0 .. MaxLength}

VARIABLES
  idx, ch_val, my_arr,   \* of the module
  pc, user_str, i,       \* of each script: its step, argument, loop index
  sole, before           \* the script that has had the module for itself since
                         \* it began, or None, and my_arr when it began

paramVars == <<idx, ch_val, my_arr>>
vars == <<paramVars, pc, user_str, i, sole, before>>

Init ==
  /\ idx = 0 /\ ch_val = Nul /\ my_arr = [k \in Entries |-> Nul]
  /\ pc = [s \in Scripts |-> "idle"]
  /\ user_str = [s \in Scripts |-> <<>>]
  /\ i = [s \in Scripts |-> 0]
  /\ sole = None /\ before = my_arr

\* check.sh is started with the argument str.
Start(s, str) ==
  /\ pc[s] = "idle"
  /\ pc' = [pc EXCEPT ![s] = "loop"]
  /\ user_str' = [user_str EXCEPT ![s] = str] /\ i' = [i EXCEPT ![s] = 0]
  /\ sole' = IF \A u \in Scripts : pc[u] = "idle" THEN s ELSE None
  /\ before' = my_arr
  /\ UNCHANGED paramVars

End(s) ==
  /\ pc[s] = "loop" /\ i[s] = Len(user_str[s])
  /\ pc' = [pc EXCEPT ![s] = "idle"]
  /\ user_str' = [user_str EXCEPT ![s] = <<>>] /\ i' = [i EXCEPT ![s] = 0]
  /\ sole' = None
  /\ UNCHANGED <<paramVars, before>>

PastTheEnd(n) == n \in 0 .. MAX_IDX + 1   \* mutant of InRange

\* The range that idx_set accepts.
InRange(n) == n \in 0 .. MAX_IDX

\* set_idx, and idx_set: a position out of range is refused.
SetIdx(s) ==
  /\ pc[s] = "loop" /\ i[s] < Len(user_str[s])
  /\ idx' = IF InRange(i[s]) THEN i[s] ELSE idx
  /\ pc' = [pc EXCEPT ![s] = "char"]
  /\ UNCHANGED <<ch_val, my_arr, user_str, i, sole, before>>

\* ch_val_set of a code out of range.
ChValRefused(s) ==
  /\ user_str[s][i[s] + 1] \in Refused
  /\ UNCHANGED paramVars

StoreAtNext(s) ==   \* mutant of ChValSet: the position moves on with the character
  /\ user_str[s][i[s] + 1] \in Chars
  /\ ch_val' = user_str[s][i[s] + 1]
  /\ my_arr' = [my_arr EXCEPT ![idx] = ch_val]
  /\ UNCHANGED idx

\* ch_val_set: the character goes to where idx is now.
ChValSet(s) ==
  /\ user_str[s][i[s] + 1] \in Chars
  /\ ch_val' = user_str[s][i[s] + 1]
  /\ my_arr' = [my_arr EXCEPT ![idx] = ch_val']
  /\ UNCHANGED idx

\* set_ch_val, and the end of the loop.
SetChVal(s) ==
  /\ pc[s] = "char"
  /\ ChValSet(s) \/ ChValRefused(s)
  /\ pc' = [pc EXCEPT ![s] = "loop"] /\ i' = [i EXCEPT ![s] = @ + 1]
  /\ UNCHANGED <<user_str, sole, before>>

Next ==
  \E s \in Scripts :
    \/ \E str \in Strings : Start(s, str)
    \/ SetIdx(s) \/ SetChVal(s) \/ End(s)

Spec == Init /\ [][Next]_vars

-----------------------------------------------------------------------------
TypeOK ==
  /\ idx \in 0 .. MAX_IDX /\ ch_val \in Chars \union {Nul}
  /\ my_arr \in [Entries -> Chars \union {Nul}]
  /\ pc \in [Scripts -> {"idle", "loop", "char"}]
  /\ user_str \in [Scripts -> Strings] /\ i \in [Scripts -> 0 .. MaxLength]
  /\ sole \in Scripts \union {None} /\ before \in [Entries -> Chars \union {Nul}]

\* Whatever scripts run at once, my_arr ends with a Nul: what my_arr_get measures
\* and the log prints stays inside it (my_module.c:4, 38, 97, 116).
Terminated == my_arr[LEN_ARR - 1] = Nul

\* The characters of the string sent so far that are meant for entry k: a
\* position past the last is refused, and its character lands in the last.
SentTo(s, k) ==
  {j \in 1 .. i[s] : user_str[s][j] \in Chars /\ k = IF j - 1 <= MAX_IDX THEN j - 1 ELSE MAX_IDX}

\* A script that has had the module for itself has spelled its string: each entry
\* holds the last character meant for it, or what was there before
\* (check.sh:18-26, my_module.c:38-45, 87-97).
Spelled ==
  sole # None => \A k \in Entries :
    my_arr[k] = IF SentTo(sole, k) = {} THEN before[k] ELSE user_str[sole][Max(SentTo(sole, k))]

=============================================================================
