------------------------ MODULE MessageParamsProofs ------------------------
(***************************************************************************)
(* Proofs about MessageParams, for every number of scripts, set of         *)
(* characters, length of the array and of the strings: the array always    *)
(* ends with a Nul, and a script that has the module for itself spells its *)
(* string.                                                                 *)
(*                                                                         *)
(* The invariant adds where idx is: a script on its own finds it where its *)
(* last write, refused or not, must have left it (Placed).                 *)
(***************************************************************************)
EXTENDS MessageParams, TLAPS

\* Where the character of position n lands.
Place(n) == IF n <= MAX_IDX THEN n ELSE MAX_IDX

Placed ==
  /\ \A s \in Scripts :
       /\ i[s] <= Len(user_str[s])
       /\ pc[s] = "char" => i[s] < Len(user_str[s])
  /\ sole # None =>
       /\ \A u \in Scripts \ {sole} : pc[u] = "idle"
       /\ pc[sole] = "loop" /\ i[sole] > 0 => idx = Place(i[sole] - 1)
       /\ pc[sole] = "char" => idx = Place(i[sole])

IInv == TypeOK /\ Placed /\ Terminated /\ Spelled

-----------------------------------------------------------------------------
\* A string is a sequence of characters of its length.
LEMMA StringLength ==
  ASSUME NEW str \in Strings
  PROVE  /\ Len(str) \in 0 .. MaxLength
         /\ \A k \in 1 .. Len(str) : str[k] \in Chars \union Refused
<1>1. PICK n \in 0 .. MaxLength : str \in [1 .. n -> Chars \union Refused]
  BY DEF Strings
<1>2. n \in Nat
  BY MessageAssumption
<1>3. str \in Seq(Chars \union Refused) /\ Len(str) = n
  BY <1>1, <1>2
<1> QED
  BY <1>1, <1>2, <1>3

\* The new greatest element of a set of numbers.
LEMMA NewMax ==
  ASSUME NEW S, S \subseteq Nat, NEW n \in S, \A m \in S : m <= n
  PROVE  Max(S) = n
<1>1. \A x \in S : (\A y \in S : x >= y) => x = n
  OBVIOUS
<1>2. n \in S /\ \A y \in S : n >= y
  OBVIOUS
<1> QED
  BY <1>1, <1>2, Zenon DEF Max

LEMMA InitInv == Init => IInv
<1> SUFFICES ASSUME Init PROVE IInv
  OBVIOUS
<1>1. <<>> \in Strings /\ Len(<<>>) = 0
  <2>1. <<>> \in [1 .. 0 -> Chars \union Refused]
    OBVIOUS
  <2> QED
    BY <2>1, MessageAssumption DEF Strings
<1>2. TypeOK
  BY <1>1, MessageAssumption, NulReserved DEF Init, TypeOK, Entries
<1>3. Placed
  BY <1>1 DEF Init, Placed
<1>4. Terminated /\ Spelled
  BY MessageAssumption, NulReserved DEF Init, Terminated, Spelled, Entries
<1> QED
  BY <1>2, <1>3, <1>4 DEF IInv

\* A script starts: alone if no other is running, with nothing sent yet.
LEMMA StartInv ==
  ASSUME IInv, NEW s \in Scripts, NEW str \in Strings, Start(s, str)
  PROVE  IInv'
<1> USE DEF IInv, Start, paramVars
<1>1. TypeOK'
  BY MessageAssumption DEF TypeOK
<1>2. Placed'
  <2>1. user_str' \in [Scripts -> Strings] /\ i' \in [Scripts -> 0 .. MaxLength]
    BY <1>1 DEF TypeOK
  <2>2. \A t \in Scripts : i'[t] <= Len(user_str'[t]) /\ (pc'[t] = "char" => i'[t] < Len(user_str'[t]))
    BY StringLength DEF TypeOK, Placed
  <2>3. sole' # None => (\A u \in Scripts \ {sole'} : pc'[u] = "idle") /\ sole' = s
    BY DEF TypeOK
  <2>4. pc'[s] = "loop" /\ i'[s] = 0
    BY DEF TypeOK
  <2> QED
    BY <2>2, <2>3, <2>4 DEF Placed
<1>3. Terminated'
  BY DEF Terminated
<1>4. Spelled'
  <2>1. i'[s] = 0 /\ (sole' # None => sole' = s)
    BY DEF TypeOK
  <2>2. sole' # None => \A k \in Entries : SentTo(sole, k)' = {}
    BY <2>1 DEF SentTo
  <2> QED
    BY <2>2 DEF Spelled
<1> QED
  BY <1>1, <1>2, <1>3, <1>4

LEMMA EndInv ==
  ASSUME IInv, NEW s \in Scripts, End(s)
  PROVE  IInv'
<1> USE DEF IInv, End, paramVars
<1>1. <<>> \in Strings /\ Len(<<>>) = 0
  <2>1. <<>> \in [1 .. 0 -> Chars \union Refused]
    OBVIOUS
  <2> QED
    BY <2>1, MessageAssumption DEF Strings
<1>2. TypeOK'
  BY <1>1, MessageAssumption DEF TypeOK
<1>3. Placed'
  BY <1>1, StringLength DEF TypeOK, Placed
<1>4. Terminated' /\ Spelled'
  BY DEF Terminated, Spelled
<1> QED
  BY <1>2, <1>3, <1>4

\* idx_set takes the position, or leaves idx at the last entry.
LEMMA SetIdxInv ==
  ASSUME IInv, NEW s \in Scripts, SetIdx(s)
  PROVE  IInv'
<1> USE DEF IInv, SetIdx
<1>1. TypeOK'
  BY MessageAssumption DEF TypeOK, InRange
<1>2. Placed'
  <2>1. \A t \in Scripts : i'[t] <= Len(user_str'[t]) /\ (pc'[t] = "char" => i'[t] < Len(user_str'[t]))
    BY DEF TypeOK, Placed
  <2>2. sole' # None => sole = s /\ pc'[s] = "char" /\ \A u \in Scripts \ {s} : pc'[u] = "idle"
    BY DEF TypeOK, Placed
  <2>3. sole' # None => idx' = Place(i[s])
    <3> SUFFICES ASSUME sole # None PROVE idx' = Place(i[s])
      OBVIOUS
    <3>1. i[s] > 0 => idx = Place(i[s] - 1)
      BY <2>2 DEF Placed
    <3>2. i[s] \in Nat /\ MAX_IDX \in Nat
      BY MessageAssumption DEF TypeOK
    <3> QED
      BY <3>1, <3>2 DEF Place, InRange
  <2> QED
    BY <2>1, <2>2, <2>3 DEF Placed
<1>3. Terminated'
  BY DEF Terminated
<1>4. Spelled'
  BY DEF Spelled, SentTo
<1> QED
  BY <1>1, <1>2, <1>3, <1>4

\* ch_val_set: the one entry that changes is the one idx stands at, and of what a
\* script has sent, only what is meant for that entry.
LEMMA SetChValInv ==
  ASSUME IInv, NEW s \in Scripts, SetChVal(s)
  PROVE  IInv'
<1> DEFINE c == user_str[s][i[s] + 1]
<1>1. /\ i[s] < Len(user_str[s]) /\ i[s] \in Nat /\ Len(user_str[s]) \in 0 .. MaxLength
      /\ c \in Chars \union Refused /\ MAX_IDX \in Nat
  BY StringLength, MessageAssumption DEF IInv, Placed, TypeOK, SetChVal
<1>2. idx' = idx /\ idx \in 0 .. MAX_IDX /\ idx # LEN_ARR - 1 /\ idx \in Entries
  BY <1>1, MessageAssumption, NulReserved DEF IInv, TypeOK, SetChVal, ChValSet, ChValRefused, paramVars, Entries
<1>3. my_arr' = IF c \in Chars THEN [my_arr EXCEPT ![idx] = c] ELSE my_arr
  BY MessageAssumption DEF SetChVal, ChValSet, ChValRefused, paramVars
<1>4. TypeOK'
  <2>1. ch_val' \in Chars \union {Nul} /\ idx' \in 0 .. MAX_IDX
    BY <1>2 DEF IInv, TypeOK, SetChVal, ChValSet, ChValRefused, paramVars
  <2>2. my_arr' \in [Entries -> Chars \union {Nul}]
    BY <1>3 DEF IInv, TypeOK
  <2>3. i' \in [Scripts -> 0 .. MaxLength] /\ pc' \in [Scripts -> {"idle", "loop", "char"}]
    BY <1>1, MessageAssumption DEF IInv, TypeOK, SetChVal
  <2> QED
    BY <2>1, <2>2, <2>3 DEF IInv, TypeOK, SetChVal
<1>5. sole' = sole /\ (sole # None => sole = s /\ idx = Place(i[s]))
  BY DEF IInv, TypeOK, Placed, SetChVal
<1>6. Placed'
  <2>1. \A t \in Scripts : i'[t] <= Len(user_str'[t]) /\ (pc'[t] = "char" => i'[t] < Len(user_str'[t]))
    BY <1>1 DEF IInv, TypeOK, Placed, SetChVal
  <2>2. sole' # None => /\ \A u \in Scripts \ {s} : pc'[u] = "idle"
                        /\ pc'[s] = "loop" /\ i'[s] - 1 = i[s]
    BY <1>1, <1>5 DEF IInv, TypeOK, Placed, SetChVal
  <2> QED
    BY <1>2, <1>5, <2>1, <2>2 DEF Placed
<1>7. Terminated'
  BY <1>2, <1>3 DEF IInv, Terminated, TypeOK
<1>8. Spelled'
  <2> SUFFICES ASSUME sole # None, NEW k \in Entries
               PROVE  my_arr'[k] = IF SentTo(s, k)' = {} THEN before[k]
                                   ELSE user_str[s][Max(SentTo(s, k)')]
    BY <1>5 DEF Spelled, SetChVal
  <2>1. my_arr[k] = IF SentTo(s, k) = {} THEN before[k] ELSE user_str[s][Max(SentTo(s, k))]
    BY <1>5 DEF IInv, Spelled
  <2>2. user_str'[s] = user_str[s] /\ i'[s] = i[s] + 1
    BY DEF IInv, TypeOK, SetChVal
  <2>3. CASE c \in Chars /\ k = idx
    <3>1. i[s] + 1 \in SentTo(s, k)' /\ SentTo(s, k)' \subseteq 1 .. i[s] + 1
      BY <1>1, <1>5, <2>2, <2>3 DEF SentTo, Place
    <3>2. Max(SentTo(s, k)') = i[s] + 1
      BY <1>1, <3>1, NewMax
    <3>3. my_arr'[k] = c
      BY <1>2, <1>3, <2>3 DEF IInv, TypeOK
    <3> QED
      BY <3>1, <3>2, <3>3
  <2>4. CASE ~ (c \in Chars /\ k = idx)
    <3>1. SentTo(s, k)' = SentTo(s, k)
      BY <1>1, <1>5, <2>2, <2>4 DEF SentTo, Place
    <3>2. my_arr'[k] = my_arr[k]
      BY <1>2, <1>3, <2>4 DEF IInv, TypeOK
    <3> QED
      BY <2>1, <3>1, <3>2
  <2> QED
    BY <2>3, <2>4
<1> QED
  BY <1>4, <1>6, <1>7, <1>8 DEF IInv

LEMMA NextInv == IInv /\ [Next]_vars => IInv'
<1> SUFFICES ASSUME IInv, [Next]_vars PROVE IInv'
  OBVIOUS
<1>1. ASSUME NEW s \in Scripts, NEW str \in Strings, Start(s, str) PROVE IInv'
  BY <1>1, StartInv
<1>2. ASSUME NEW s \in Scripts, SetIdx(s) PROVE IInv'
  BY <1>2, SetIdxInv
<1>3. ASSUME NEW s \in Scripts, SetChVal(s) PROVE IInv'
  BY <1>3, SetChValInv
<1>4. ASSUME NEW s \in Scripts, End(s) PROVE IInv'
  BY <1>4, EndInv
<1>5. CASE UNCHANGED vars
  <2> USE <1>5 DEF vars, paramVars
  <2>1. TypeOK'
    BY DEF IInv, TypeOK
  <2>2. Placed' /\ Terminated'
    BY DEF IInv, Placed, Terminated
  <2>3. Spelled'
    BY DEF IInv, Spelled, SentTo
  <2> QED
    BY <2>1, <2>2, <2>3 DEF IInv
<1> QED
  BY <1>1, <1>2, <1>3, <1>4, <1>5 DEF Next

LEMMA Inductive == Spec => []IInv
  BY InitInv, NextInv, PTL DEF Spec

-----------------------------------------------------------------------------
\* The parameters and the scripts stay in their types: idx in its range
\* (my_module.c:38-45).
THEOREM TypeCorrect == Spec => []TypeOK
<1>1. IInv => TypeOK
  BY DEF IInv
<1> QED
  BY <1>1, Inductive, PTL

\* The array always ends with a Nul, however many scripts run at once
\* (my_module.c:97, 116).
THEOREM TerminatedCorrect == Spec => []Terminated
<1>1. IInv => Terminated
  BY DEF IInv
<1> QED
  BY <1>1, Inductive, PTL

\* A script that has the module for itself spells its string, of any length, with
\* characters that are refused or not (check.sh:18-26).
THEOREM SpelledCorrect == Spec => []Spelled
<1>1. IInv => Spelled
  BY DEF IInv
<1> QED
  BY <1>1, Inductive, PTL

=============================================================================
