------------------------------- MODULE Lists --------------------------------
(***************************************************************************)
(* Functions of lists (src/lib/stdlib.zscheme).  One that calls itself on   *)
(* the cdr of a list is a function of the position where the rest begins.   *)
(***************************************************************************)
EXTENDS Naturals, SequencesExt

\* The members of lst that are in T.
filter(T, lst) ==
    LET from[i \in 1 .. Len(lst) + 1] ==
          IF i > Len(lst) THEN <<>>
          ELSE IF lst[i] \in T THEN <<lst[i]>> \o from[i + 1]
          ELSE from[i + 1]
    IN from[1]

(* A faulty variant of unique_list, used by nothing.                         *)
RepeatsKept(lst) == lst

\* Keeps the last occurrence of each value.
unique_list(lst) ==
    LET from[i \in 1 .. Len(lst) + 1] ==
          IF i > Len(lst) THEN <<>>
          ELSE IF \E j \in i + 1 .. Len(lst) : lst[j] = lst[i] THEN from[i + 1]
          ELSE <<lst[i]>> \o from[i + 1]
    IN from[1]
=============================================================================
