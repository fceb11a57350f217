-------------------------------- MODULE Lists --------------------------------
(***************************************************************************)
(* The two loops over lists that the SDK is built from: a new slice to     *)
(* which each element that is wanted is appended in turn, and Go's stable  *)
(* sort.                                                                   *)
(***************************************************************************)
EXTENDS Integers, Sequences

\* The slice after each of the loop's steps.
Keeping(s, wanted) ==
    LET kept[n \in 0..Len(s)] ==
            IF n = 0 THEN <<>>
            ELSE IF s[n] \in wanted THEN Append(kept[n - 1], s[n]) ELSE kept[n - 1]
    IN  kept

\* The elements of a list that are wanted, in their order.
Kept(s, wanted) == Keeping(s, wanted)[Len(s)]

\* External: sort.SliceStable up to twenty elements is an insertion sort.  An
\* element moves left past those it is less than, and no further; less is the
\* set of the pairs that the comparator holds of.
Place(s, x, less) ==
    LET stays == {i \in 1..Len(s) : <<x, s[i]>> \notin less}
    IN  IF stays = {} THEN 0 ELSE CHOOSE at \in stays : \A i \in stays : i <= at

Inserted(s, x, less) ==
    LET at == Place(s, x, less)
    IN  [i \in 1..(Len(s) + 1) |-> IF i <= at THEN s[i] ELSE IF i = at + 1 THEN x ELSE s[i - 1]]

Sorting(s, less) ==
    LET sorted[n \in 0..Len(s)] ==
            IF n = 0 THEN <<>> ELSE Inserted(sorted[n - 1], s[n], less)
    IN  sorted

SliceStable(s, less) == Sorting(s, less)[Len(s)]
=============================================================================
