------------------------------- MODULE Slices -------------------------------
(***************************************************************************)
(* What the program does to slices: package sort, and the loops that append *)
(* some of the elements of one slice to another.                            *)
(***************************************************************************)
EXTENDS Integers, Sequences, SequencesExt

(* The contract of package sort (sort.Ints, sort.Slice): the elements are   *)
(* rearranged so that none is less than one before it.                      *)
Sort(s, Less(_, _)) ==
    LET order == CHOOSE p \in Bijection(1 .. Len(s), 1 .. Len(s)) :
                    \A i, j \in 1 .. Len(s) : i < j => ~Less(s[p[j]], s[p[i]])
    IN  [i \in 1 .. Len(s) |-> s[order[i]]]

Ascending(a, b) == a < b

(* A loop over s appends the elements with an index in K. *)
Selected(s, K) ==
    LET result[i \in 0 .. Len(s)] ==
            IF i = 0 THEN <<>>
            ELSE IF i \in K THEN Append(result[i - 1], s[i]) ELSE result[i - 1]
    IN  result[Len(s)]

=============================================================================
