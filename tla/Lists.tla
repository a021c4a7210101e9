-------------------------------- MODULE Lists --------------------------------
(***************************************************************************)
(* What is left of a linked list when a traversal unlinks some of its      *)
(* nodes, and the order in which a loop over an array meets some of its    *)
(* indexes.  SelectSeq and SetToSortSeq say the same; their definitions    *)
(* are not ones that a proof can expand.                                   *)
(***************************************************************************)
EXTENDS Naturals, SequencesExt

(* The elements of a list that are in S, in their order. *)
Among(list, S) ==
  LET upto[n \in 0..Len(list)] == IF n = 0 THEN <<>>
                                  ELSE IF list[n] \in S THEN Append(upto[n - 1], list[n])
                                  ELSE upto[n - 1]
  IN upto[Len(list)]

(* The numbers of a finite set, from the least one on. *)
Ascending(S) == CHOOSE s \in [1..Cardinality(S) -> S] :
                  \A i, j \in DOMAIN s : i < j => s[i] < s[j]
=============================================================================
