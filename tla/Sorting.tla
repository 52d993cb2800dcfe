------------------------------- MODULE Sorting -------------------------------
(***************************************************************************)
(* Go's sort.Slice and sort.SliceStable by what they leave, when no two of *)
(* the things sorted are equal: the one list of them all in their order.   *)
(* (SetToSortSeq, on an order given as a set of pairs.)                    *)
(***************************************************************************)
EXTENDS Naturals, FiniteSets

Sorted(S, Before) ==
  LET places == 1..Cardinality(S) IN
    CHOOSE s \in [places -> S] : \A i, j \in places : i < j => <<s[i], s[j]>> \in Before

=============================================================================
