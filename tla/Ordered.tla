------------------------------ MODULE Ordered -------------------------------
(***************************************************************************)
(* What a loop over a std::map and a std::remove_if give: numbers in their *)
(* ascending order, and the elements of a sequence at some of its places.  *)
(* SetToSortSeq and SelectSeq say the same of an operator they are given.  *)
(***************************************************************************)
EXTENDS Naturals, Sequences, FiniteSets

\* The elements of a finite set of numbers, from the least to the greatest.
Ascending(S) ==
    [k \in 1..Cardinality(S) |-> CHOOSE x \in S : Cardinality({y \in S : y < x}) = k - 1]

\* The elements of s at the places of a set, in the order they have in s.
AtPlaces(s, places) ==
    LET order == Ascending(places)
    IN  [k \in DOMAIN order |-> s[order[k]]]
=============================================================================
