----------------------------- MODULE Subsequences -----------------------------
(***************************************************************************)
(* What filter and retain leave of a sequence: the elements at some of its *)
(* places, in their order.  The places are counted instead of being walked *)
(* through, so that the proofs need facts about finite sets only.          *)
(***************************************************************************)
EXTENDS Naturals, Sequences, FiniteSets

\* How many of the places come up to i.
Rank(places, i) == Cardinality({j \in places : j <= i})

\* The k-th place.
Place(places, k) == CHOOSE i \in places : Rank(places, i) = k

Subsequence(seq, places) ==
    [k \in 1..Cardinality(places) |-> seq[Place(places, k)]]
=============================================================================
