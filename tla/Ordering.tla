------------------------------ MODULE Ordering ------------------------------
(***************************************************************************)
(* What a loop keeps that goes through a sequence and takes the members    *)
(* that qualify: their places, in the order of the sequence.               *)
(***************************************************************************)
EXTENDS Naturals, FiniteSets

\* The members of S from the least on: each where those up to it end.
InOrder(S) ==
    LET place(i) == Cardinality({j \in S : j <= i})
    IN  [k \in 1..Cardinality(S) |-> CHOOSE i \in S : place(i) = k]
=============================================================================
