---------------------------- MODULE Subsequences ----------------------------
(***************************************************************************)
(* Picking out of a sequence, in their order, the elements that a loop     *)
(* over it takes: those to keep of a list, those that end a message.       *)
(***************************************************************************)
EXTENDS Naturals, Sequences, FiniteSets

\* The n-th smallest number of S.
Nth(S, n) == CHOOSE i \in S : Cardinality({j \in S : j <= i}) = n

\* The elements of s at the places S.
Taken(s, S) == [n \in 1..Cardinality(S) |-> s[Nth(S, n)]]
=============================================================================
