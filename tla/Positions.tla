------------------------------ MODULE Positions ------------------------------
(***************************************************************************)
(* What is left of a list when only some of its positions stay.             *)
(***************************************************************************)
EXTENDS Integers, FiniteSets, Sequences

\* The place of the position i among those of S.
Rank(S, i) == Cardinality({j \in S : j <= i})

\* What the list holds at the positions S, in its order.
AtPositions(list, S) ==
  [n \in 1 .. Cardinality(S) |-> list[CHOOSE i \in S : Rank(S, i) = n]]

\* What the list holds of the set, as often as it does and in its order.
OnlyFrom(list, set) == AtPositions(list, {i \in DOMAIN list : list[i] \in set})
=============================================================================
