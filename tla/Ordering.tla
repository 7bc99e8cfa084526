------------------------------ MODULE Ordering ------------------------------
(***************************************************************************)
(* Sets of numbers in their order, as a directory, a service or a sort     *)
(* gives what the numbers stand for.                                       *)
(***************************************************************************)
EXTENDS Integers, FiniteSets

\* The members of a finite set of numbers, in their order.
InOrder(S) ==
  LET place == [n \in S |-> Cardinality({i \in S : i <= n})]
  IN  [k \in 1..Cardinality(S) |-> CHOOSE n \in S : place[n] = k]
=============================================================================
