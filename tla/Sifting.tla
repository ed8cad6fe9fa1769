-------------------------------- MODULE Sifting --------------------------------
(***************************************************************************)
(* Filter over an array, which keeps the elements at some of its places in    *)
(* their order.                                                            *)
(***************************************************************************)
EXTENDS Integers, FiniteSets

Nth(places, n) == CHOOSE i \in places : Cardinality({j \in places : j <= i}) = n
Sifted(s, places) == [n \in 1..Cardinality(places) |-> s[Nth(places, n)]]
=============================================================================
