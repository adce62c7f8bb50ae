-------------------------------- MODULE Lists --------------------------------
(***************************************************************************)
(* Lists of the code that are sorted or filtered, by the indices that      *)
(* stay.                                                                   *)
(***************************************************************************)
EXTENDS Integers, Sequences, FiniteSets

(* The members of a set in an order: upto[i] is i with all that come before  *)
(* it.                                                                       *)
Ordered(upto) ==
  [n \in 1 .. Cardinality(DOMAIN upto) |-> CHOOSE i \in DOMAIN upto : Cardinality(upto[i]) = n]
Ascending(K) == Ordered([i \in K |-> {j \in K : j <= i}])
Picked(list, K) == [n \in 1 .. Cardinality(K) |-> list[Ascending(K)[n]]]
Keep(list, S) == Picked(list, {i \in DOMAIN list : list[i] \in S})

=============================================================================
