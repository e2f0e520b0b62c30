----------------------------- MODULE MCCeremony -----------------------------
(* The smallest roster validateParams accepts; the first custodian has two   *)
(* tabs, and mishaps befall nobody else.                                     *)
EXTENDS Ceremony

CONSTANTS n1, n2, n3, t1, t2, t3, t4

MCOwner == [t \in Tabs |-> CASE t = t2 -> n2 [] t = t3 -> n3 [] OTHER -> n1]

\* The other two custodians change places, each with their tab.
Swap == [x \in {n2, n3, t2, t3} |->
  CASE x = n2 -> n3 [] x = n3 -> n2 [] x = t2 -> t3 [] OTHER -> t2]
Symmetry == {Swap, [x \in {n2, n3, t2, t3} |-> x]}
=============================================================================
