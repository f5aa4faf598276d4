-------------------------------- MODULE MCGate --------------------------------
(* A small instance: one name is followed, two of its tries can be under way.   *)
EXTENDS Gate

CONSTANTS ann, s1, s2

Roles1 == [n \in {ann} |-> "operator"]
===============================================================================
