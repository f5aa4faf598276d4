------------------------------ MODULE MCSetup ------------------------------
(* The wizard in tabs that are interchangeable.                            *)
EXTENDS Setup, TLC

Tabs == Permutations(Tab)
=============================================================================
