---------------------------- MODULE MCReconciler ----------------------------
(* Finite instances of Reconciler.                                         *)
EXTENDS Reconciler, TLC

CONSTANTS t1, t2, a1, s1, s2

\* Two pushes of one application, on different streams.
MCKind == [t \in Task |-> "push"]
MCApp == [t \in Task |-> a1]
MCStream == [t \in Task |-> IF t = t1 THEN s1 ELSE s2]

\* A push and a record of one stream: two lists of one application.
MixedKind == [t \in Task |-> IF t = t1 THEN "push" ELSE "record"]
MixedStream == [t \in Task |-> s1]

Interchangeable == Permutations(Pass) \cup Permutations(Req)
=============================================================================
