---------------------------- MODULE MCFetchPool ----------------------------
(* Instances of FetchPool for TLC.                                         *)
EXTENDS FetchPoolStore, TLC

\* Every layer has the same geometry and shares one pool.
OneGroup == {"g"}
SharedPool == [l \in 1 .. NLayers |-> "g"]
TwoSlots == [g \in {"g"} |-> 2]
ThreeSlots == [g \in {"g"} |-> 3]

\* The middle layer has a geometry of its own.
TwoGroups == {"a", "b"}
OddPool == [l \in 1 .. NLayers |-> IF l = 2 THEN "b" ELSE "a"]
OddSlots == [g \in {"a", "b"} |-> IF g = "a" THEN 3 ELSE 2]

\* Nothing in the cache depends on which expert of a layer is which.
ExpertsAlike == Permutations(Experts)
=============================================================================
