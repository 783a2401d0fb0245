----------------------------- MODULE MCFetchSync ----------------------------
(* An instance of FetchSync for TLC.                                       *)
EXTENDS FetchSyncStore, FetchSyncSim, TLC

\* The middle layer has a geometry of its own, and its pool fewer slots than the floor of
\* the budget, one per expert: there the op's own check is all there is.
TwoGroups == {"a", "b"}
OddPool   == [l \in 1 .. NLayers |-> IF l = 2 THEN "b" ELSE "a"]
OddSlots  == [g \in {"a", "b"} |-> IF g = "a" THEN 3 ELSE 1]

\* Nothing in the cache depends on which expert of a layer is which.
ExpertsAlike == Permutations(Experts)
=============================================================================
