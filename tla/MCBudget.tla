------------------------------ MODULE MCBudget ------------------------------
(* Instances of Budget for TLC: two geometries of one size and one of another, extents   *)
(* with and without padding, up to three layers in any arrangement.                       *)
EXTENDS Budget

MCGeometries ==
  {[parts |-> "q4", bytes |-> 3, stride |-> 4],
   [parts |-> "q5", bytes |-> 3, stride |-> 4],
   [parts |-> "q6", bytes |-> 4, stride |-> 4]}

MCModels ==
  {[layers |-> layers, n_expert |-> e, top_k |-> k, resident |-> 2, kv |-> 1] :
     layers \in BoundedSeq(MCGeometries, 3) \ {<<>>}, e \in {3, 4}, k \in {1, 2}}

MCVrams == 0 .. 56
=============================================================================
