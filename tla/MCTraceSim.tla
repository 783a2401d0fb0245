----------------------------- MODULE MCTraceSim -----------------------------
(* An instance of TraceSim for TLC: layers 0 and 2 are dense.  Nothing tells one     *)
(* expert id from another.                                                           *)
EXTENDS TraceSim

Layers13 == <<1, 3>>

Symmetry == Permutations(Experts)
=============================================================================
