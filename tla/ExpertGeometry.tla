--------------------------- MODULE ExpertGeometry ---------------------------
(***************************************************************************)
(* What the runtime knows of a pack once it has started (runtime/patches/  *)
(* 0001, init): the paged layers, their experts, the groups of layers with *)
(* equal geometry, which share pools and cache slots, and the slots of     *)
(* each group.                                                             *)
(***************************************************************************)
EXTENDS Integers, Sequences, FiniteSets

CONSTANTS
  NLayers,  \* paged MoE layers, numbered in graph order
  Experts,  \* expert ids of a layer
  Groups,   \* geometry groups
  GroupOf,  \* layer -> group
  NSlots,   \* group -> number of slots (g.n_slots)
  NoKey, NoSlot

Layers == 1 .. NLayers
Keys   == Layers \X Experts
Slots  == UNION {{g} \X (1 .. NSlots[g]) : g \in Groups}

SlotsOf(g) == {s \in Slots : s[1] = g}

ASSUME GeometryAssumption ==
  /\ NLayers \in Nat \ {0}
  /\ IsFiniteSet(Groups)
  /\ GroupOf \in [1 .. NLayers -> Groups]
  /\ NSlots \in [Groups -> Nat]

ASSUME NullAssumption ==
  /\ NoKey \notin Keys
  /\ NoSlot \notin Slots

\* The choices of the m best experts for each of t tokens.
TopK(t, m) ==
  {f \in [1 .. t * m -> Experts] :
     \A i, j \in 1 .. t * m : (i # j /\ (i - 1) \div m = (j - 1) \div m) => f[i] # f[j]}
=============================================================================
