---------------------------- MODULE ExpertStore -----------------------------
(***************************************************************************)
(* What a paged cache of experts promises to the graph that uses it: the   *)
(* layers of a pass are computed in order, and each layer's mul_mat_ids    *)
(* read exactly the weights of the experts its tokens were routed to, as   *)
(* they would with every expert in memory.  Which experts are resident in  *)
(* between is the cache's own business, as long as no group holds more     *)
(* than its slots and the experts a layer computes with stay.  The process *)
(* may also fail, but never by computing with other bytes.                 *)
(*                                                                         *)
(* Both fetch paths implement this specification.                          *)
(***************************************************************************)
EXTENDS ExpertGeometry

CONSTANTS NUsed, TokenCounts

VARIABLES
  phase,    \* where the graph evaluation is
  tokens,   \* size of the ubatch
  layer, ids,
  operands, \* what the mul_mat_ids of the layer read, one expert per id
  resident  \* the experts in memory

store == <<phase, tokens, layer, ids, operands, resident>>

Phases == {"idle", "graph", "waiting", "computing", "stopped", "failed"}

Routed == [i \in DOMAIN ids |-> <<layer, ids[i]>>]

Loaded(r) == {Routed[i] : i \in DOMAIN ids} \subseteq r

OfGroup(r, g) == {k \in r : GroupOf[k[1]] = g}

Fits(r) == \A g \in Groups : Cardinality(OfGroup(r, g)) <= NSlots[g]

Init ==
  /\ phase = "idle"
  /\ tokens = 0
  /\ layer = 1
  /\ ids = <<>>
  /\ operands = <<>>
  /\ resident = {}

StartPass ==
  /\ phase = "idle"
  /\ tokens' \in TokenCounts
  /\ layer' = 1
  /\ phase' = "graph"
  /\ UNCHANGED <<ids, operands, resident>>

\* The router of the layer has chosen its experts.
Route ==
  /\ phase = "graph"
  /\ ids' \in TopK(tokens, NUsed)
  /\ phase' = "waiting"
  /\ UNCHANGED <<tokens, layer, operands, resident>>

\* Experts come and go.
Page ==
  /\ resident' \subseteq Keys
  /\ Fits(resident')
  /\ phase = "computing" => Loaded(resident')
  /\ UNCHANGED <<phase, tokens, layer, ids, operands>>

\* Every routed expert is resident: the layer computes with them.
Serve ==
  /\ phase = "waiting"
  /\ Loaded(resident)
  /\ operands' = Routed
  /\ phase' = "computing"
  /\ UNCHANGED <<tokens, layer, ids, resident>>

Finish ==
  /\ phase = "computing"
  /\ IF layer = NLayers
     THEN phase' = "idle" /\ layer' = layer
     ELSE phase' = "graph" /\ layer' = layer + 1
  /\ ids' = <<>>
  /\ operands' = <<>>
  /\ UNCHANGED <<tokens, resident>>

Stop ==
  /\ phase = "idle"
  /\ phase' = "stopped"
  /\ UNCHANGED <<tokens, layer, ids, operands, resident>>

Fail ==
  /\ phase' = "failed"
  /\ operands' = <<>>
  /\ UNCHANGED <<tokens, layer, ids, resident>>

Next == StartPass \/ Route \/ Page \/ Serve \/ Finish \/ Stop \/ Fail

Spec == Init /\ [][Next]_store
=============================================================================
