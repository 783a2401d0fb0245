--------------------------- MODULE FetchPoolStore ---------------------------
(***************************************************************************)
(* The fetch pool implements the store of experts.                         *)
(***************************************************************************)
EXTENDS FetchPoolInv

\* What the graph sees of the states of its thread.
Phase ==
  CASE main \in {"resolve", "predict", "promote", "asleep", "woken"} -> "waiting"
    [] main = "matmul" -> "computing"
    [] main \in {"joining", "destroyed"} -> "stopped"
    [] Aborted -> "failed"
    [] OTHER -> main

\* The mul_mat_ids read the bytes that are in the emitted slots.
Operands == IF main = "matmul" THEN [i \in 1 .. Len(out) |-> pool[out[i]]] ELSE <<>>

\* An expert is in memory if its slot holds its bytes and nobody fetches into it.
Resident ==
  {k \in Keys : where[k] # NoSlot /\ where[k] \notin slot_flight /\ pool[where[k]] = k}

Store == INSTANCE ExpertStore WITH
  phase <- Phase, operands <- Operands, resident <- Resident

\* Paging is invisible: whatever is prefetched, evicted and fetched meanwhile,
\* each layer computes with the experts it was routed to and with their bytes,
\* in the order of the layers, and no group holds more experts than it has slots.
ImplementsStore == Store!Spec
=============================================================================
