--------------------------- MODULE FetchSyncStore ---------------------------
(***************************************************************************)
(* The synchronous fetch path implements the store of experts too: with    *)
(* lookahead off, the graph sees what it sees with lookahead on.           *)
(***************************************************************************)
EXTENDS FetchSyncInv

Phase ==
  CASE main \in {"resolve", "fetch"} -> "waiting"
    [] main = "matmul" -> "computing"
    [] main = "destroyed" -> "stopped"
    [] Aborted -> "failed"
    [] OTHER -> main

\* The mul_mat_ids read the bytes that are in the emitted slots.
Operands == IF main = "matmul" THEN [i \in 1 .. Len(out) |-> pool[out[i]]] ELSE <<>>

\* An expert is in memory if its slot holds its bytes and nobody fetches into it.
Resident ==
  {k \in Keys : where[k] # NoSlot /\ pool[where[k]] = k
                  /\ ~(\E r \in Readers : Fetching(r) /\ misses[drawn[r]].slot = where[k])}

Store == INSTANCE ExpertStore WITH
  phase <- Phase, operands <- Operands, resident <- Resident

\* Each layer computes with the experts it was routed to and with their bytes, in
\* the order of the layers, and no group holds more experts than it has slots.
ImplementsStore == Store!Spec
=============================================================================
