---------------------------- MODULE FetchSyncInv ----------------------------
(***************************************************************************)
(* The inductive invariant of FetchSync.                                   *)
(***************************************************************************)
EXTENDS FetchSync

InOp == main \in {"resolve", "fetch", "matmul"}

\* What the op has emitted stays assigned to the routed experts, and the op has
\* pinned that and nothing else.
EmittedHeld ==
  /\ InOp =>
       /\ Len(out) <= Len(ids)
       /\ \A i \in 1 .. Len(out) : slot_key[out[i]] = <<layer, ids[i]>>
       /\ pinned = {out[i] : i \in 1 .. Len(out)}
  /\ main \in {"idle", "graph"} => out = <<>> /\ misses = <<>>
  /\ main \in {"fetch", "matmul"} => Len(out) = Len(ids)

\* Each miss is for a pinned slot of its own, which is assigned its key.
MissesHeld ==
  /\ InOp =>
       \A m \in 1 .. Len(misses) :
         misses[m].slot \in pinned /\ slot_key[misses[m].slot] = misses[m].key
  /\ \A m, n \in 1 .. Len(misses) : m # n => misses[m].slot # misses[n].slot

\* Readers run while the graph thread waits for them, each has drawn a miss of
\* its own, and its slice holds that miss once it is read; they end only when
\* all misses are drawn.
ReadersRight ==
  /\ main \in {"idle", "graph", "resolve"} => next = 1
  /\ main \in {"idle", "graph", "resolve", "matmul", "destroyed"} => AllDone
  /\ \A r \in Readers : Fetching(r) =>
       /\ drawn[r] \in 1 .. Len(misses)
       /\ drawn[r] < next
       /\ reader[r] = "scatter" => bounce[r] = misses[drawn[r]].key
  /\ \A q, r \in Readers : (q # r /\ Fetching(q) /\ Fetching(r)) => drawn[q] # drawn[r]
  /\ main = "fetch" => ~AllDone \/ next > Len(misses)

\* The cache is right, and this is why it stays right.
SyncInv ==
  /\ MapsAgree
  /\ LoadedOrPending
  /\ EmittedHeld
  /\ MissesHeld
  /\ ReadersRight

\* Miss m is still to be drawn, or a reader has it.
Unfetched(m) == m >= next \/ \E r \in Readers : Fetching(r) /\ drawn[r] = m

\* A miss that is still to be fetched is not in its slot, and a slot that was never assigned
\* holds nothing.
UnfetchedAbsent ==
  /\ \A m \in 1 .. Len(misses) : Unfetched(m) => pool[misses[m].slot] # misses[m].key
  /\ \A s \in Slots : slot_key[s] = NoKey => pool[s] = NoKey
=============================================================================
