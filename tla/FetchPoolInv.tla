---------------------------- MODULE FetchPoolInv ----------------------------
(***************************************************************************)
(* The inductive invariant of FetchPool.  The properties themselves do not *)
(* say who may clear a slot's flag or what a job stands for; these do.     *)
(***************************************************************************)
EXTENDS FetchPool

\* Job j fetches the key its slot is assigned to, and the slot is in flight.
Owned(j) == j.slot \in slot_flight /\ slot_key[j.slot] = j.key

Busy(w) == job[w] # NoJob

\* Every job, queued or running, is for a slot in flight and the slot's own key.
JobsOwned ==
  /\ \A i \in 1 .. Len(q_mand) : Owned(q_mand[i])
  /\ \A i \in 1 .. Len(q_spec) : Owned(q_spec[i])
  /\ \A w \in Workers : Busy(w) => Owned(job[w])

\* No two jobs are for one slot.
JobsDistinct ==
  /\ \A i, j \in 1 .. Len(q_mand) : i # j => q_mand[i].slot # q_mand[j].slot
  /\ \A i, j \in 1 .. Len(q_spec) : i # j => q_spec[i].slot # q_spec[j].slot
  /\ \A v, w \in Workers : (v # w /\ Busy(v) /\ Busy(w)) => job[v].slot # job[w].slot
  /\ \A i \in 1 .. Len(q_mand), j \in 1 .. Len(q_spec) : q_mand[i].slot # q_spec[j].slot
  /\ \A i \in 1 .. Len(q_mand), w \in Workers : Busy(w) => q_mand[i].slot # job[w].slot
  /\ \A i \in 1 .. Len(q_spec), w \in Workers : Busy(w) => q_spec[i].slot # job[w].slot

\* A slot in flight is assigned: an empty slot may be taken without a look at
\* its flag.
FlightAssigned == \A s \in slot_flight : slot_key[s] # NoKey

\* Between the read and the copy a worker's own slice holds its job's expert;
\* between the copy and the landing the slot does.
BounceRight ==
  \A w \in Workers :
    /\ worker[w] = "scatter" => bounce[w] = job[w].key
    /\ worker[w] = "land" => pool[job[w].slot] = job[w].key

InOp == main \in {"resolve", "predict", "promote", "asleep", "woken", "matmul"}

\* What the op has emitted stays assigned to the routed experts, is pinned, and
\* is waited for if it is in flight; nothing else is waited for.
EmittedHeld ==
  InOp =>
    /\ \A i \in 1 .. Len(out) :
         /\ i \in 1 .. Len(ids)
         /\ slot_key[out[i]] = <<layer, ids[i]>>
         /\ out[i] \in pinned
         /\ out[i] \in slot_flight => out[i] \in wait_slots
    /\ \A s \in wait_slots : \E i \in 1 .. Len(out) : out[i] = s

\* The op emits one slot per id, and starts with none emitted.
EmittedAll ==
  /\ main \in {"idle", "graph"} => out = <<>> /\ wait_slots = {}
  /\ main \in {"predict", "promote", "asleep", "woken", "matmul"} => Len(out) = Len(ids)
  /\ main = "matmul" => Landed

\* The pool is right, and this is why it stays right.
PoolInv ==
  /\ MapsAgree
  /\ ResidentMeansLoaded
  /\ JobsOwned
  /\ JobsDistinct
  /\ FlightAssigned
  /\ BounceRight
  /\ EmittedHeld
  /\ EmittedAll

\* A flag is not left behind: each slot in flight has a job, queued or running,
\* which will clear it.
FlightHasJob ==
  \A s \in slot_flight :
    \/ \E i \in 1 .. Len(q_mand) : q_mand[i].slot = s
    \/ \E i \in 1 .. Len(q_spec) : q_spec[i].slot = s
    \/ \E w \in Workers : Busy(w) /\ job[w].slot = s

\* While ids are resolved, only what the op has emitted is pinned.
PinnedEmitted ==
  main = "resolve" => \A s \in pinned : \E i \in 1 .. Len(out) : out[i] = s
=============================================================================
