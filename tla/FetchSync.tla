------------------------------ MODULE FetchSync -----------------------------
(***************************************************************************)
(* The expert cache of the paged runtime with lookahead off                *)
(* (llama_nvmoe_fetch_op_sync, runtime/patches/0003 and 0004): the graph   *)
(* thread resolves the routed experts of a layer to slots, evicting as it  *)
(* goes, and only then fetches the misses of the op, with up to Qd readers *)
(* that are started for the op, draw the misses from an atomic index, and  *)
(* are joined before the op returns.  Nothing is locked: while readers run *)
(* the graph thread only waits for them.                                   *)
(*                                                                         *)
(* A single miss is fetched on the graph thread itself, as reader 0; here  *)
(* it is an op with one reader.                                            *)
(***************************************************************************)
EXTENDS SlotCache

CONSTANTS
  Qd,           \* concurrent readers (NVMOE_QD)
  NUsed,        \* routed experts per token (n_expert_used)
  TokenCounts,  \* ubatch sizes a pass may have
  ReadsMayFail, \* whether a pread of the pack may fail
  MaxPasses     \* bound on the graph evaluations of a run

Readers == 1 .. Qd
Misses  == [key : Keys, slot : Slots]

ASSUME SizeAssumption ==
  /\ Qd \in Nat \ {0}
  /\ NUsed \in Nat \ {0}
  /\ TokenCounts \subseteq Nat \ {0}
  /\ MaxPasses \in Nat
  /\ ReadsMayFail \in BOOLEAN
  /\ IsFiniteSet(Experts)

VARIABLES
  main,     \* where the graph thread is
  passes, tokens, layer, ids,
  out,      \* slots emitted so far by the op, one per id
  misses,   \* experts and slots the op has to fetch
  next,     \* index of the next miss to draw, counted from 1
  reader,   \* reader -> where it is; "none" if it is not running
  drawn,    \* reader -> index of the miss it has drawn, 0 if none
  bounce    \* reader -> key whose extent its bounce slice holds

op == <<passes, tokens, layer, ids, out>>
crew == <<next, reader, drawn, bounce>>
vars == <<cache, pool, main, op, misses, crew>>

Aborted == main \in {"cache_abort", "read_abort"}

\* Reader r is at l, in a process that has not aborted.
At(r, l) == reader[r] = l /\ ~Aborted

Init ==
  /\ CacheInit
  /\ main = "idle"
  /\ passes = 0
  /\ tokens = 0
  /\ layer = 1
  /\ ids = <<>> /\ out = <<>> /\ misses = <<>>
  /\ next = 1
  /\ reader = [r \in Readers |-> "none"]
  /\ drawn = [r \in Readers |-> 0]
  /\ bounce = [r \in Readers |-> NoKey]

-----------------------------------------------------------------------------
(* The graph thread.                                                       *)

BeginPass ==
  /\ main = "idle"
  /\ passes < MaxPasses
  /\ passes' = passes + 1
  /\ tokens' \in TokenCounts
  /\ layer' = 1
  /\ main' = "graph"
  /\ UNCHANGED <<cache, pool, ids, out, misses, crew>>

\* Fault: epoch is not advanced.
BeginOpSameEpoch ==
  /\ main = "graph"
  /\ ids' \in TopK(tokens, NUsed)
  /\ main' = "resolve"
  /\ UNCHANGED <<cache, pool, passes, tokens, layer, out, misses, crew>>

\* The custom op of a layer runs: epoch++.
BeginOp ==
  /\ main = "graph"
  /\ ids' \in TopK(tokens, NUsed)
  /\ pinned' = {}
  /\ main' = "resolve"
  /\ UNCHANGED <<slot_key, where, slot_flight, slot_spec, slot_used, pool,
                 passes, tokens, layer, out, misses, crew>>

Resolving == main = "resolve" /\ Len(out) < Len(ids)

\* The key of the next id to resolve.
Wanted == <<layer, ids[Len(out) + 1]>>

Emit(s) ==
  /\ slot_used' = Touch(s)
  /\ pinned' = pinned \cup {s}
  /\ out' = Append(out, s)

ResolveHit ==
  /\ Resolving
  /\ where[Wanted] # NoSlot
  /\ Emit(where[Wanted])
  /\ UNCHANGED <<slot_key, where, slot_flight, slot_spec, pool, main,
                 passes, tokens, layer, ids, misses, crew>>

\* The id takes a victim's slot: from now on the cache claims that it is there,
\* and a later id of the op hits it.
ResolveMiss ==
  /\ Resolving
  /\ where[Wanted] = NoSlot
  /\ \E s \in Slots :
       /\ IsVictim(GroupOf[layer], s)
       /\ slot_key' = [slot_key EXCEPT ![s] = Wanted]
       /\ where' = Remap(s, Wanted)
       /\ misses' = Append(misses, [key |-> Wanted, slot |-> s])
       /\ Emit(s)
  /\ UNCHANGED <<slot_flight, slot_spec, pool, main, passes, tokens, layer, ids, crew>>

\* "expert cache too small for a single op": the process aborts.
ResolveAbort ==
  /\ Resolving
  /\ where[Wanted] = NoSlot
  /\ NoVictim(GroupOf[layer])
  /\ main' = "cache_abort"
  /\ UNCHANGED <<cache, pool, op, misses, crew>>

\* min(qd, misses) readers are started, if there is anything to fetch.
Started == {r \in Readers : r <= Len(misses)}

ResolveDone ==
  /\ main = "resolve"
  /\ Len(out) = Len(ids)
  /\ main' = IF misses = <<>> THEN "matmul" ELSE "fetch"
  /\ reader' = [r \in Readers |-> IF r \in Started THEN "ready" ELSE "none"]
  /\ UNCHANGED <<cache, pool, op, misses, next, drawn, bounce>>

\* Fault: the first reader alone is joined.
FirstDone == reader[1] = "none"

AllDone == \A r \in Readers : reader[r] = "none"

\* The readers are joined and the op returns.
Joined ==
  /\ main = "fetch"
  /\ AllDone
  /\ main' = "matmul"
  /\ UNCHANGED <<cache, pool, op, misses, crew>>

\* The layer's mul_mat_ids have read the op's slots.
EndMatmul ==
  /\ main = "matmul"
  /\ main' = IF layer = NLayers THEN "idle" ELSE "graph"
  /\ layer' = IF layer = NLayers THEN layer ELSE layer + 1
  /\ ids' = <<>>
  /\ out' = <<>>
  /\ misses' = <<>>
  /\ next' = 1
  /\ UNCHANGED <<cache, pool, passes, tokens, reader, drawn, bounce>>

\* The context is freed; there are no workers to stop.
Destroy ==
  /\ main = "idle"
  /\ main' = "destroyed"
  /\ UNCHANGED <<cache, pool, op, misses, crew>>

-----------------------------------------------------------------------------
(* The readers.                                                            *)

More == next <= Len(misses)

\* Fault: each reader has an index of its own.
DrawByValue(r) ==
  /\ At(r, "ready")
  /\ drawn[r] < Len(misses)
  /\ drawn' = [drawn EXCEPT ![r] = drawn[r] + 1]
  /\ reader' = [reader EXCEPT ![r] = "read"]
  /\ UNCHANGED <<cache, pool, main, op, misses, next, bounce>>

\* next.fetch_add(1) finds a miss ...
Draw(r) ==
  /\ At(r, "ready")
  /\ More
  /\ drawn' = [drawn EXCEPT ![r] = next]
  /\ next' = next + 1
  /\ reader' = [reader EXCEPT ![r] = "read"]
  /\ UNCHANGED <<cache, pool, main, op, misses, bounce>>

\* ... or the reader ends.
Quit(r) ==
  /\ At(r, "ready")
  /\ ~More
  /\ next' = next + 1
  /\ reader' = [reader EXCEPT ![r] = "none"]
  /\ drawn' = [drawn EXCEPT ![r] = 0]
  /\ UNCHANGED <<cache, pool, main, op, misses, bounce>>

\* Fault: the readers share one slice.
SharedSlice(r) == 1

\* The bounce slice of a reader.
Slice(r) == r

\* The extent of the drawn miss is read into the bounce slice.
Read(r) ==
  /\ At(r, "read")
  /\ bounce' = [bounce EXCEPT ![Slice(r)] = misses[drawn[r]].key]
  /\ reader' = [reader EXCEPT ![r] = "scatter"]
  /\ UNCHANGED <<cache, pool, main, op, misses, next, drawn>>

\* "pack read failed": the process aborts.
ReadFails(r) ==
  /\ ReadsMayFail
  /\ At(r, "read")
  /\ main' = "read_abort"
  /\ UNCHANGED <<cache, pool, op, misses, crew>>

\* The parts of the extent are copied to the slot.
Scatter(r) ==
  /\ At(r, "scatter")
  /\ pool' = [pool EXCEPT ![misses[drawn[r]].slot] = bounce[Slice(r)]]
  /\ reader' = [reader EXCEPT ![r] = "ready"]
  /\ UNCHANGED <<cache, main, op, misses, next, drawn, bounce>>

-----------------------------------------------------------------------------
\* The process is gone, or the model is: nothing happens any more.
Finished == (Aborted \/ main = "destroyed") /\ UNCHANGED vars

GraphStep ==
  \/ BeginPass \/ BeginOp \/ ResolveHit \/ ResolveMiss \/ ResolveAbort \/ ResolveDone
  \/ Joined \/ EndMatmul \/ Destroy

ReaderStep(r) == Draw(r) \/ Quit(r) \/ Read(r) \/ Scatter(r)

Next ==
  \/ GraphStep
  \/ \E r \in Readers : ReaderStep(r) \/ ReadFails(r)
  \/ Finished

Spec == Init /\ [][Next]_vars

-----------------------------------------------------------------------------
(* Properties.                                                             *)

\* Every variable has its type.
TypeOK ==
  /\ slot_key \in [Slots -> Keys \cup {NoKey}]
  /\ where \in [Keys -> Slots \cup {NoSlot}]
  /\ slot_flight = {} /\ slot_spec = {}
  /\ slot_used \in [Slots -> Nat]
  /\ pinned \subseteq Slots
  /\ pool \in [Slots -> Keys \cup {NoKey}]
  /\ main \in {"idle", "graph", "resolve", "fetch", "matmul", "destroyed",
               "cache_abort", "read_abort"}
  /\ passes \in Nat
  /\ tokens \in Nat
  /\ layer \in Layers
  /\ ids \in Seq(Experts)
  /\ out \in Seq(Slots)
  /\ misses \in Seq(Misses)
  /\ next \in Nat \ {0}
  /\ reader \in [Readers -> {"none", "ready", "read", "scatter"}]
  /\ drawn \in [Readers -> Nat]
  /\ bounce \in [Readers -> Keys \cup {NoKey}]

\* While the mul_mat_ids of a layer read the pool, every slot the op emitted
\* holds the bytes of the expert that was routed, and no reader is left that
\* could write it.
MatmulReadsItsExperts ==
  main = "matmul" =>
    /\ Len(out) = Len(ids)
    /\ \A i \in 1 .. Len(out) : pool[out[i]] = <<layer, ids[i]>>
    /\ \A r \in Readers : reader[r] = "none"

Fetching(r) == reader[r] \in {"read", "scatter"}

\* Miss m is still to be drawn, or a reader has it.
Pending(m) ==
  /\ main \in {"resolve", "fetch"}
  /\ \/ main = "resolve" \/ m >= next
     \/ \E r \in Readers : Fetching(r) /\ drawn[r] = m

LoadedOrPending ==
  \A s \in Slots :
    slot_key[s] # NoKey /\ ~Aborted =>
      \/ pool[s] = slot_key[s]
      \/ \E m \in 1 .. Len(misses) : Pending(m) /\ misses[m] = [key |-> slot_key[s], slot |-> s]

\* The cache claims an expert from the moment its id is resolved; the bytes are
\* there unless the expert is a miss of this very op that is still to be fetched.
\* And until its mul_mat_ids are done the op keeps what it has claimed: nothing it
\* hit is evicted by a later miss of the op.
ClaimedIsLoadedOrPending ==
  /\ LoadedOrPending
  /\ main \in {"resolve", "fetch", "matmul"} =>
       \A i \in 1 .. Len(out) : slot_key[out[i]] = <<layer, ids[i]>>

\* No two readers fetch into one slot, and none into a slot that has its expert
\* already: the atomic index hands out each miss once, the misses have slots of
\* their own, and what they are for was not in them.
ReadersApart ==
  /\ \A q, r \in Readers :
       (q # r /\ Fetching(q) /\ Fetching(r)) => misses[drawn[q]].slot # misses[drawn[r]].slot
  /\ \A r \in Readers : Fetching(r) => pool[misses[drawn[r]].slot] # misses[drawn[r]].key

Distinct == {ids[i] : i \in 1 .. Len(ids)}

\* The claim of the slot budget, "floored at n_expert slots so any single
\* mul_mat_id fits in its group's pool", in its exact form: on this path an op
\* finds its victims unless it routes to more experts than its group has slots,
\* for nothing but its own experts is pinned.
OpAlwaysFits == main = "cache_abort" => NSlots[GroupOf[layer]] < Cardinality(Distinct)
=============================================================================
