----------------------------- MODULE FetchPool -----------------------------
(***************************************************************************)
(* The expert cache of the paged runtime with lookahead on                 *)
(* (runtime/patches/0004): the graph thread resolves the routed experts of *)
(* one MoE layer at a time to slots of a pool, queues the misses and some  *)
(* speculative prefetches, and waits until every expert of its own op is   *)
(* resident; Qd worker threads take jobs off the two queues, read the      *)
(* expert's extent into their slice of the bounce buffer and scatter it    *)
(* into the pool with the mutex released.                                  *)
(*                                                                         *)
(* The mutex is implicit: the graph thread holds it while main is one of   *)
(* Locked, and every worker step that needs it is one action, disabled     *)
(* meanwhile.  The two condition variables are not: a thread that finds    *)
(* its predicate false sleeps until somebody notifies it.                  *)
(***************************************************************************)
EXTENDS SlotCache

CONSTANTS
  Qd,              \* fetch workers (NVMOE_QD)
  NUsed,           \* routed experts per token (n_expert_used)
  LkTop,           \* predicted experts per token (lk_top)
  LkDepth,         \* prefetch horizon in layers (lk_depth)
  SpecLayers,      \* layers whose extents are small enough to speculate on
  LookaheadTokens, \* largest ubatch that predicts: 4 in the code
  TokenCounts,     \* ubatch sizes a pass may have
  ReadsMayFail,    \* whether a pread of the pack may fail
  MaxPasses,       \* bound on the graph evaluations of a run
  NoJob

Workers == 1 .. Qd
Jobs    == [key : Keys, slot : Slots]

ASSUME SizeAssumption ==
  /\ Qd \in Nat \ {0}
  /\ NUsed \in Nat \ {0}
  /\ LkTop \in Nat
  /\ LkDepth \in Nat
  /\ LookaheadTokens \in Nat
  /\ TokenCounts \subseteq Nat \ {0}
  /\ MaxPasses \in Nat
  /\ ReadsMayFail \in BOOLEAN
  /\ SpecLayers \subseteq Layers

ASSUME JobAssumption == NoJob \notin Jobs

VARIABLES
  q_mand, q_spec,
  n_spec_active, \* workers on speculative jobs
  stop_workers,
  n_spec, n_spec_used, n_spec_waste,
  worker,        \* worker -> where it is in its loop
  job,           \* worker -> job it runs
  job_spec,      \* workers whose job was taken off q_spec
  bounce,        \* worker -> key whose extent its bounce slice holds
  main,          \* where the graph thread is
  passes, tokens, layer, ids,
  out,           \* slots emitted so far by the op, one per id
  wait_slots,    \* slots the op waits for
  horizon,       \* horizons predicted so far by the op
  todo           \* predicted ids of that horizon still to be prefetched

queues == <<q_mand, q_spec>>
stats == <<n_spec, n_spec_used, n_spec_waste>>
crew == <<worker, job, job_spec, bounce, n_spec_active>>
op == <<passes, tokens, layer, ids, out, wait_slots, horizon, todo>>
vars == <<cache, pool, queues, stop_workers, stats, crew, main, op>>

Locked == {"resolve", "predict", "promote"}

MutexFree == main \notin Locked

Aborted == main \in {"cache_abort", "read_abort"}

\* Worker w is at l, in a process that has not aborted.
At(w, l) == worker[w] = l /\ ~Aborted

-----------------------------------------------------------------------------
(* Queues and statistics.                                                  *)

\* Fault: an evicted prefetch is not counted.
WasteIgnored(s) == n_spec_waste

\* n_spec_waste after slot s is evicted.
Waste(s) == n_spec_waste + (IF s \in slot_spec THEN 1 ELSE 0)

\* Fault: the promoted job is not erased from its queue.
KeepJob(q, i) == q

\* Removal of the element at index i of a queue.
RemoveJob(q, i) == [j \in 1 .. Len(q) - 1 |-> IF j < i THEN q[j] ELSE q[j + 1]]

Asleep == {w \in Workers : worker[w] = "asleep"}

NotifyWorkers == [w \in Workers |-> IF w \in Asleep THEN "ready" ELSE worker[w]]

Init ==
  /\ CacheInit
  /\ q_mand = <<>>
  /\ q_spec = <<>>
  /\ n_spec_active = 0
  /\ stop_workers = FALSE
  /\ n_spec = 0 /\ n_spec_used = 0 /\ n_spec_waste = 0
  /\ worker = [w \in Workers |-> "ready"]
  /\ job = [w \in Workers |-> NoJob]
  /\ job_spec = {}
  /\ bounce = [w \in Workers |-> NoKey]
  /\ main = "idle"
  /\ passes = 0
  /\ tokens = 0
  /\ layer = 1
  /\ ids = <<>> /\ out = <<>> /\ wait_slots = {}
  /\ horizon = 0 /\ todo = <<>>

-----------------------------------------------------------------------------
(* The graph thread.                                                       *)

\* A graph evaluation starts, on a ubatch of t tokens.
BeginPass ==
  /\ main = "idle"
  /\ passes < MaxPasses
  /\ passes' = passes + 1
  /\ \E t \in TokenCounts : tokens' = t
  /\ layer' = 1
  /\ main' = "graph"
  /\ UNCHANGED <<cache, pool, queues, stop_workers, stats, crew,
                 ids, out, wait_slots, horizon, todo>>

\* The custom op of a layer runs: epoch++, and the mutex is taken.
BeginOp ==
  /\ main = "graph"
  /\ \E f \in TopK(tokens, NUsed) : ids' = f
  /\ pinned' = {}
  /\ main' = "resolve"
  /\ UNCHANGED <<slot_key, where, slot_flight, slot_spec, slot_used, pool, queues,
                 stop_workers, stats, crew, passes, tokens, layer,
                 out, wait_slots, horizon, todo>>

\* The key of the next id to resolve.
Wanted == <<layer, ids[Len(out) + 1]>>

Resolving == main = "resolve" /\ Len(out) < Len(ids)

Emit(s) ==
  /\ slot_used' = Touch(s)
  /\ pinned' = pinned \cup {s}
  /\ out' = Append(out, s)

\* The id is assigned a slot already; its prefetch may still be in the air.
ResolveHit ==
  LET s == where[Wanted] IN
  /\ Resolving
  /\ s # NoSlot
  /\ slot_spec' = slot_spec \ {s}
  /\ n_spec_used' = n_spec_used + (IF s \in slot_spec THEN 1 ELSE 0)
  /\ wait_slots' = IF s \in slot_flight THEN wait_slots \cup {s} ELSE wait_slots
  /\ Emit(s)
  /\ UNCHANGED <<slot_key, where, slot_flight, pool, queues, stop_workers, n_spec,
                 n_spec_waste, crew, main, passes, tokens, layer, ids, horizon, todo>>

\* The id is not cached: it takes a victim's slot and a mandatory job is queued.
ResolveMiss ==
  /\ Resolving
  /\ where[Wanted] = NoSlot
  /\ \E s \in Slots :
       /\ IsVictim(GroupOf[layer], s)
       /\ slot_key' = [slot_key EXCEPT ![s] = Wanted]
       /\ where' = Remap(s, Wanted)
       /\ slot_spec' = slot_spec \ {s}
       /\ n_spec_waste' = Waste(s)
       /\ slot_flight' = slot_flight \cup {s}
       /\ q_mand' = Append(q_mand, [key |-> Wanted, slot |-> s])
       /\ wait_slots' = wait_slots \cup {s}
       /\ Emit(s)
  /\ UNCHANGED <<pool, q_spec, stop_workers, n_spec, n_spec_used, crew, main,
                 passes, tokens, layer, ids, horizon, todo>>

\* "expert cache too small for a single op": the process aborts.
ResolveAbort ==
  /\ Resolving
  /\ where[Wanted] = NoSlot
  /\ NoVictim(GroupOf[layer])
  /\ main' = "cache_abort"
  /\ UNCHANGED <<cache, pool, queues, stop_workers, stats, crew, op>>

\* Only decode-sized ops predict.
ResolveDone ==
  /\ main = "resolve"
  /\ Len(out) = Len(ids)
  /\ main' = IF tokens <= LookaheadTokens THEN "predict" ELSE "promote"
  /\ UNCHANGED <<cache, pool, queues, stop_workers, stats, crew, op>>

\* The logits of the next horizon are ranked; a horizon past the last layer,
\* or one whose extents are too large, prefetches nothing.
Predict ==
  /\ main = "predict"
  /\ todo = <<>>
  /\ horizon < LkDepth
  /\ horizon' = horizon + 1
  /\ IF layer + horizon + 1 \in SpecLayers
     THEN \E p \in TopK(tokens, LkTop) : todo' = p
     ELSE todo' = <<>>
  /\ UNCHANGED <<cache, pool, queues, stop_workers, stats, crew, main,
                 passes, tokens, layer, ids, out, wait_slots>>

Predicted == <<layer + horizon, Head(todo)>>

\* A predicted expert is resident, or in flight.
PrefetchResident ==
  /\ main = "predict"
  /\ todo # <<>>
  /\ where[Predicted] # NoSlot
  /\ todo' = Tail(todo)
  /\ UNCHANGED <<cache, pool, queues, stop_workers, stats, crew, main,
                 passes, tokens, layer, ids, out, wait_slots, horizon>>

\* A predicted expert takes a victim's slot and a speculative job is queued.
PrefetchMiss ==
  /\ main = "predict"
  /\ todo # <<>>
  /\ where[Predicted] = NoSlot
  /\ \E s \in Slots :
       /\ IsVictim(GroupOf[layer + horizon], s)
       /\ slot_key' = [slot_key EXCEPT ![s] = Predicted]
       /\ where' = Remap(s, Predicted)
       /\ slot_spec' = slot_spec \cup {s}
       /\ n_spec_waste' = Waste(s)
       /\ n_spec' = n_spec + 1
       /\ slot_flight' = slot_flight \cup {s}
       /\ slot_used' = Touch(s)
       /\ q_spec' = Append(q_spec, [key |-> Predicted, slot |-> s])
  /\ todo' = Tail(todo)
  /\ UNCHANGED <<pinned, pool, q_mand, stop_workers, n_spec_used, crew, main,
                 passes, tokens, layer, ids, out, wait_slots, horizon>>

\* Nothing is evictable: speculation yields.
PrefetchYield ==
  /\ main = "predict"
  /\ todo # <<>>
  /\ where[Predicted] = NoSlot
  /\ NoVictim(GroupOf[layer + horizon])
  /\ todo' = <<>>
  /\ UNCHANGED <<cache, pool, queues, stop_workers, stats, crew, main,
                 passes, tokens, layer, ids, out, wait_slots, horizon>>

PredictDone ==
  /\ main = "predict"
  /\ todo = <<>>
  /\ horizon = LkDepth
  /\ main' = "promote"
  /\ UNCHANGED <<cache, pool, queues, stop_workers, stats, crew, op>>

\* Fault: no queued prefetch is promoted.
NeverPromotable(i) == FALSE

\* The queued speculative job at index i is for a slot this op waits for.
Promotable(i) == q_spec[i].key[1] = layer /\ q_spec[i].slot \in wait_slots

\* One turn of the promotion loop: the first such job becomes mandatory.
Promote ==
  /\ main = "promote"
  /\ \E i \in 1 .. Len(q_spec) :
       /\ Promotable(i)
       /\ \A j \in 1 .. i - 1 : ~Promotable(j)
       /\ q_mand' = Append(q_mand, q_spec[i])
       /\ q_spec' = RemoveJob(q_spec, i)
  /\ UNCHANGED <<cache, pool, stop_workers, stats, crew, main, op>>

WorkQueued == q_mand # <<>> \/ q_spec # <<>>

\* Fault: the op returns once one of its experts has landed.
LandedOne == wait_slots = {} \/ \E s \in wait_slots : s \notin slot_flight

Landed == wait_slots \cap slot_flight = {}

\* The workers are notified, and the op returns or waits on cv_done, which
\* releases the mutex.
EndOp ==
  /\ main = "promote"
  /\ \A i \in 1 .. Len(q_spec) : ~Promotable(i)
  /\ worker' = IF WorkQueued THEN NotifyWorkers ELSE worker
  /\ main' = IF Landed THEN "matmul" ELSE "asleep"
  /\ UNCHANGED <<cache, pool, queues, stop_workers, stats, job, job_spec, bounce,
                 n_spec_active, op>>

\* A notified graph thread evaluates the predicate of cv_done again.
RecheckWait ==
  /\ main = "woken"
  /\ main' = IF Landed THEN "matmul" ELSE "asleep"
  /\ UNCHANGED <<cache, pool, queues, stop_workers, stats, crew, op>>

\* The layer's mul_mat_ids have read the op's slots.
EndMatmul ==
  /\ main = "matmul"
  /\ main' = IF layer = NLayers THEN "idle" ELSE "graph"
  /\ layer' = IF layer = NLayers THEN layer ELSE layer + 1
  /\ ids' = <<>>
  /\ out' = <<>>
  /\ wait_slots' = {}
  /\ horizon' = 0
  /\ UNCHANGED <<cache, pool, queues, stop_workers, stats, crew, passes, tokens, todo>>

\* Fault: the destructor does not notify cv_work.
DestroySilently ==
  /\ main = "idle"
  /\ stop_workers' = TRUE
  /\ main' = "joining"
  /\ UNCHANGED <<cache, pool, queues, stats, crew, op>>

\* The destructor asks the workers to stop ...
Destroy ==
  /\ main = "idle"
  /\ stop_workers' = TRUE
  /\ worker' = NotifyWorkers
  /\ main' = "joining"
  /\ UNCHANGED <<cache, pool, queues, stats, job, job_spec, bounce, n_spec_active, op>>

\* ... joins them, and counts the prefetches nobody referenced as wasted.
Joined ==
  /\ main = "joining"
  /\ \A w \in Workers : worker[w] = "exited"
  /\ n_spec_waste' = n_spec_waste + Cardinality(slot_spec)
  /\ main' = "destroyed"
  /\ UNCHANGED <<cache, pool, queues, stop_workers, n_spec, n_spec_used, crew, op>>

-----------------------------------------------------------------------------
(* The workers.                                                            *)

\* Fault: speculation may occupy every worker.
CanSpecAll == q_spec # <<>> /\ n_spec_active < Qd

\* Fault: speculation is kept off two workers.
CanSpecLess == q_spec # <<>> /\ n_spec_active + 1 < Qd - 1

\* A speculative job may not occupy the last worker.
CanSpec == q_spec # <<>> /\ n_spec_active < Qd - 1

TakeMandatory(w) ==
  /\ At(w, "ready")
  /\ MutexFree
  /\ ~stop_workers
  /\ q_mand # <<>>
  /\ job' = [job EXCEPT ![w] = Head(q_mand)]
  /\ q_mand' = Tail(q_mand)
  /\ worker' = [worker EXCEPT ![w] = "read"]
  /\ UNCHANGED <<cache, pool, q_spec, stop_workers, stats, job_spec, bounce,
                 n_spec_active, main, op>>

TakeSpeculative(w) ==
  /\ At(w, "ready")
  /\ MutexFree
  /\ ~stop_workers
  /\ q_mand = <<>>
  /\ CanSpec
  /\ job' = [job EXCEPT ![w] = Head(q_spec)]
  /\ q_spec' = Tail(q_spec)
  /\ job_spec' = job_spec \cup {w}
  /\ n_spec_active' = n_spec_active + 1
  /\ worker' = [worker EXCEPT ![w] = "read"]
  /\ UNCHANGED <<cache, pool, q_mand, stop_workers, stats, bounce, main, op>>

\* cv_work.wait finds nothing to do.
Sleep(w) ==
  /\ At(w, "ready")
  /\ MutexFree
  /\ ~stop_workers
  /\ q_mand = <<>>
  /\ ~CanSpec
  /\ worker' = [worker EXCEPT ![w] = "asleep"]
  /\ UNCHANGED <<cache, pool, queues, stop_workers, stats, job, job_spec, bounce,
                 n_spec_active, main, op>>

Exit(w) ==
  /\ At(w, "ready")
  /\ MutexFree
  /\ stop_workers
  /\ worker' = [worker EXCEPT ![w] = "exited"]
  /\ UNCHANGED <<cache, pool, queues, stop_workers, stats, job, job_spec, bounce,
                 n_spec_active, main, op>>

\* Fault: the readers share one slice.
SharedSlice(w) == 1

\* The bounce slice of a reader.
Slice(w) == w

\* Fault: the slot's flag is cleared once the extent is read.
ReadClearsFlight(w) ==
  /\ At(w, "read")
  /\ bounce' = [bounce EXCEPT ![Slice(w)] = job[w].key]
  /\ worker' = [worker EXCEPT ![w] = "scatter"]
  /\ slot_flight' = slot_flight \ {job[w].slot}
  /\ UNCHANGED <<slot_key, where, slot_spec, slot_used, pinned, pool, queues,
                 stop_workers, stats, job, job_spec, n_spec_active, main, op>>

\* The extent of the job's expert is read into the bounce slice.
Read(w) ==
  /\ At(w, "read")
  /\ bounce' = [bounce EXCEPT ![Slice(w)] = job[w].key]
  /\ worker' = [worker EXCEPT ![w] = "scatter"]
  /\ UNCHANGED <<cache, pool, queues, stop_workers, stats, job, job_spec,
                 n_spec_active, main, op>>

\* "pack read failed": the process aborts.
ReadFails(w) ==
  /\ ReadsMayFail
  /\ At(w, "read")
  /\ main' = "read_abort"
  /\ UNCHANGED <<cache, pool, queues, stop_workers, stats, crew, op>>

\* The parts of the extent are copied to the slot.
Scatter(w) ==
  /\ At(w, "scatter")
  /\ pool' = [pool EXCEPT ![job[w].slot] = bounce[Slice(w)]]
  /\ worker' = [worker EXCEPT ![w] = "land"]
  /\ UNCHANGED <<cache, queues, stop_workers, stats, job, job_spec, bounce,
                 n_spec_active, main, op>>

\* Fault: cv_done is not notified.
WakeNobody == main

\* cv_done.notify_all().
WakeGraph == IF main = "asleep" THEN "woken" ELSE main

\* The slot's flag is cleared and everybody is notified.
Land(w) ==
  /\ At(w, "land")
  /\ MutexFree
  /\ n_spec_active' = IF w \in job_spec THEN n_spec_active - 1 ELSE n_spec_active
  /\ job_spec' = job_spec \ {w}
  /\ slot_flight' = slot_flight \ {job[w].slot}
  /\ job' = [job EXCEPT ![w] = NoJob]
  /\ worker' = [NotifyWorkers EXCEPT ![w] = "ready"]
  /\ main' = WakeGraph
  /\ UNCHANGED <<slot_key, where, slot_spec, slot_used, pinned, pool, queues,
                 stop_workers, stats, bounce, op>>

-----------------------------------------------------------------------------
\* The process is gone, or the model is: nothing happens any more.
Finished == (Aborted \/ main = "destroyed") /\ UNCHANGED vars

\* The steps of the graph thread inside an op, and those of the destructor.
GraphStep ==
  \/ BeginOp
  \/ ResolveHit \/ ResolveMiss \/ ResolveAbort \/ ResolveDone
  \/ Predict \/ PrefetchResident \/ PrefetchMiss \/ PrefetchYield \/ PredictDone
  \/ Promote \/ EndOp \/ RecheckWait \/ EndMatmul
  \/ Joined

WorkerStep(w) ==
  \/ TakeMandatory(w) \/ TakeSpeculative(w) \/ Sleep(w) \/ Exit(w)
  \/ Read(w) \/ Scatter(w) \/ Land(w)

Next ==
  \/ BeginPass \/ Destroy \/ GraphStep
  \/ \E w \in Workers : WorkerStep(w) \/ ReadFails(w)
  \/ Finished

Spec == Init /\ [][Next]_vars

\* The graph runs to its end once it is started, no worker is stopped for ever
\* by the scheduler, and every read of the pack ends.
Fairness ==
  /\ WF_vars(GraphStep)
  /\ \A w \in Workers : WF_vars(WorkerStep(w))

FairSpec == Spec /\ Fairness

-----------------------------------------------------------------------------
(* Properties.                                                             *)

\* Every variable has its type: slots and keys are of the pool's geometry, and
\* queued jobs name a slot and a key.
TypeOK ==
  /\ slot_key \in [Slots -> Keys \cup {NoKey}]
  /\ where \in [Keys -> Slots \cup {NoSlot}]
  /\ slot_flight \subseteq Slots
  /\ slot_spec \subseteq Slots
  /\ slot_used \in [Slots -> Nat]
  /\ pinned \subseteq Slots
  /\ pool \in [Slots -> Keys \cup {NoKey}]
  /\ q_mand \in Seq(Jobs)
  /\ q_spec \in Seq(Jobs)
  /\ n_spec_active \in Int
  /\ stop_workers \in BOOLEAN
  /\ n_spec \in Nat /\ n_spec_used \in Nat /\ n_spec_waste \in Nat
  /\ worker \in [Workers -> {"ready", "asleep", "read", "scatter", "land", "exited"}]
  /\ job \in [Workers -> Jobs \cup {NoJob}]
  /\ job_spec \subseteq Workers
  /\ bounce \in [Workers -> Keys \cup {NoKey}]
  /\ main \in {"idle", "graph", "resolve", "predict", "promote", "asleep", "woken",
               "matmul", "joining", "destroyed", "cache_abort", "read_abort"}
  /\ passes \in Nat
  /\ tokens \in Nat
  /\ layer \in Layers
  /\ ids \in Seq(Experts)
  /\ out \in Seq(Slots)
  /\ wait_slots \subseteq Slots
  /\ horizon \in Nat
  /\ todo \in Seq(Experts)

\* Workers between the start of a fetch and the end of its copy into the pool.
Writing(s) == \E w \in Workers : worker[w] \in {"read", "scatter"} /\ job[w].slot = s

\* While the mul_mat_ids of a layer read the pool, every slot the op emitted
\* holds the bytes of the expert that was routed, and no worker is about to
\* overwrite them, whatever prefetches land meanwhile.
MatmulReadsItsExperts ==
  main = "matmul" =>
    /\ Len(out) = Len(ids)
    /\ \A i \in 1 .. Len(out) : pool[out[i]] = <<layer, ids[i]>> /\ ~Writing(out[i])

\* A slot that is assigned and not in flight holds the bytes of its key: a
\* later hit on it, which waits for nothing, is right to trust it.
ResidentMeansLoaded ==
  \A s \in Slots : (slot_key[s] # NoKey /\ s \notin slot_flight) => pool[s] = slot_key[s]

\* The places that own a fetch of slot s: queue positions and busy workers.
Owners(s) ==
  ({"mand"} \X {i \in 1 .. Len(q_mand) : q_mand[i].slot = s})
  \cup ({"spec"} \X {i \in 1 .. Len(q_spec) : q_spec[i].slot = s})
  \cup ({"worker"} \X {w \in Workers : job[w] # NoJob /\ job[w].slot = s})

\* A slot is in flight exactly while one job for it exists: no two readers
\* ever write one slot, no flag is left set with nobody to clear it.
OneOwner ==
  \A s \in Slots : Cardinality(Owners(s)) = (IF s \in slot_flight THEN 1 ELSE 0)

\* "one stays free so a mandatory miss never waits behind a full pipe of
\* speculation": the counter the workers go by counts those on speculative
\* jobs, and there are fewer of them than workers.
WorkerKeptFree ==
  /\ n_spec_active = Cardinality(job_spec)
  /\ n_spec_active <= Qd - 1

\* Every prefetch issued is reported used, or wasted, or is still unreferenced
\* in the cache; after the destructor it is one of the first two.
PrefetchesAccounted ==
  n_spec = n_spec_used + n_spec_waste
             + (IF main = "destroyed" THEN 0 ELSE Cardinality(slot_spec))

\* The op never waits on a fetch that is queued behind speculation: each slot
\* it waits for is a mandatory job or has a worker.
WaitsOnNoSpeculation ==
  main \in {"asleep", "woken"} =>
    \A i \in 1 .. Len(q_spec) : q_spec[i].slot \notin wait_slots

\* "cache too small for a single op" is raised only if the experts of the op
\* and the prefetches in flight together exceed the slots of the group.
AbortOnlyUnderSpeculation ==
  main = "cache_abort" =>
    LET g == GroupOf[layer]
    IN NSlots[g] < Cardinality({ids[i] : i \in 1 .. Len(ids)})
                     + Cardinality({s \in SlotsOf(g) : s \in slot_flight /\ s \notin pinned})

\* The bytes of a slot change only while the slot is in flight, and never while
\* a layer that emitted it computes.
OnlyFlightsWrite ==
  [][\A s \in Slots : pool'[s] # pool[s] =>
       /\ s \in slot_flight
       /\ ~(main = "matmul" /\ \E i \in 1 .. Len(out) : out[i] = s)]_vars

\* An op that waits for its experts returns.
OpReturns == (main = "asleep") ~> (main = "matmul" \/ Aborted)

\* "The speculative fetches then land during the layers' matmuls": a prefetch
\* that was issued lands, unless the runtime is being destroyed.
PrefetchLands ==
  \A s \in Slots : (s \in slot_flight) ~> (s \notin slot_flight \/ stop_workers \/ Aborted)

\* The destructor joins its workers, whatever they were doing.
DestructorReturns == stop_workers ~> (main = "destroyed" \/ Aborted)

\* The claim of the slot budget: with a slot for every expert of a layer, an op
\* always fits.  Prefetches of its own layer leave it room, for they are among as
\* many experts; prefetches of another layer of its group do not.
OpAlwaysFits == main # "cache_abort"
=============================================================================
