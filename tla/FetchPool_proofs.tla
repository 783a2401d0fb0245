--------------------------- MODULE FetchPool_proofs ---------------------------
(***************************************************************************)
(* Proofs about the fetch pool, for every value of its constants: types,   *)
(* the pool invariant and what the layers read, that the pool              *)
(* implements the store of experts; and what speculation may not do.       *)
(***************************************************************************)
EXTENDS FetchPoolStore, SlotCache_proofs

\* Removing a job from a queue leaves a queue, of the other jobs in order.
LEMMA RemoveJobProperties ==
  ASSUME NEW q \in Seq(Jobs), NEW i \in 1 .. Len(q)
  PROVE  /\ RemoveJob(q, i) \in Seq(Jobs)
         /\ Len(RemoveJob(q, i)) = Len(q) - 1
         /\ \A j \in 1 .. Len(q) - 1 :
              RemoveJob(q, i)[j] = IF j < i THEN q[j] ELSE q[j + 1]
  BY DEF RemoveJob

-----------------------------------------------------------------------------
(* Types.                                                                  *)

\* Only sleeping workers are changed by a notification, to ready ones.
LEMMA NotifyType ==
  ASSUME TypeOK
  PROVE  NotifyWorkers \in
           [Workers -> {"ready", "asleep", "read", "scatter", "land", "exited"}]
  BY DEF NotifyWorkers, TypeOK, Asleep

\* The key an op resolves next is a key.
LEMMA WantedType ==
  ASSUME TypeOK, Resolving
  PROVE  Wanted \in Keys
<1>1. Len(out) + 1 \in 1 .. Len(ids)
  BY DEF TypeOK, Resolving
<1>2. QED
  BY <1>1 DEF Wanted, TypeOK, Keys

\* Predicted ids are pending only while the op predicts (or a worker's abort cut
\* it short), and for a layer that exists: without this the keys of prefetches
\* would not be keys.
AheadInRange ==
  todo # <<>> => main \in {"predict", "read_abort"} /\ layer + horizon \in Layers

\* A worker has a job exactly while it reads, scatters or lands it.
BusyHasJob ==
  \A w \in Workers : worker[w] \in {"read", "scatter", "land"} <=> job[w] # NoJob

TypeInv == TypeOK /\ AheadInRange /\ BusyHasJob

\* A notification makes no worker busy, and none idle.
LEMMA NotifyBusy ==
  ASSUME TypeOK, BusyHasJob, worker' = NotifyWorkers, job' = job
  PROVE  BusyHasJob'
  BY DEF BusyHasJob, NotifyWorkers, Asleep

LEMMA InitType == Init => TypeInv
<1>1. SUFFICES ASSUME Init PROVE TypeInv
  OBVIOUS
<1>2. TypeOK
  <2>1. /\ ids \in Seq(Experts) /\ out \in Seq(Slots) /\ todo \in Seq(Experts)
        /\ q_mand \in Seq(Jobs) /\ q_spec \in Seq(Jobs)
    BY <1>1, EmptySeq DEF Init, CacheInit
  <2>2. layer \in Layers
    BY <1>1, SizeAssumption, GeometryAssumption DEF Init, CacheInit, Layers
  <2>3. /\ slot_key \in [Slots -> Keys \cup {NoKey}]
        /\ where \in [Keys -> Slots \cup {NoSlot}]
        /\ slot_used \in [Slots -> Nat]
        /\ pool \in [Slots -> Keys \cup {NoKey}]
        /\ job \in [Workers -> Jobs \cup {NoJob}]
        /\ bounce \in [Workers -> Keys \cup {NoKey}]
        /\ worker \in [Workers -> {"ready", "asleep", "read", "scatter", "land", "exited"}]
    BY <1>1 DEF Init, CacheInit
  <2>4. stop_workers \in BOOLEAN
    BY <1>1 DEF Init, CacheInit
  <2>5. /\ slot_flight = {} /\ slot_spec = {} /\ pinned = {} /\ job_spec = {}
        /\ wait_slots = {} /\ main = "idle"
        /\ n_spec = 0 /\ n_spec_used = 0 /\ n_spec_waste = 0 /\ n_spec_active = 0
        /\ passes = 0 /\ tokens = 0 /\ horizon = 0
    BY <1>1 DEF Init, CacheInit
  <2>6. QED
    BY <2>1, <2>2, <2>3, <2>4, <2>5 DEF TypeOK
<1>3. AheadInRange
  BY <1>1 DEF Init, CacheInit, AheadInRange
<1>4. BusyHasJob
  BY <1>1 DEF Init, CacheInit, BusyHasJob
<1>5. QED
  BY <1>2, <1>3, <1>4 DEF TypeInv

\* The steps of the graph thread from the start of a pass to the end of the
\* resolution of an op preserve the types.
LEMMA ResolveTypes ==
  ASSUME TypeInv,
         BeginPass \/ BeginOp \/ ResolveHit \/ ResolveMiss \/ ResolveAbort \/ ResolveDone
  PROVE  TypeInv'
<1> USE DEF TypeInv, AheadInRange, BusyHasJob
<1>1. CASE BeginPass
  BY <1>1, SizeAssumption, GeometryAssumption
     DEF BeginPass, TypeOK, Layers, cache, queues, stats, crew
<1>2. CASE BeginOp
  <2>1. ids' \in Seq(Experts)
    BY <1>2, TopKType, SizeAssumption, GeometryAssumption DEF BeginOp, TypeOK
  <2>2. QED
    BY <1>2, <2>1 DEF BeginOp, TypeOK, queues, stats, crew
<1>3. CASE ResolveHit
  <2>1. Wanted \in Keys
    BY <1>3, WantedType DEF ResolveHit
  <2>2. where[Wanted] \in Slots
    BY <1>3, <2>1 DEF ResolveHit, TypeOK
  <2>3. slot_used' \in [Slots -> Nat]
    BY <1>3, <2>2, TouchType DEF ResolveHit, Emit, TypeOK
  <2>4. pinned' \subseteq Slots /\ out' \in Seq(Slots)
    BY <1>3, <2>2 DEF ResolveHit, Emit, TypeOK
  <2>5. slot_spec' \subseteq Slots /\ wait_slots' \subseteq Slots /\ n_spec_used' \in Nat
    BY <1>3, <2>2 DEF ResolveHit, TypeOK
  <2>6. UNCHANGED <<slot_key, where, slot_flight, pool, q_mand, q_spec, stop_workers,
                    n_spec, n_spec_waste, worker, job, job_spec, bounce, n_spec_active,
                    main, passes, tokens, layer, ids, horizon, todo>>
    BY <1>3 DEF ResolveHit, queues, crew
  <2>7. QED
    BY <2>3, <2>4, <2>5, <2>6 DEF TypeOK
<1>4. CASE ResolveMiss
  <2>1. Wanted \in Keys
    BY <1>4, WantedType DEF ResolveMiss
  <2>2. PICK s \in Slots :
          /\ slot_key' = [slot_key EXCEPT ![s] = Wanted]
          /\ where' = Remap(s, Wanted)
          /\ slot_spec' = slot_spec \ {s}
          /\ n_spec_waste' = Waste(s)
          /\ slot_flight' = slot_flight \cup {s}
          /\ q_mand' = Append(q_mand, [key |-> Wanted, slot |-> s])
          /\ wait_slots' = wait_slots \cup {s}
          /\ slot_used' = Touch(s)
          /\ pinned' = pinned \cup {s}
          /\ out' = Append(out, s)
    BY <1>4 DEF ResolveMiss, Emit
  <2>3. UNCHANGED <<pool, q_spec, stop_workers, n_spec, n_spec_used, crew, main,
                    passes, tokens, layer, ids, horizon, todo>>
    BY <1>4 DEF ResolveMiss
  <2>4. q_mand' \in Seq(Jobs)
    BY <2>1, <2>2 DEF TypeOK, Jobs
  <2>5. n_spec_waste' \in Nat
    BY <2>2 DEF Waste, TypeOK
  <2>6. slot_key' \in [Slots -> Keys \cup {NoKey}]
    BY <2>1, <2>2 DEF TypeOK
  <2>7. slot_used' \in [Slots -> Nat] /\ where' \in [Keys -> Slots \cup {NoSlot}]
    BY <2>1, <2>2, TouchType, RemapType DEF TypeOK
  <2>8. /\ slot_spec' \subseteq Slots /\ slot_flight' \subseteq Slots
        /\ wait_slots' \subseteq Slots /\ pinned' \subseteq Slots
        /\ out' \in Seq(Slots)
    BY <2>2 DEF TypeOK
  <2>9. QED
    BY <2>3, <2>4, <2>5, <2>6, <2>7, <2>8 DEF TypeOK, crew
<1>5. CASE ResolveAbort
  BY <1>5 DEF ResolveAbort, Resolving, TypeOK, cache, queues, stats, crew, op
<1>6. CASE ResolveDone
  BY <1>6 DEF ResolveDone, TypeOK, cache, queues, stats, crew, op
<1>7. QED
  BY <1>1, <1>2, <1>3, <1>4, <1>5, <1>6

\* So do its predictions and prefetches: a prefetch names a key, the layer being
\* one that exists.
LEMMA PredictTypes ==
  ASSUME TypeInv,
         Predict \/ PrefetchResident \/ PrefetchMiss \/ PrefetchYield \/ PredictDone
  PROVE  TypeInv'
<1> USE DEF TypeInv, AheadInRange, BusyHasJob
<1>1. CASE Predict
  <2>1. todo' \in Seq(Experts)
    BY <1>1, TopKType, EmptySeq, SizeAssumption, GeometryAssumption DEF Predict, TypeOK
  <2>2. horizon' \in Nat
    BY <1>1 DEF Predict, TypeOK
  <2>3. todo' # <<>> => layer' + horizon' \in Layers
    BY <1>1, SizeAssumption DEF Predict, TypeOK, Layers
  <2>4. main' = "predict"
    BY <1>1 DEF Predict
  <2>5. TypeOK'
    BY <1>1, <2>1, <2>2 DEF Predict, TypeOK, cache, queues, stats, crew
  <2>6. BusyHasJob'
    BY <1>1 DEF Predict, crew
  <2>7. QED
    BY <2>3, <2>4, <2>5, <2>6
<1>2. CASE PrefetchResident
  <2>1. todo' \in Seq(Experts)
    BY <1>2, HeadTailProperties DEF PrefetchResident, TypeOK
  <2>2. QED
    BY <1>2, <2>1 DEF PrefetchResident, TypeOK, cache, queues, stats, crew
<1>3. CASE PrefetchMiss
  <2>1. todo' \in Seq(Experts) /\ Head(todo) \in Experts
    BY <1>3, HeadTailProperties DEF PrefetchMiss, TypeOK
  <2>2. Predicted \in Keys
    BY <1>3, <2>1 DEF PrefetchMiss, Predicted, Keys
  <2>3. PICK s \in Slots :
          /\ slot_key' = [slot_key EXCEPT ![s] = Predicted]
          /\ where' = Remap(s, Predicted)
          /\ slot_spec' = slot_spec \cup {s}
          /\ n_spec_waste' = Waste(s)
          /\ n_spec' = n_spec + 1
          /\ slot_flight' = slot_flight \cup {s}
          /\ slot_used' = Touch(s)
          /\ q_spec' = Append(q_spec, [key |-> Predicted, slot |-> s])
    BY <1>3 DEF PrefetchMiss
  <2>4. slot_used' \in [Slots -> Nat] /\ where' \in [Keys -> Slots \cup {NoSlot}]
    BY <2>2, <2>3, TouchType, RemapType DEF TypeOK
  <2>5. q_spec' \in Seq(Jobs)
    BY <2>2, <2>3 DEF TypeOK, Jobs
  <2>6. n_spec' \in Nat /\ n_spec_waste' \in Nat
    BY <2>3 DEF Waste, TypeOK
  <2>7. /\ slot_key' \in [Slots -> Keys \cup {NoKey}]
        /\ slot_spec' \subseteq Slots /\ slot_flight' \subseteq Slots
    BY <2>2, <2>3 DEF TypeOK
  <2>8. UNCHANGED <<pinned, pool, q_mand, stop_workers, n_spec_used, crew, main,
                    passes, tokens, layer, ids, out, wait_slots, horizon>>
    BY <1>3 DEF PrefetchMiss
  <2>9. TypeOK'
    BY <2>1, <2>4, <2>5, <2>6, <2>7, <2>8 DEF TypeOK, crew
  <2>10. AheadInRange'
    BY <1>3, <2>8 DEF PrefetchMiss
  <2>11. BusyHasJob'
    BY <2>8 DEF crew
  <2>12. QED
    BY <2>9, <2>10, <2>11
<1>4. CASE PrefetchYield
  BY <1>4, EmptySeq DEF PrefetchYield, TypeOK, cache, queues, stats, crew
<1>5. CASE PredictDone
  BY <1>5 DEF PredictDone, TypeOK, cache, queues, stats, crew, op
<1>6. QED
  BY <1>1, <1>2, <1>3, <1>4, <1>5

\* So do the end of an op, its wait, and the destructor.
LEMMA EndTypes ==
  ASSUME TypeInv,
         Promote \/ EndOp \/ RecheckWait \/ EndMatmul \/ Destroy \/ Joined \/ Finished
  PROVE  TypeInv'
<1> USE DEF TypeInv, AheadInRange, BusyHasJob
<1>1. CASE Promote
  <2>1. PICK i \in 1 .. Len(q_spec) :
          q_mand' = Append(q_mand, q_spec[i]) /\ q_spec' = RemoveJob(q_spec, i)
    BY <1>1 DEF Promote
  <2>2. q_spec' \in Seq(Jobs)
    BY <2>1, RemoveJobProperties DEF TypeOK
  <2>3. q_mand' \in Seq(Jobs)
    BY <2>1, ElementOfSeq, AppendProperties DEF TypeOK
  <2>4. QED
    BY <1>1, <2>2, <2>3 DEF Promote, TypeOK, cache, stats, crew, op
<1>2. CASE EndOp
  <2>1. worker' \in [Workers -> {"ready", "asleep", "read", "scatter", "land", "exited"}]
    BY <1>2, NotifyType DEF EndOp, TypeOK
  <2>2. main' \in {"matmul", "asleep"} /\ todo = <<>>
    BY <1>2 DEF EndOp
  <2>3. BusyHasJob'
    BY <1>2, NotifyBusy DEF EndOp
  <2>4. TypeOK' /\ AheadInRange'
    BY <1>2, <2>1, <2>2 DEF EndOp, TypeOK, cache, queues, stats, op
  <2>5. QED
    BY <2>3, <2>4
<1>3. CASE RecheckWait
  BY <1>3 DEF RecheckWait, TypeOK, cache, queues, stats, crew, op
<1>4. CASE EndMatmul
  <2>1. layer' \in Layers /\ main' \in {"idle", "graph"}
    BY <1>4, SizeAssumption, GeometryAssumption DEF EndMatmul, TypeOK, Layers
  <2>2. ids' = <<>> /\ out' = <<>> /\ wait_slots' = {} /\ horizon' = 0 /\ todo' = <<>>
    BY <1>4 DEF EndMatmul
  <2>3. QED
    BY <1>4, <2>1, <2>2, EmptySeq DEF EndMatmul, TypeOK, cache, queues, stats, crew
<1>5. CASE Destroy
  <2>1. stop_workers' \in BOOLEAN /\ main' = "joining" /\ todo = <<>>
    BY <1>5 DEF Destroy
  <2>2. BusyHasJob'
    BY <1>5, NotifyBusy DEF Destroy
  <2>3. TypeOK' /\ AheadInRange'
    BY <1>5, <2>1, NotifyType DEF Destroy, TypeOK, cache, queues, stats, op
  <2>4. QED
    BY <2>2, <2>3
<1>6. CASE Joined
  <2>1. n_spec_waste' \in Nat
    <3>1. IsFiniteSet(slot_spec)
      BY SlotsFinite, FS_Subset DEF TypeOK
    <3>2. QED
      BY <1>6, <3>1, FS_CardinalityType DEF Joined, TypeOK
  <2>2. QED
    BY <1>6, <2>1 DEF Joined, TypeOK, cache, queues, crew, op
<1>7. CASE Finished
  BY <1>7 DEF Finished, TypeOK, vars, cache, queues, stats, crew, op
<1>8. QED
  BY <1>1, <1>2, <1>3, <1>4, <1>5, <1>6, <1>7

\* So do the steps of the workers.
LEMMA WorkerTypes ==
  ASSUME TypeInv, NEW w \in Workers, WorkerStep(w) \/ ReadFails(w)
  PROVE  TypeInv'
<1> USE DEF TypeInv, AheadInRange, BusyHasJob
<1>1. CASE TakeMandatory(w)
  <2>1. Head(q_mand) \in Jobs /\ q_mand' \in Seq(Jobs)
    BY <1>1, HeadTailProperties DEF TakeMandatory, TypeOK
  <2>2. QED
    BY <1>1, <2>1, NullAssumption, JobAssumption DEF TakeMandatory, At, TypeOK, cache, stats, op
<1>2. CASE TakeSpeculative(w)
  <2>1. Head(q_spec) \in Jobs /\ q_spec' \in Seq(Jobs)
    BY <1>2, HeadTailProperties DEF TakeSpeculative, CanSpec, TypeOK
  <2>2. QED
    BY <1>2, <2>1, NullAssumption, JobAssumption DEF TakeSpeculative, At, TypeOK, cache, stats, op
<1>3. CASE Sleep(w)
  BY <1>3 DEF Sleep, At, TypeOK, cache, queues, stats, op
<1>4. CASE Exit(w)
  BY <1>4 DEF Exit, At, TypeOK, cache, queues, stats, op
<1>5. CASE Read(w)
  <2>1. job[w] \in Jobs
    BY <1>5 DEF Read, At, TypeOK
  <2>2. job[w].key \in Keys
    BY <2>1 DEF Jobs
  <2>3. QED
    BY <1>5, <2>2 DEF Read, At, TypeOK, cache, queues, stats, op
<1>6. CASE Scatter(w)
  <2>1. bounce[Slice(w)] \in Keys \cup {NoKey}
    BY DEF Slice, TypeOK
  <2>2. QED
    BY <1>6, <2>1 DEF Scatter, At, TypeOK, cache, queues, stats, op
<1>7. CASE Land(w)
  <2>1. worker' \in [Workers -> {"ready", "asleep", "read", "scatter", "land", "exited"}]
    BY <1>7, NotifyType DEF Land, TypeOK
  <2>2. \A v \in Workers : worker'[v] \in {"read", "scatter", "land"} <=> job'[v] # NoJob
    BY <1>7 DEF Land, NotifyWorkers, Asleep, TypeOK
  <2>3. /\ main' \in {main, "woken"}
        /\ main \notin {"asleep", "matmul"} => main' = main
        /\ main = "asleep" => todo = <<>>
    BY <1>7 DEF Land, WakeGraph
  <2>4. n_spec_active' \in Int /\ job_spec' \subseteq Workers
    BY <1>7 DEF Land, TypeOK
  <2>5. slot_flight' \subseteq Slots /\ job' \in [Workers -> Jobs \cup {NoJob}]
    BY <1>7 DEF Land, TypeOK
  <2>6. UNCHANGED <<slot_key, where, slot_spec, slot_used, pinned, pool, q_mand, q_spec,
                    stop_workers, stats, bounce, op>>
    BY <1>7 DEF Land, queues
  <2>7. TypeOK'
    BY <2>1, <2>3, <2>4, <2>5, <2>6 DEF TypeOK, stats, op
  <2>8. AheadInRange'
    BY <2>3, <2>6 DEF op, TypeOK
  <2>9. QED
    BY <2>2, <2>7, <2>8
<1>8. CASE ReadFails(w)
  BY <1>8 DEF ReadFails, TypeOK, cache, queues, stats, crew, op, At, Aborted
<1>9. QED
  BY <1>1, <1>2, <1>3, <1>4, <1>5, <1>6, <1>7, <1>8 DEF WorkerStep

LEMMA NextTypes == TypeInv /\ [Next]_vars => TypeInv'
<1> SUFFICES ASSUME TypeInv, [Next]_vars PROVE TypeInv'
  OBVIOUS
<1>1. CASE BeginPass \/ BeginOp \/ ResolveHit \/ ResolveMiss \/ ResolveAbort \/ ResolveDone
  BY <1>1, ResolveTypes
<1>2. CASE Predict \/ PrefetchResident \/ PrefetchMiss \/ PrefetchYield \/ PredictDone
  BY <1>2, PredictTypes
<1>3. CASE Promote \/ EndOp \/ RecheckWait \/ EndMatmul \/ Destroy \/ Joined \/ Finished
  BY <1>3, EndTypes
<1>4. CASE \E w \in Workers : WorkerStep(w) \/ ReadFails(w)
  BY <1>4, WorkerTypes
<1>5. CASE UNCHANGED vars
  BY <1>5 DEF TypeInv, TypeOK, AheadInRange, BusyHasJob, vars, cache, queues, stats, crew, op
<1>6. QED
  BY <1>1, <1>2, <1>3, <1>4, <1>5 DEF Next, GraphStep

\* Every variable keeps its type: no job without a slot or a key is ever queued,
\* no prefetch names a layer past the last one.
THEOREM TypeCorrect == Spec => []TypeOK
<1>1. Spec => []TypeInv
  BY InitType, NextTypes, PTL DEF Spec
<1>2. TypeInv => TypeOK
  BY DEF TypeInv
<1>3. QED
  BY <1>1, <1>2, PTL

-----------------------------------------------------------------------------
(* The pool invariant of FetchPoolInv is inductive; what the layers read   *)
(* follows from it.                                                        *)

Inv == TypeInv /\ PoolInv

\* What victim() returns is not mid-fetch, and not pinned if it is assigned.
LEMMA VictimFree ==
  ASSUME TypeOK, FlightAssigned, NEW g, NEW s \in Slots, IsVictim(g, s)
  PROVE  /\ s \notin slot_flight
         /\ slot_key[s] # NoKey => s \notin pinned
  BY DEF IsVictim, Empty, Evictable, FlightAssigned

\* Giving a victim's slot to a key that has none keeps the two maps in agreement
\* and disturbs no job, no landed slot and no copy under way.
LEMMA AssignKeeps ==
  ASSUME TypeInv, PoolInv, NEW g, NEW s \in Slots, NEW k \in Keys,
         IsVictim(g, s), where[k] = NoSlot,
         slot_key' = [slot_key EXCEPT ![s] = k],
         where' = Remap(s, k),
         slot_flight' = slot_flight \cup {s},
         UNCHANGED <<pool, worker, job, bounce>>
  PROVE  /\ MapsAgree' /\ ResidentMeansLoaded' /\ FlightAssigned' /\ BounceRight'
         /\ \A j \in Jobs : Owned(j) => Owned(j)' /\ j.slot # s
<1>1. s \notin slot_flight
  BY VictimFree DEF TypeInv, PoolInv
<1>2. k # NoKey /\ s # NoSlot /\ slot_key \in [Slots -> Keys \cup {NoKey}]
  BY NullAssumption DEF TypeInv, TypeOK
<1>3. MapsAgree'
  BY AssignAgrees DEF MapsTyped, PoolInv, TypeInv, TypeOK
<1>4. ResidentMeansLoaded'
  BY <1>2 DEF PoolInv, ResidentMeansLoaded
<1>5. FlightAssigned'
  BY <1>2 DEF PoolInv, FlightAssigned, TypeInv, TypeOK
<1>6. BounceRight'
  BY DEF PoolInv, BounceRight
<1>7. ASSUME NEW j \in Jobs, Owned(j)
      PROVE  Owned(j)' /\ j.slot # s
  BY <1>1, <1>2, <1>7 DEF Owned, Jobs
<1>8. QED
  BY <1>3, <1>4, <1>5, <1>6, <1>7

\* The jobs of the queues and of the workers are jobs.
LEMMA JobsTyped ==
  ASSUME TypeInv
  PROVE  /\ \A i \in 1 .. Len(q_mand) : q_mand[i] \in Jobs
         /\ \A i \in 1 .. Len(q_spec) : q_spec[i] \in Jobs
         /\ \A w \in Workers : Busy(w) => job[w] \in Jobs
  BY ElementOfSeq DEF TypeInv, TypeOK, Busy

\* A step that touches neither the queues nor the jobs of the workers, nor the
\* cache they fetch for, keeps the jobs and the pool right.
LEMMA JobsUndisturbed ==
  ASSUME PoolInv,
         UNCHANGED <<slot_key, where, slot_flight, pool, q_mand, q_spec, job, bounce>>,
         \A w \in Workers : worker'[w] \in {"scatter", "land"} => worker'[w] = worker[w]
  PROVE  /\ MapsAgree' /\ ResidentMeansLoaded' /\ JobsOwned' /\ JobsDistinct'
         /\ FlightAssigned' /\ BounceRight'
  BY DEF PoolInv, MapsAgree, ResidentMeansLoaded, JobsOwned, JobsDistinct, Owned, Busy,
         FlightAssigned, BounceRight

\* The same for a step that only changes where the graph thread is.
LEMMA OpUndisturbed ==
  ASSUME PoolInv, UNCHANGED <<slot_key, slot_flight, pinned, out, ids, layer, wait_slots>>,
         InOp' => InOp
  PROVE  EmittedHeld'
  BY DEF PoolInv, EmittedHeld

LEMMA InitPool == Init => PoolInv
<1> SUFFICES ASSUME Init PROVE PoolInv
  OBVIOUS
<1>1. MapsAgree /\ ResidentMeansLoaded /\ FlightAssigned /\ BounceRight
  BY DEF Init, CacheInit, MapsAgree, ResidentMeansLoaded, FlightAssigned, BounceRight
<1>2. JobsOwned /\ JobsDistinct
  BY EmptySeq DEF Init, CacheInit, JobsOwned, JobsDistinct, Busy
<1>3. EmittedHeld /\ EmittedAll
  BY DEF Init, CacheInit, EmittedHeld, EmittedAll, InOp
<1>4. QED
  BY <1>1, <1>2, <1>3 DEF PoolInv

-----------------------------------------------------------------------------
(* The graph thread.                                                       *)

\* The steps that leave the cache, the queues and the jobs alone.
LEMMA QuietSteps ==
  ASSUME Inv,
         BeginPass \/ BeginOp \/ ResolveAbort \/ ResolveDone \/ Predict
         \/ PrefetchResident \/ PrefetchYield \/ PredictDone \/ EndOp \/ RecheckWait
         \/ EndMatmul \/ Destroy \/ Joined \/ Finished
  PROVE  PoolInv'
<1> USE DEF Inv
<1>1. /\ UNCHANGED <<slot_key, where, slot_flight, pool, q_mand, q_spec, job, bounce>>
      /\ worker' = worker \/ worker' = NotifyWorkers
  BY DEF BeginPass, BeginOp, ResolveAbort, ResolveDone, Predict, PrefetchResident,
         PrefetchYield, PredictDone, EndOp, RecheckWait, EndMatmul, Destroy, Joined,
         Finished, vars, cache, queues, crew
<1>2. \A w \in Workers : worker'[w] \in {"scatter", "land"} => worker'[w] = worker[w]
  BY <1>1 DEF NotifyWorkers
<1>3. /\ MapsAgree' /\ ResidentMeansLoaded' /\ JobsOwned' /\ JobsDistinct'
      /\ FlightAssigned' /\ BounceRight'
  BY <1>1, <1>2, JobsUndisturbed
<1>4. EmittedHeld'
  <2>1. CASE BeginOp
    BY <1>1, <2>1 DEF BeginOp, PoolInv, EmittedAll, EmittedHeld
  <2>2. CASE BeginPass \/ EndMatmul
    BY <2>2 DEF BeginPass, EndMatmul, EmittedHeld, InOp
  <2>3. CASE \/ ResolveAbort \/ ResolveDone \/ Predict \/ PrefetchResident
             \/ PrefetchYield \/ PredictDone \/ EndOp \/ RecheckWait
             \/ Destroy \/ Joined \/ Finished
    <3>1. UNCHANGED <<slot_key, slot_flight, pinned, out, ids, layer, wait_slots>>
      BY <2>3 DEF ResolveAbort, ResolveDone, Predict, PrefetchResident,
             PrefetchYield, PredictDone, EndOp, RecheckWait, Destroy, Joined,
             Finished, vars, cache, op
    <3>2. InOp' => InOp
      BY <2>3 DEF ResolveAbort, Resolving, ResolveDone, Predict, PrefetchResident,
             PrefetchYield, PredictDone, EndOp, RecheckWait, Destroy, Joined,
             Finished, vars, InOp
    <3>3. QED
      BY <3>1, <3>2, OpUndisturbed
  <2>4. QED
    BY <2>1, <2>2, <2>3
<1>5. EmittedAll'
  <2> USE DEF PoolInv, EmittedAll
  <2>1. CASE BeginPass \/ BeginOp \/ EndMatmul
    BY <2>1 DEF BeginPass, BeginOp, EndMatmul
  <2>2. CASE ResolveDone
    BY <2>2 DEF ResolveDone, op
  <2>3. CASE Predict \/ PrefetchResident \/ PrefetchYield \/ PredictDone
    BY <2>3 DEF Predict, PrefetchResident, PrefetchYield, PredictDone, op
  <2>4. CASE EndOp \/ RecheckWait
    BY <2>4 DEF EndOp, RecheckWait, op, cache, Landed
  <2>5. CASE ResolveAbort \/ Destroy \/ Joined
    BY <2>5 DEF ResolveAbort, Destroy, Joined
  <2>6. CASE Finished
    BY <2>6 DEF Finished, vars, op, cache, Landed
  <2>7. QED
    BY <2>1, <2>2, <2>3, <2>4, <2>5, <2>6
<1>6. QED
  BY <1>3, <1>4, <1>5 DEF PoolInv

\* An op that emits slot s, which is assigned to the id it resolves, and waits
\* for it if it is in flight, still holds all it has emitted.
LEMMA EmitHolds ==
  ASSUME Inv, Resolving, NEW s \in Slots, Emit(s),
         \A t \in pinned : slot_key[t] # NoKey => t # s \/ slot_key'[s] = slot_key[s],
         \A t \in Slots : t # s => slot_key'[t] = slot_key[t],
         slot_key'[s] = Wanted,
         slot_flight' \subseteq slot_flight \cup {s},
         s \in slot_flight' => s \in wait_slots',
         wait_slots \subseteq wait_slots', wait_slots' \subseteq wait_slots \cup {s},
         UNCHANGED <<main, layer, ids>>
  PROVE  EmittedHeld' /\ EmittedAll'
<1> USE DEF Inv, PoolInv
<1>1. /\ out \in Seq(Slots) /\ out' = Append(out, s) /\ pinned' = pinned \cup {s}
      /\ InOp /\ InOp' /\ main = "resolve" /\ Len(out) < Len(ids)
      /\ Len(ids) \in Nat
  BY DEF Resolving, Emit, TypeInv, TypeOK, InOp
<1>2. /\ Len(out') = Len(out) + 1
      /\ \A i \in 1 .. Len(out) : out'[i] = out[i]
      /\ out'[Len(out) + 1] = s
      /\ Len(out) \in Nat
  BY <1>1
<1>3. ASSUME NEW i \in 1 .. Len(out')
      PROVE  /\ i \in 1 .. Len(ids)
             /\ slot_key'[out'[i]] = <<layer, ids[i]>>
             /\ out'[i] \in pinned'
             /\ out'[i] \in slot_flight' => out'[i] \in wait_slots'
  <2>1. CASE i = Len(out) + 1
    BY <1>1, <1>2, <2>1 DEF Wanted
  <2>2. CASE i \in 1 .. Len(out)
    <3>1. /\ slot_key[out[i]] = <<layer, ids[i]>> /\ out[i] \in pinned
          /\ out[i] \in slot_flight => out[i] \in wait_slots
          /\ i \in 1 .. Len(ids)
      BY <1>1, <2>2 DEF EmittedHeld
    <3>2. out[i] \in Slots
      BY <1>1, <2>2, ElementOfSeq
    <3>3. <<layer, ids[i]>> # NoKey
      BY <1>1, <3>1, ElementOfSeq, NullAssumption DEF Keys, TypeInv, TypeOK
    <3>4. slot_key'[out[i]] = slot_key[out[i]]
      BY <3>1, <3>2, <3>3
    <3>5. QED
      BY <1>1, <1>2, <2>2, <3>1, <3>4
  <2>3. QED
    BY <1>2, <2>1, <2>2
<1>4. ASSUME NEW t \in wait_slots'
      PROVE  \E i \in 1 .. Len(out') : out'[i] = t
  <2>1. CASE t = s
    BY <1>2, <2>1
  <2>2. CASE t \in wait_slots
    <3>1. PICK i \in 1 .. Len(out) : out[i] = t
      BY <1>1, <2>2 DEF EmittedHeld
    <3>2. i \in 1 .. Len(out') /\ out'[i] = t
      BY <1>2, <3>1
    <3>3. QED
      BY <3>2
  <2>3. QED
    BY <2>1, <2>2
<1>5. EmittedHeld'
  BY <1>3, <1>4 DEF EmittedHeld
<1>6. EmittedAll'
  BY <1>1 DEF EmittedAll
<1>7. QED
  BY <1>5, <1>6

LEMMA HitKeeps == ASSUME Inv, ResolveHit PROVE PoolInv'
<1> USE DEF Inv, PoolInv
<1> DEFINE s == where[Wanted]
<1>1. Wanted \in Keys /\ Resolving
  BY WantedType DEF ResolveHit, TypeInv
<1>2. s \in Slots /\ slot_key[s] = Wanted
  BY <1>1 DEF ResolveHit, MapsAgree, TypeInv, TypeOK
<1>3. /\ Emit(s)
      /\ wait_slots' = IF s \in slot_flight THEN wait_slots \cup {s} ELSE wait_slots
      /\ UNCHANGED <<slot_key, where, slot_flight, pool, q_mand, q_spec, worker, job,
                     bounce, main, layer, ids>>
  BY DEF ResolveHit, queues, crew
<1>4. /\ MapsAgree' /\ ResidentMeansLoaded' /\ JobsOwned' /\ JobsDistinct'
      /\ FlightAssigned' /\ BounceRight'
  BY <1>3, JobsUndisturbed
<1> HIDE DEF s
<1>5. EmittedHeld' /\ EmittedAll'
  BY <1>1, <1>2, <1>3, EmitHolds
<1>6. QED
  BY <1>4, <1>5

LEMMA MissKeeps == ASSUME Inv, ResolveMiss PROVE PoolInv'
<1> USE DEF Inv
<1>1. Wanted \in Keys /\ Resolving /\ where[Wanted] = NoSlot
  BY WantedType DEF ResolveMiss, TypeInv
<1>2. PICK s \in Slots :
        /\ IsVictim(GroupOf[layer], s)
        /\ slot_key' = [slot_key EXCEPT ![s] = Wanted]
        /\ where' = Remap(s, Wanted)
        /\ slot_flight' = slot_flight \cup {s}
        /\ q_mand' = Append(q_mand, [key |-> Wanted, slot |-> s])
        /\ wait_slots' = wait_slots \cup {s}
        /\ Emit(s)
  BY DEF ResolveMiss
<1>3. UNCHANGED <<pool, q_spec, worker, job, bounce, main, layer, ids>>
  BY DEF ResolveMiss, crew
<1>4. /\ MapsAgree' /\ ResidentMeansLoaded' /\ FlightAssigned' /\ BounceRight'
      /\ \A j \in Jobs : Owned(j) => Owned(j)' /\ j.slot # s
  BY <1>1, <1>2, <1>3, AssignKeeps
<1>5. PICK new \in Jobs :
        /\ new = [key |-> Wanted, slot |-> s] /\ new.slot = s
        /\ new.slot \in slot_flight' /\ slot_key'[new.slot] = new.key
  <2>1. [key |-> Wanted, slot |-> s] \in Jobs
    BY <1>1 DEF Jobs
  <2>2. s \in slot_flight' /\ slot_key'[s] = Wanted
    BY <1>2 DEF TypeInv, TypeOK
  <2>3. QED
    BY <2>1, <2>2
<1>6. /\ q_mand \in Seq(Jobs) /\ Len(q_mand) \in Nat /\ Len(q_mand') = Len(q_mand) + 1
      /\ \A i \in 1 .. Len(q_mand) : q_mand'[i] = q_mand[i]
      /\ q_mand'[Len(q_mand) + 1] = new
  BY <1>2, <1>5 DEF TypeInv, TypeOK
<1>7. JobsOwned'
  <2>1. \A j \in Jobs : (Owned(j) \/ j = new) =>
          j.slot \in slot_flight' /\ slot_key'[j.slot] = j.key
    <3>1. ASSUME NEW j \in Jobs, Owned(j)
          PROVE  j.slot \in slot_flight' /\ slot_key'[j.slot] = j.key
      BY <1>4, <3>1 DEF Owned
    <3>2. QED
      BY <1>5, <3>1
  <2>2. \A i \in 1 .. Len(q_mand') :
          q_mand'[i] \in Jobs /\ (Owned(q_mand'[i]) \/ q_mand'[i] = new)
    BY <1>5, <1>6, JobsTyped DEF PoolInv, JobsOwned
  <2>3. \A i \in 1 .. Len(q_spec) : q_spec[i] \in Jobs /\ Owned(q_spec[i])
    BY JobsTyped DEF PoolInv, JobsOwned
  <2>4. \A w \in Workers : Busy(w) => job[w] \in Jobs /\ Owned(job[w])
    BY JobsTyped DEF PoolInv, JobsOwned
  <2>5. QED
    BY <1>3, <2>1, <2>2, <2>3, <2>4 DEF JobsOwned, Owned, Busy
<1>8. JobsDistinct'
  <2>1. /\ \A i \in 1 .. Len(q_mand) : q_mand[i].slot # s
        /\ \A i \in 1 .. Len(q_spec) : q_spec[i].slot # s
        /\ \A w \in Workers : Busy(w) => job[w].slot # s
    BY <1>4, JobsTyped DEF PoolInv, JobsOwned
  <2>2. JobsDistinct
    BY DEF PoolInv
  <2>3. \A w \in Workers : Busy(w)' <=> Busy(w)
    BY <1>3 DEF Busy
  <2>4. \A i \in 1 .. Len(q_mand') :
          (i \in 1 .. Len(q_mand) /\ q_mand'[i] = q_mand[i])
          \/ (i = Len(q_mand) + 1 /\ q_mand'[i].slot = s)
    BY <1>5, <1>6
  <2>5. \A i, j \in 1 .. Len(q_mand') : i # j => q_mand'[i].slot # q_mand'[j].slot
    BY <2>1, <2>2, <2>4 DEF JobsDistinct
  <2>6. /\ \A i \in 1 .. Len(q_mand'), j \in 1 .. Len(q_spec) :
             q_mand'[i].slot # q_spec[j].slot
        /\ \A i \in 1 .. Len(q_mand'), w \in Workers :
             Busy(w) => q_mand'[i].slot # job[w].slot
    BY <2>1, <2>2, <2>4 DEF JobsDistinct
  <2>7. QED
    BY <1>3, <2>2, <2>3, <2>5, <2>6 DEF JobsDistinct
<1>9. s \notin pinned \/ slot_key[s] = NoKey
  BY <1>2, VictimFree DEF PoolInv, TypeInv
<1>10. /\ \A t \in Slots : t # s => slot_key'[t] = slot_key[t]
       /\ slot_key'[s] = Wanted
  BY <1>2 DEF TypeInv, TypeOK
<1>11. EmittedHeld' /\ EmittedAll'
  BY <1>1, <1>2, <1>3, <1>9, <1>10, EmitHolds
<1>12. QED
  BY <1>4, <1>7, <1>8, <1>11 DEF PoolInv

LEMMA PrefetchKeeps == ASSUME Inv, PrefetchMiss PROVE PoolInv'
<1> USE DEF Inv
<1>1. Predicted \in Keys /\ where[Predicted] = NoSlot /\ main = "predict"
  <2>1. Head(todo) \in Experts
    BY HeadTailProperties DEF PrefetchMiss, TypeInv, TypeOK
  <2>2. QED
    BY <2>1 DEF PrefetchMiss, Predicted, Keys, TypeInv, AheadInRange
<1>2. PICK s \in Slots :
        /\ IsVictim(GroupOf[layer + horizon], s)
        /\ slot_key' = [slot_key EXCEPT ![s] = Predicted]
        /\ where' = Remap(s, Predicted)
        /\ slot_flight' = slot_flight \cup {s}
        /\ q_spec' = Append(q_spec, [key |-> Predicted, slot |-> s])
  BY DEF PrefetchMiss
<1>3. UNCHANGED <<pool, q_mand, worker, job, bounce, main, layer, ids, out, pinned,
                  wait_slots>>
  BY DEF PrefetchMiss, crew
<1>4. /\ MapsAgree' /\ ResidentMeansLoaded' /\ FlightAssigned' /\ BounceRight'
      /\ \A j \in Jobs : Owned(j) => Owned(j)' /\ j.slot # s
  BY <1>1, <1>2, <1>3, AssignKeeps
<1>5. PICK new \in Jobs :
        /\ new = [key |-> Predicted, slot |-> s] /\ new.slot = s
        /\ new.slot \in slot_flight' /\ slot_key'[new.slot] = new.key
  <2>1. [key |-> Predicted, slot |-> s] \in Jobs
    BY <1>1 DEF Jobs
  <2>2. s \in slot_flight' /\ slot_key'[s] = Predicted
    BY <1>2 DEF TypeInv, TypeOK
  <2>3. QED
    BY <2>1, <2>2
<1>6. /\ q_spec \in Seq(Jobs) /\ Len(q_spec) \in Nat /\ Len(q_spec') = Len(q_spec) + 1
      /\ \A i \in 1 .. Len(q_spec) : q_spec'[i] = q_spec[i]
      /\ q_spec'[Len(q_spec) + 1] = new
  BY <1>2, <1>5 DEF TypeInv, TypeOK
<1>7. JobsOwned'
  <2>1. \A j \in Jobs : (Owned(j) \/ j = new) =>
          j.slot \in slot_flight' /\ slot_key'[j.slot] = j.key
    <3>1. ASSUME NEW j \in Jobs, Owned(j)
          PROVE  j.slot \in slot_flight' /\ slot_key'[j.slot] = j.key
      BY <1>4, <3>1 DEF Owned
    <3>2. QED
      BY <1>5, <3>1
  <2>2. \A i \in 1 .. Len(q_spec') :
          q_spec'[i] \in Jobs /\ (Owned(q_spec'[i]) \/ q_spec'[i] = new)
    BY <1>5, <1>6, JobsTyped DEF PoolInv, JobsOwned
  <2>3. \A i \in 1 .. Len(q_mand) : q_mand[i] \in Jobs /\ Owned(q_mand[i])
    BY JobsTyped DEF PoolInv, JobsOwned
  <2>4. \A w \in Workers : Busy(w) => job[w] \in Jobs /\ Owned(job[w])
    BY JobsTyped DEF PoolInv, JobsOwned
  <2>5. QED
    BY <1>3, <2>1, <2>2, <2>3, <2>4 DEF JobsOwned, Owned, Busy
<1>8. JobsDistinct'
  <2>1. /\ \A i \in 1 .. Len(q_mand) : q_mand[i].slot # s
        /\ \A i \in 1 .. Len(q_spec) : q_spec[i].slot # s
        /\ \A w \in Workers : Busy(w) => job[w].slot # s
    BY <1>4, JobsTyped DEF PoolInv, JobsOwned
  <2>2. JobsDistinct
    BY DEF PoolInv
  <2>3. \A w \in Workers : Busy(w)' <=> Busy(w)
    BY <1>3 DEF Busy
  <2>4. \A i, j \in 1 .. Len(q_spec') : i # j => q_spec'[i].slot # q_spec'[j].slot
    BY <1>5, <1>6, <2>1, <2>2 DEF JobsDistinct
  <2>5. \A i \in 1 .. Len(q_mand), j \in 1 .. Len(q_spec') :
          q_mand[i].slot # q_spec'[j].slot
    BY <1>5, <1>6, <2>1, <2>2 DEF JobsDistinct
  <2>6. \A i \in 1 .. Len(q_spec'), w \in Workers : Busy(w) => q_spec'[i].slot # job[w].slot
    BY <1>5, <1>6, <2>1, <2>2 DEF JobsDistinct
  <2>7. QED
    BY <1>3, <2>2, <2>3, <2>4, <2>5, <2>6 DEF JobsDistinct
<1>9. s \notin pinned \/ slot_key[s] = NoKey
  BY <1>2, VictimFree DEF PoolInv, TypeInv
<1>10. \A i \in 1 .. Len(out) : out[i] # s /\ slot_key'[out[i]] = slot_key[out[i]]
  <2>1. \A i \in 1 .. Len(out) :
          /\ out[i] \in Slots /\ out[i] \in pinned
          /\ i \in 1 .. Len(ids) /\ slot_key[out[i]] = <<layer, ids[i]>>
    BY <1>1, ElementOfSeq DEF PoolInv, EmittedHeld, InOp, TypeInv, TypeOK
  <2>2. \A i \in 1 .. Len(ids) : <<layer, ids[i]>> # NoKey
    BY ElementOfSeq, NullAssumption DEF Keys, TypeInv, TypeOK
  <2>3. QED
    BY <1>2, <1>9, <2>1, <2>2 DEF TypeInv, TypeOK
<1>11. EmittedHeld' /\ EmittedAll'
  <2>1. EmittedHeld'
    BY <1>1, <1>2, <1>3, <1>10 DEF PoolInv, EmittedHeld, InOp
  <2>2. EmittedAll'
    BY <1>1, <1>2, <1>3, <1>10 DEF PoolInv, EmittedAll, InOp
  <2>3. QED
    BY <2>1, <2>2
<1>12. QED
  BY <1>4, <1>7, <1>8, <1>11 DEF PoolInv

\* A promotion moves one job from a queue to the other.
LEMMA PromoteKeeps == ASSUME Inv, Promote PROVE PoolInv'
<1> USE DEF Inv, PoolInv
<1>1. PICK i \in 1 .. Len(q_spec) :
        q_mand' = Append(q_mand, q_spec[i]) /\ q_spec' = RemoveJob(q_spec, i)
  BY DEF Promote
<1>2. UNCHANGED <<slot_key, where, slot_flight, pinned, pool, worker, job, bounce, main,
                  layer, ids, out, wait_slots>>
  BY DEF Promote, cache, crew, op
<1>3. /\ MapsAgree' /\ ResidentMeansLoaded' /\ FlightAssigned' /\ BounceRight'
      /\ EmittedHeld' /\ EmittedAll'
  BY <1>2 DEF MapsAgree, ResidentMeansLoaded, FlightAssigned, BounceRight, EmittedHeld,
              EmittedAll, InOp, Landed
<1>4. /\ q_mand \in Seq(Jobs) /\ q_spec \in Seq(Jobs) /\ q_spec[i] \in Jobs
      /\ Len(q_mand) \in Nat /\ Len(q_spec) \in Nat
  BY <1>1, ElementOfSeq DEF TypeInv, TypeOK
<1>5. /\ Len(q_mand') = Len(q_mand) + 1
      /\ \A j \in 1 .. Len(q_mand) : q_mand'[j] = q_mand[j]
      /\ q_mand'[Len(q_mand) + 1] = q_spec[i]
  BY <1>1, <1>4
<1>5a. \A j \in 1 .. Len(q_mand') :
         \/ j \in 1 .. Len(q_mand) /\ q_mand'[j] = q_mand[j]
         \/ j = Len(q_mand) + 1 /\ q_mand'[j] = q_spec[i]
  BY ONLY <1>4, <1>5
<1>6. /\ Len(q_spec') = Len(q_spec) - 1
      /\ \A j \in 1 .. Len(q_spec) - 1 :
           q_spec'[j] = IF j < i THEN q_spec[j] ELSE q_spec[j + 1]
  BY <1>1, <1>4, RemoveJobProperties
<1>7. JobsOwned'
  <2>1. \A j \in 1 .. Len(q_mand') : Owned(q_mand'[j])
    BY <1>1, <1>5a DEF JobsOwned
  <2>2. \A j \in 1 .. Len(q_spec') : Owned(q_spec'[j])
    <3>1. \A j \in 1 .. Len(q_spec') : \E k \in 1 .. Len(q_spec) : q_spec'[j] = q_spec[k]
      BY ONLY <1>4, <1>6
    <3>2. \A k \in 1 .. Len(q_spec) : Owned(q_spec[k])
      BY DEF JobsOwned
    <3>3. QED
      BY ONLY <3>1, <3>2 DEF Owned
  <2>3. QED
    BY <1>2, <2>1, <2>2 DEF JobsOwned, Owned, Busy
<1>8. JobsDistinct'
  <2>1. \A j, k \in 1 .. Len(q_mand') : j # k => q_mand'[j].slot # q_mand'[k].slot
    BY <1>1, <1>5a DEF JobsDistinct
  <2> DEFINE at(j) == IF j < i THEN j ELSE j + 1
  <2>0. /\ \A j \in 1 .. Len(q_spec') : /\ at(j) \in 1 .. Len(q_spec) /\ at(j) # i
                                        /\ q_spec'[j] = q_spec[at(j)]
        /\ \A j, k \in 1 .. Len(q_spec') : j # k => at(j) # at(k)
    BY <1>4, <1>6
  <2> HIDE DEF at
  <2>2. \A j, k \in 1 .. Len(q_spec') : j # k => q_spec'[j].slot # q_spec'[k].slot
    BY <2>0 DEF JobsDistinct
  <2>3. \A j \in 1 .. Len(q_spec') : q_spec'[j].slot # q_spec[i].slot
    BY <1>1, <2>0 DEF JobsDistinct
  <2>4. \A j \in 1 .. Len(q_mand), k \in 1 .. Len(q_spec') :
          q_mand[j].slot # q_spec'[k].slot
    BY <2>0 DEF JobsDistinct
  <2>5. \A j \in 1 .. Len(q_mand'), k \in 1 .. Len(q_spec') :
          q_mand'[j].slot # q_spec'[k].slot
    BY <1>4, <1>5, <2>3, <2>4
  <2>6. \A j \in 1 .. Len(q_mand'), w \in Workers :
          Busy(w) => q_mand'[j].slot # job[w].slot
    BY <1>1, <1>5a DEF JobsDistinct
  <2>7. \A j \in 1 .. Len(q_spec'), w \in Workers :
          Busy(w) => q_spec'[j].slot # job[w].slot
    BY <2>0 DEF JobsDistinct
  <2>8. QED
    BY <1>2, <2>1, <2>2, <2>5, <2>6, <2>7 DEF JobsDistinct, Busy
<1>9. QED
  BY <1>3, <1>7, <1>8

-----------------------------------------------------------------------------
(* The workers.                                                            *)

\* Taking a job off the head of a queue moves it to an idle worker.
LEMMA TakeKeeps ==
  ASSUME Inv, NEW w \in Workers, TakeMandatory(w) \/ TakeSpeculative(w)
  PROVE  PoolInv'
<1> USE DEF Inv, PoolInv
<1>1. /\ UNCHANGED <<slot_key, where, slot_flight, pinned, pool, bounce, main, layer, ids,
                     out, wait_slots>>
      /\ worker[w] = "ready" /\ worker' = [worker EXCEPT ![w] = "read"]
  BY DEF TakeMandatory, TakeSpeculative, At, cache, op
<1>2. ~Busy(w) /\ \A v \in Workers : v # w => (Busy(v)' <=> Busy(v)) /\ job'[v] = job[v]
  BY <1>1 DEF TakeMandatory, TakeSpeculative, Busy, TypeInv, TypeOK, BusyHasJob
<1>3. /\ MapsAgree' /\ ResidentMeansLoaded' /\ FlightAssigned' /\ EmittedHeld'
      /\ EmittedAll'
  BY <1>1 DEF MapsAgree, ResidentMeansLoaded, FlightAssigned, EmittedHeld, EmittedAll,
              InOp, Landed
<1>4. BounceRight'
  BY <1>1, <1>2 DEF BounceRight, TypeInv, TypeOK
<1>5. /\ q_mand \in Seq(Jobs) /\ q_spec \in Seq(Jobs)
      /\ Len(q_mand) \in Nat /\ Len(q_spec) \in Nat
  BY DEF TypeInv, TypeOK
<1>6. CASE TakeMandatory(w)
  <2>1. /\ q_mand # <<>> /\ q_mand' = Tail(q_mand) /\ q_spec' = q_spec
        /\ job'[w] = q_mand[1]
    BY <1>6 DEF TakeMandatory, TypeInv, TypeOK
  <2>2. /\ 1 \in 1 .. Len(q_mand) /\ Len(q_mand') = Len(q_mand) - 1
        /\ \A i \in 1 .. Len(q_mand') : q_mand'[i] = q_mand[i + 1]
                                        /\ i + 1 \in 1 .. Len(q_mand) /\ i + 1 # 1
    BY <1>5, <2>1, HeadTailProperties, EmptySeq
  <2>3. JobsOwned'
    BY <1>1, <1>2, <2>1, <2>2 DEF JobsOwned, Owned
  <2>4. JobsDistinct'
    <3>1. ASSUME NEW i \in 1 .. Len(q_mand'), NEW j \in 1 .. Len(q_mand'), i # j
          PROVE  q_mand'[i].slot # q_mand'[j].slot
      <4>1. /\ i + 1 \in 1 .. Len(q_mand) /\ j + 1 \in 1 .. Len(q_mand) /\ i + 1 # j + 1
            /\ q_mand'[i] = q_mand[i + 1] /\ q_mand'[j] = q_mand[j + 1]
        BY <2>2, <3>1
      <4>2. \A m, n \in 1 .. Len(q_mand) : m # n => q_mand[m].slot # q_mand[n].slot
        BY DEF JobsDistinct
      <4>3. QED
        BY <4>1, <4>2
    <3>2. \A u, v \in Workers :
            (u # v /\ Busy(u)' /\ Busy(v)') => job'[u].slot # job'[v].slot
      BY <1>2, <2>1, <2>2 DEF JobsDistinct
    <3>3. /\ \A i \in 1 .. Len(q_mand'), j \in 1 .. Len(q_spec) :
               q_mand'[i].slot # q_spec[j].slot
          /\ \A i \in 1 .. Len(q_mand'), v \in Workers :
               Busy(v)' => q_mand'[i].slot # job'[v].slot
      BY <1>2, <2>1, <2>2 DEF JobsDistinct
    <3>4. \A i \in 1 .. Len(q_spec), v \in Workers :
            Busy(v)' => q_spec[i].slot # job'[v].slot
      BY <1>2, <2>1, <2>2 DEF JobsDistinct
    <3>5. QED
      BY <2>1, <3>1, <3>2, <3>3, <3>4 DEF JobsDistinct
  <2>5. QED
    BY <1>3, <1>4, <2>3, <2>4
<1>7. CASE TakeSpeculative(w)
  <2>1. /\ q_spec # <<>> /\ q_spec' = Tail(q_spec) /\ q_mand' = q_mand
        /\ job'[w] = q_spec[1]
    BY <1>7 DEF TakeSpeculative, CanSpec, TypeInv, TypeOK
  <2>2. /\ 1 \in 1 .. Len(q_spec) /\ Len(q_spec') = Len(q_spec) - 1
        /\ \A i \in 1 .. Len(q_spec') : q_spec'[i] = q_spec[i + 1]
                                        /\ i + 1 \in 1 .. Len(q_spec) /\ i + 1 # 1
    BY <1>5, <2>1, HeadTailProperties, EmptySeq
  <2>3. JobsOwned'
    BY <1>1, <1>2, <2>1, <2>2 DEF JobsOwned, Owned
  <2>4. JobsDistinct'
    <3>1. ASSUME NEW i \in 1 .. Len(q_spec'), NEW j \in 1 .. Len(q_spec'), i # j
          PROVE  q_spec'[i].slot # q_spec'[j].slot
      <4>1. /\ i + 1 \in 1 .. Len(q_spec) /\ q_spec'[i] = q_spec[i + 1]
            /\ j + 1 \in 1 .. Len(q_spec) /\ q_spec'[j] = q_spec[j + 1]
            /\ i + 1 # j + 1
        BY <2>2, <3>1
      <4>2. QED
        BY <4>1 DEF JobsDistinct
    <3>2. \A u, v \in Workers :
            (u # v /\ Busy(u)' /\ Busy(v)') => job'[u].slot # job'[v].slot
      BY <1>2, <2>1, <2>2 DEF JobsDistinct
    <3>3. /\ \A i \in 1 .. Len(q_mand), j \in 1 .. Len(q_spec') :
               q_mand[i].slot # q_spec'[j].slot
          /\ \A i \in 1 .. Len(q_spec'), v \in Workers :
               Busy(v)' => q_spec'[i].slot # job'[v].slot
      BY <1>2, <2>1, <2>2 DEF JobsDistinct
    <3>4. \A i \in 1 .. Len(q_mand), v \in Workers :
            Busy(v)' => q_mand[i].slot # job'[v].slot
      BY <1>2, <2>1, <2>2 DEF JobsDistinct
    <3>5. QED
      BY <2>1, <3>1, <3>2, <3>3, <3>4 DEF JobsDistinct
  <2>5. QED
    BY <1>3, <1>4, <2>3, <2>4
<1>8. QED
  BY <1>6, <1>7

LEMMA FetchKeeps ==
  ASSUME Inv, NEW w \in Workers, Read(w) \/ Scatter(w)
  PROVE  PoolInv'
<1> USE DEF Inv, PoolInv
<1>1. /\ UNCHANGED <<slot_key, where, slot_flight, pinned, q_mand, q_spec, job, main,
                     layer, ids, out, wait_slots>>
      /\ Busy(w) /\ Owned(job[w]) /\ job[w] \in Jobs
  <2>1. Busy(w)
    BY DEF Read, Scatter, At, TypeInv, BusyHasJob, Busy
  <2>2. QED
    BY <2>1, JobsTyped DEF Read, Scatter, cache, queues, op, JobsOwned
<1>2. /\ MapsAgree' /\ JobsOwned' /\ JobsDistinct' /\ FlightAssigned' /\ EmittedHeld'
      /\ EmittedAll'
  BY <1>1 DEF MapsAgree, JobsOwned, JobsDistinct, FlightAssigned, EmittedHeld, EmittedAll,
              InOp, Landed, Owned, Busy
<1>3. CASE Read(w)
  <2>1. /\ bounce' = [bounce EXCEPT ![w] = job[w].key] /\ pool' = pool
        /\ worker' = [worker EXCEPT ![w] = "scatter"]
    BY <1>3 DEF Read, Slice
  <2>2. ResidentMeansLoaded'
    BY <1>1, <2>1 DEF ResidentMeansLoaded
  <2>3. BounceRight'
    BY <1>1, <2>1 DEF BounceRight, TypeInv, TypeOK
  <2>4. QED
    BY <1>2, <2>2, <2>3
<1>4. CASE Scatter(w)
  <2>1. /\ pool' = [pool EXCEPT ![job[w].slot] = job[w].key] /\ bounce' = bounce
        /\ worker' = [worker EXCEPT ![w] = "land"]
    BY <1>4 DEF Scatter, Slice, At, BounceRight
  <2>2. job[w].slot \in Slots /\ job[w].slot \in slot_flight
    BY <1>1 DEF Jobs, Owned
  <2>3. ResidentMeansLoaded'
    BY <1>1, <2>1, <2>2 DEF ResidentMeansLoaded, TypeInv, TypeOK
  <2>4. \A v \in Workers : (v # w /\ worker[v] = "land") => job[v].slot # job[w].slot
    BY <1>1 DEF JobsDistinct, Busy, TypeInv, BusyHasJob
  <2>5. BounceRight'
    BY <1>1, <2>1, <2>2, <2>4 DEF BounceRight, TypeInv, TypeOK
  <2>6. QED
    BY <1>2, <2>3, <2>5
<1>5. QED
  BY <1>3, <1>4

LEMMA LandKeeps ==
  ASSUME Inv, NEW w \in Workers, Land(w)
  PROVE  PoolInv'
<1> USE DEF Inv, PoolInv
<1>1. /\ UNCHANGED <<slot_key, where, pinned, pool, q_mand, q_spec, bounce, layer, ids,
                     out, wait_slots>>
      /\ slot_flight' = slot_flight \ {job[w].slot}
      /\ job' = [job EXCEPT ![w] = NoJob]
      /\ \A v \in Workers : worker'[v] \in {"scatter", "land"} =>
                              v # w /\ worker'[v] = worker[v]
      /\ main' = WakeGraph
  BY DEF Land, queues, op, NotifyWorkers, TypeInv, TypeOK
<1>2. Busy(w) /\ worker[w] = "land"
  BY DEF Land, At, TypeInv, BusyHasJob, Busy
<1>3. /\ job[w] \in Jobs /\ Owned(job[w]) /\ pool[job[w].slot] = job[w].key
  BY <1>2, JobsTyped DEF JobsOwned, BounceRight
<1>4. \A v \in Workers : Busy(v)' => v # w /\ Busy(v) /\ job'[v] = job[v]
  BY <1>1 DEF Busy, TypeInv, TypeOK
<1>5. MapsAgree' /\ FlightAssigned'
  BY <1>1 DEF MapsAgree, FlightAssigned
<1>6. ResidentMeansLoaded'
  BY <1>1, <1>3 DEF ResidentMeansLoaded, Owned
<1>7. JobsOwned'
  <2>1. /\ \A i \in 1 .. Len(q_mand) : q_mand[i].slot # job[w].slot
        /\ \A i \in 1 .. Len(q_spec) : q_spec[i].slot # job[w].slot
        /\ \A v \in Workers : (v # w /\ Busy(v)) => job[v].slot # job[w].slot
    BY <1>2 DEF JobsDistinct
  <2>2. QED
    BY <1>1, <1>4, <2>1 DEF JobsOwned, Owned
<1>8. JobsDistinct'
  BY <1>1, <1>4 DEF JobsDistinct
<1>9. BounceRight'
  BY <1>1 DEF BounceRight, TypeInv, TypeOK
<1>10. EmittedHeld' /\ EmittedAll'
  BY <1>1 DEF EmittedHeld, EmittedAll, InOp, Landed, WakeGraph, TypeInv, TypeOK
<1>11. QED
  BY <1>5, <1>6, <1>7, <1>8, <1>9, <1>10

LEMMA IdleWorkerKeeps ==
  ASSUME Inv, NEW w \in Workers, Sleep(w) \/ Exit(w) \/ ReadFails(w)
  PROVE  PoolInv'
<1> USE DEF Inv
<1>1. /\ UNCHANGED <<slot_key, where, slot_flight, pinned, pool, q_mand, q_spec, job,
                     bounce, layer, ids, out, wait_slots>>
      /\ main' \in {main, "read_abort"}
  BY DEF Sleep, Exit, ReadFails, cache, queues, crew, op
<1>2. \A v \in Workers : worker'[v] \in {"scatter", "land"} => worker'[v] = worker[v]
  BY DEF Sleep, Exit, ReadFails, crew, TypeInv, TypeOK
<1>3. /\ MapsAgree' /\ ResidentMeansLoaded' /\ JobsOwned' /\ JobsDistinct'
      /\ FlightAssigned' /\ BounceRight'
  BY <1>1, <1>2, JobsUndisturbed
<1>4. EmittedHeld' /\ EmittedAll'
  BY <1>1 DEF PoolInv, EmittedHeld, EmittedAll, InOp, Landed
<1>5. QED
  BY <1>3, <1>4 DEF PoolInv

LEMMA NextPool == Inv /\ [Next]_vars => PoolInv'
<1> SUFFICES ASSUME Inv, [Next]_vars PROVE PoolInv'
  OBVIOUS
<1>1. CASE BeginPass \/ BeginOp \/ ResolveAbort \/ ResolveDone \/ Predict
           \/ PrefetchResident \/ PrefetchYield \/ PredictDone \/ EndOp \/ RecheckWait
           \/ EndMatmul \/ Destroy \/ Joined \/ Finished
  BY <1>1, QuietSteps
<1>2. CASE ResolveHit \/ ResolveMiss \/ PrefetchMiss \/ Promote
  BY <1>2, HitKeeps, MissKeeps, PrefetchKeeps, PromoteKeeps
<1>3. ASSUME NEW w \in Workers, WorkerStep(w) \/ ReadFails(w)
      PROVE  PoolInv'
  BY <1>3, TakeKeeps, FetchKeeps, LandKeeps, IdleWorkerKeeps DEF WorkerStep
<1>4. CASE UNCHANGED vars
  <2>1. UNCHANGED <<slot_key, where, slot_flight, pinned, pool, q_mand, q_spec, job,
                    worker, bounce, main, layer, ids, out, wait_slots>>
    BY <1>4 DEF vars, cache, queues, crew, op
  <2>2. /\ MapsAgree' /\ ResidentMeansLoaded' /\ JobsOwned' /\ JobsDistinct'
        /\ FlightAssigned' /\ BounceRight'
    BY <2>1, JobsUndisturbed DEF Inv
  <2>3. EmittedHeld'
    BY <2>1, OpUndisturbed DEF Inv, InOp
  <2>4. EmittedAll'
    BY <2>1 DEF Inv, PoolInv, EmittedAll, Landed
  <2>5. QED
    BY <2>2, <2>3, <2>4 DEF PoolInv
<1>5. QED
  BY <1>1, <1>2, <1>3, <1>4 DEF Next, GraphStep

\* The invariant holds of every run, whatever the geometry, the number of workers
\* and the depth of the lookahead.
THEOREM InvCorrect == Spec => []Inv
<1>1. Init => Inv
  BY InitType, InitPool DEF Inv
<1>2. Inv /\ [Next]_vars => Inv'
  BY NextTypes, NextPool DEF Inv
<1>3. QED
  BY <1>1, <1>2, PTL DEF Spec

\* The pool's own invariant, the one the runs check.
THEOREM PoolCorrect == Spec => []PoolInv
<1>1. Inv => PoolInv
  BY DEF Inv
<1>2. QED
  BY <1>1, InvCorrect, PTL

\* In the states of the invariant a layer that computes has its experts.
LEMMA InvMatmul == ASSUME Inv PROVE MatmulReadsItsExperts
<1> USE DEF Inv, PoolInv
<1> SUFFICES ASSUME main = "matmul"
             PROVE  /\ Len(out) = Len(ids)
                    /\ \A i \in 1 .. Len(out) :
                         pool[out[i]] = <<layer, ids[i]>> /\ ~Writing(out[i])
  BY DEF MatmulReadsItsExperts
<1>1. Len(out) = Len(ids) /\ Landed
  BY DEF EmittedAll
<1>2. ASSUME NEW i \in 1 .. Len(out)
      PROVE  pool[out[i]] = <<layer, ids[i]>> /\ ~Writing(out[i])
  <2>1. /\ out[i] \in Slots /\ slot_key[out[i]] = <<layer, ids[i]>>
        /\ out[i] \in slot_flight => out[i] \in wait_slots
    BY <1>2, ElementOfSeq DEF EmittedHeld, InOp, TypeInv, TypeOK
  <2>2. out[i] \notin slot_flight
    BY <1>1, <2>1 DEF Landed
  <2>3. <<layer, ids[i]>> # NoKey
    BY <1>1, ElementOfSeq, NullAssumption DEF Keys, TypeInv, TypeOK
  <2>4. pool[out[i]] = <<layer, ids[i]>>
    BY <2>1, <2>2, <2>3 DEF ResidentMeansLoaded
  <2>5. ~Writing(out[i])
    BY <2>2 DEF Writing, JobsOwned, Owned, Busy, TypeInv, BusyHasJob
  <2>6. QED
    BY <2>4, <2>5
<1>3. QED
  BY <1>1, <1>2

\* The mul_mat_ids of a layer read the routed experts' bytes, and no prefetch is
\* about to overwrite them: an emitted slot is pinned, was waited for, and is
\* loaded once it has landed; whoever writes a slot has it in flight.
THEOREM MatmulCorrect == Spec => []MatmulReadsItsExperts
<1>1. Inv => MatmulReadsItsExperts
  BY InvMatmul
<1>2. QED
  BY <1>1, InvCorrect, PTL

\* A hit on a slot that is not in flight is right to trust its bytes.
THEOREM ResidentCorrect == Spec => []ResidentMeansLoaded
<1>1. Inv => ResidentMeansLoaded
  BY DEF Inv, PoolInv
<1>2. QED
  BY <1>1, InvCorrect, PTL

\* No evicted key is still found and no key has two slots.
THEOREM MapsCorrect == Spec => []MapsAgree
<1>1. Inv => MapsAgree
  BY DEF Inv, PoolInv
<1>2. QED
  BY <1>1, InvCorrect, PTL

\* Bytes of the pool change only under a fetch of their slot, never under a layer
\* that reads them.
THEOREM OnlyFlightsWriteCorrect == Spec => OnlyFlightsWrite
<1> DEFINE Safe == \A s \in Slots : pool'[s] # pool[s] =>
                     /\ s \in slot_flight
                     /\ ~(main = "matmul" /\ \E i \in 1 .. Len(out) : out[i] = s)
<1>1. ASSUME Inv, [Next]_vars
      PROVE  [Safe]_vars
  <2> USE <1>1 DEF Inv, PoolInv
  <2>1. ASSUME NEW w \in Workers, Scatter(w)
        PROVE  Safe
    <3>1. /\ pool' = [pool EXCEPT ![job[w].slot] = bounce[w]]
          /\ job[w].slot \in slot_flight
      BY <2>1 DEF Scatter, Slice, At, JobsOwned, Owned, Busy, TypeInv, BusyHasJob
    <3>2. \A s \in slot_flight :
            ~(main = "matmul" /\ \E i \in 1 .. Len(out) : out[i] = s)
      BY DEF EmittedHeld, EmittedAll, InOp, Landed
    <3>3. \A s \in Slots : pool'[s] # pool[s] => s = job[w].slot
      BY <3>1 DEF TypeInv, TypeOK
    <3>4. QED
      BY <3>1, <3>2, <3>3
  <2>2. ASSUME NEW w \in Workers, WorkerStep(w) \/ ReadFails(w), ~Scatter(w)
        PROVE  pool' = pool
    BY <2>2 DEF WorkerStep, TakeMandatory, TakeSpeculative, Sleep, Exit, Read, Land,
                ReadFails
  <2>3. ASSUME BeginPass \/ Destroy \/ GraphStep \/ Finished
        PROVE  pool' = pool
    BY <2>3 DEF BeginPass, Destroy, GraphStep, BeginOp, ResolveHit, ResolveMiss,
                ResolveAbort, ResolveDone, Predict, PrefetchResident, PrefetchMiss,
                PrefetchYield, PredictDone, Promote, EndOp, RecheckWait, EndMatmul,
                Joined, Finished, vars
  <2>4. pool' = pool => Safe
    OBVIOUS
  <2> HIDE DEF Safe
  <2>5. QED
    BY <2>1, <2>2, <2>3, <2>4 DEF Next
<1>2. QED
  BY <1>1, InvCorrect, PTL DEF Spec, OnlyFlightsWrite

-----------------------------------------------------------------------------
(* The pool implements the store of experts.                               *)

StoreInv == Inv /\ OwnPool

LEMMA OwnPoolStep == Inv /\ OwnPool /\ [Next]_vars => OwnPool'
<1> SUFFICES ASSUME Inv, OwnPool, [Next]_vars PROVE OwnPool'
  OBVIOUS
<1>1. MapsTyped
  BY DEF Inv, TypeInv, TypeOK, MapsTyped
<1>2. CASE slot_key' = slot_key
  BY <1>2 DEF OwnPool
<1>3. CASE ResolveMiss
  <2>1. Wanted \in Keys /\ Wanted[1] = layer
    BY <1>3, WantedType DEF ResolveMiss, Inv, TypeInv, Wanted
  <2>2. PICK s \in Slots : /\ IsVictim(GroupOf[layer], s)
                           /\ slot_key' = [slot_key EXCEPT ![s] = Wanted]
    BY <1>3 DEF ResolveMiss
  <2>3. QED
    BY <1>1, <2>1, <2>2, AssignOwnPool
<1>4. CASE PrefetchMiss
  <2>1. Predicted \in Keys /\ Predicted[1] = layer + horizon
    BY <1>4, HeadTailProperties
       DEF PrefetchMiss, Inv, TypeInv, TypeOK, AheadInRange, Predicted, Keys
  <2>2. PICK s \in Slots : /\ IsVictim(GroupOf[layer + horizon], s)
                           /\ slot_key' = [slot_key EXCEPT ![s] = Predicted]
    BY <1>4 DEF PrefetchMiss
  <2>3. QED
    BY <1>1, <2>1, <2>2, AssignOwnPool
<1>5. CASE ~ResolveMiss /\ ~PrefetchMiss /\ Next
  <2>1. slot_key' = slot_key
    BY <1>5 DEF Next, GraphStep, WorkerStep, BeginPass, Destroy, Finished, BeginOp,
       ResolveHit, ResolveAbort, ResolveDone, Predict, PrefetchResident, PrefetchYield,
       PredictDone, Promote, EndOp, RecheckWait, EndMatmul, Joined, TakeMandatory,
       TakeSpeculative, Sleep, Exit, Read, ReadFails, Scatter, Land, cache, vars
  <2>2. QED
    BY <1>2, <2>1
<1>6. CASE UNCHANGED vars
  BY <1>2, <1>6 DEF vars, cache
<1>7. QED
  BY <1>3, <1>4, <1>5, <1>6

\* The store counts as the pool does.
LEMMA SameCardinality == ASSUME NEW S PROVE Store!Cardinality(S) = Cardinality(S)
  BY DEF Store!Cardinality, Cardinality

\* What is resident fits the pools.
LEMMA ResidentFits == StoreInv => Resident \subseteq Keys /\ Store!Fits(Resident)
<1> SUFFICES ASSUME StoreInv PROVE Resident \subseteq Keys /\ Store!Fits(Resident)
  OBVIOUS
<1>1. Resident \subseteq Keys
  BY DEF Resident
<1>2. \A k \in Resident : where[k] \in Slots /\ slot_key[where[k]] = k /\ k # NoKey
  BY NullAssumption
     DEF Resident, StoreInv, Inv, PoolInv, MapsAgree, TypeInv, TypeOK
<1>3. \A k \in Resident : where[k] \in SlotsOf(GroupOf[k[1]])
  BY <1>2 DEF StoreInv, OwnPool, SlotsOf
<1>4. \A j, k \in Resident : where[j] = where[k] => j = k
  BY <1>2
<1>5. \A g \in Groups : Cardinality({k \in Resident : GroupOf[k[1]] = g}) <= NSlots[g]
  BY <1>1, <1>3, <1>4, Capacity
<1>6. QED
  BY <1>1, <1>5, SameCardinality DEF Store!Fits, Store!OfGroup

\* A layer that computes has its experts resident, and reads their bytes.
LEMMA MatmulServed ==
  StoreInv /\ main = "matmul" => Store!Loaded(Resident) /\ Operands = Store!Routed
<1> SUFFICES ASSUME StoreInv, main = "matmul"
             PROVE  Store!Loaded(Resident) /\ Operands = Store!Routed
  OBVIOUS
<1> USE DEF StoreInv, Inv, PoolInv
<1>1. /\ ids \in Seq(Experts) /\ out \in Seq(Slots) /\ layer \in Layers
      /\ Len(ids) \in Nat /\ DOMAIN ids = 1 .. Len(ids)
  BY DEF TypeInv, TypeOK
<1>2. /\ Len(out) = Len(ids)
      /\ \A i \in 1 .. Len(out) : pool[out[i]] = <<layer, ids[i]>>
  BY InvMatmul DEF MatmulReadsItsExperts
<1>3. ASSUME NEW i \in 1 .. Len(ids)
      PROVE  <<layer, ids[i]>> \in Resident
  <2>1. <<layer, ids[i]>> \in Keys /\ out[i] \in Slots
    BY <1>1, <1>2, ElementOfSeq DEF Keys
  <2>2. /\ slot_key[out[i]] = <<layer, ids[i]>>
        /\ out[i] \in slot_flight => out[i] \in wait_slots
    BY <1>2 DEF EmittedHeld, InOp
  <2>3. out[i] \notin slot_flight
    BY <2>2 DEF EmittedAll, Landed
  <2>4. where[<<layer, ids[i]>>] = out[i]
    BY <2>1, <2>2, NullAssumption DEF MapsAgree
  <2>5. QED
    BY <1>2, <2>1, <2>3, <2>4, NullAssumption DEF Resident
<1>4. Store!Loaded(Resident)
  BY <1>1, <1>3 DEF Store!Loaded, Store!Routed
<1>5. Operands = Store!Routed
  BY <1>1, <1>2 DEF Operands, Store!Routed
<1>6. QED
  BY <1>4, <1>5

\* A step that leaves the graph where it is, in the same op, only moves experts.
LEMMA PageStep ==
  ASSUME StoreInv, StoreInv', Phase' = Phase, UNCHANGED <<tokens, layer, ids>>,
         Store!Fits(Resident)', Resident' \subseteq Keys,
         main' = "matmul" => (Store!Loaded(Resident) /\ Operands = Store!Routed)'
  PROVE  Store!Page
<1>1. /\ Phase = "computing" <=> main = "matmul"
      /\ Phase' = "computing" <=> main' = "matmul"
  BY DEF Phase, Aborted, StoreInv, Inv, TypeInv, TypeOK
<1>2. Operands' = Operands
  BY <1>1, MatmulServed DEF Operands, Store!Routed
<1>3. Phase = "computing" => Store!Loaded(Resident')
  BY <1>1 DEF Store!Loaded, Store!Routed
<1>4. Store!Fits(Resident')
  BY DEF Store!Fits, Store!OfGroup
<1>5. QED
  BY <1>2, <1>3, <1>4 DEF Store!Page, Store!Keys, Keys, Store!Layers, Layers

LEMMA StoreStep ==
  ASSUME StoreInv, StoreInv', [Next]_vars,
         Store!Fits(Resident)', Resident' \subseteq Keys,
         main' = "matmul" => (Store!Loaded(Resident) /\ Operands = Store!Routed)'
  PROVE  Store!Next
<1>1. CASE Phase' = Phase /\ UNCHANGED <<tokens, layer, ids>>
  BY <1>1, PageStep DEF Store!Next
<1>2. CASE BeginPass
  <2>1. Phase = "idle" /\ Phase' = "graph" /\ Operands = <<>> /\ Operands' = <<>>
    BY <1>2 DEF BeginPass, Phase, Aborted, Operands
  <2>2. Resident' = Resident
    BY <1>2 DEF BeginPass, cache, Resident
  <2>3. Store!StartPass
    BY <1>2, <2>1, <2>2 DEF BeginPass, Store!StartPass
  <2>4. QED
    BY <2>3 DEF Store!Next
<1>3. CASE BeginOp
  <2>1. Phase = "graph" /\ Phase' = "waiting" /\ Operands = <<>> /\ Operands' = <<>>
    BY <1>3 DEF BeginOp, Phase, Aborted, Operands
  <2>2. Resident' = Resident
    BY <1>3 DEF BeginOp, Resident
  <2>3. Store!Route
    BY <1>3, <2>1, <2>2 DEF BeginOp, Store!Route, TopK, Store!TopK
  <2>4. QED
    BY <2>3 DEF Store!Next
<1>4. CASE ResolveAbort \/ \E w \in Workers : ReadFails(w)
  <2>1. Phase' = "failed" /\ Operands' = <<>> /\ UNCHANGED <<tokens, layer, ids>>
    BY <1>4 DEF ResolveAbort, ReadFails, Phase, Aborted, Operands, op
  <2>2. Resident' = Resident
    BY <1>4 DEF ResolveAbort, ReadFails, cache, Resident
  <2>3. QED
    BY <2>1, <2>2 DEF Store!Fail, Store!Next
<1>5. CASE (EndOp \/ RecheckWait) /\ main' = "matmul"
  <2>1. /\ Phase = "waiting" /\ Phase' = "computing"
        /\ UNCHANGED <<tokens, layer, ids, cache, pool>>
    BY <1>5 DEF EndOp, RecheckWait, Phase, Aborted, op
  <2>2. Resident' = Resident
    BY <2>1 DEF cache, Resident
  <2>3. Store!Loaded(Resident) /\ Operands' = Store!Routed
    BY <1>5, <2>1, <2>2 DEF Store!Loaded, Store!Routed
  <2>4. QED
    BY <2>1, <2>2, <2>3 DEF Store!Serve, Store!Next
<1>6. CASE EndMatmul
  <2>1. /\ Phase = "computing" /\ Operands' = <<>>
        /\ Phase' = IF layer = NLayers THEN "idle" ELSE "graph"
    BY <1>6 DEF EndMatmul, Phase, Aborted, Operands
  <2>2. Resident' = Resident
    BY <1>6 DEF EndMatmul, cache, Resident
  <2>3. Store!Finish
    BY <1>6, <2>1, <2>2 DEF EndMatmul, Store!Finish
  <2>4. QED
    BY <2>3 DEF Store!Next
<1>7. CASE Destroy
  <2>1. /\ Phase = "idle" /\ Phase' = "stopped" /\ Operands' = Operands
        /\ UNCHANGED <<tokens, layer, ids>>
    BY <1>7 DEF Destroy, Phase, Aborted, Operands, op
  <2>2. Resident' = Resident
    BY <1>7 DEF Destroy, cache, Resident
  <2>3. QED
    BY <2>1, <2>2 DEF Store!Stop, Store!Next
<1>8. CASE \/ ResolveHit \/ ResolveMiss \/ ResolveDone \/ Predict \/ PrefetchResident
           \/ PrefetchMiss \/ PrefetchYield \/ PredictDone \/ Promote
           \/ (EndOp \/ RecheckWait) /\ main' # "matmul"
  <2>1. /\ main \in {"resolve", "predict", "promote", "asleep", "woken"}
        /\ main' \in {"resolve", "predict", "promote", "asleep", "woken"}
        /\ UNCHANGED <<tokens, layer, ids>>
    BY <1>8 DEF ResolveHit, ResolveMiss, Resolving, ResolveDone, Predict,
                PrefetchResident, PrefetchMiss, PrefetchYield, PredictDone, Promote,
                EndOp, RecheckWait, op
  <2>2. QED
    BY <1>1, <2>1 DEF Phase, Aborted
<1>9. CASE Joined \/ Finished \/ UNCHANGED vars
  <2>1. Phase' = Phase /\ UNCHANGED <<tokens, layer, ids>>
    BY <1>9 DEF Joined, Finished, Phase, Aborted, op, vars
  <2>2. QED
    BY <1>1, <2>1
<1>10. ASSUME NEW w \in Workers, WorkerStep(w)
       PROVE  Store!Next
  <2>1. UNCHANGED <<tokens, layer, ids>>
    BY <1>10 DEF WorkerStep, TakeMandatory, TakeSpeculative, Sleep, Exit, Read, Scatter,
                 Land, op
  <2>2. main' = main \/ (main = "asleep" /\ main' = "woken")
    BY <1>10 DEF WorkerStep, TakeMandatory, TakeSpeculative, Sleep, Exit, Read, Scatter,
                 Land, WakeGraph
  <2>3. Phase' = Phase
    BY <2>2 DEF Phase, Aborted
  <2>4. QED
    BY <1>1, <2>1, <2>3
<1>11. QED
  BY <1>2, <1>3, <1>4, <1>5, <1>6, <1>7, <1>8, <1>9, <1>10 DEF Next, GraphStep

\* With lookahead on, whatever the geometry, the crew and the depth of the
\* lookahead, the layers compute as if every expert were in memory, or the
\* process fails.
THEOREM PoolImplementsStore == Spec => ImplementsStore
<1>1. Init => StoreInv /\ Store!Init
  <2> SUFFICES ASSUME Init PROVE StoreInv /\ Store!Init
    OBVIOUS
  <2>1. StoreInv
    BY InitType, InitPool DEF StoreInv, Inv, OwnPool, Init, CacheInit
  <2>2. Resident = {}
    BY DEF Resident, Init, CacheInit
  <2>3. Phase = "idle" /\ Operands = <<>>
    BY DEF Phase, Aborted, Operands, Init
  <2>4. QED
    BY <2>1, <2>2, <2>3 DEF Store!Init, Init
<1>2. StoreInv /\ [Next]_vars => StoreInv'
  BY NextTypes, NextPool, OwnPoolStep DEF StoreInv, Inv
<1>3. /\ StoreInv => Resident \subseteq Keys /\ Store!Fits(Resident)
      /\ StoreInv /\ main = "matmul" => Store!Loaded(Resident) /\ Operands = Store!Routed
  BY ResidentFits, MatmulServed
<1>4. (StoreInv => Resident \subseteq Keys /\ Store!Fits(Resident))'
  BY <1>3, PTL
<1>5. (StoreInv /\ main = "matmul" =>
         Store!Loaded(Resident) /\ Operands = Store!Routed)'
  BY <1>3, PTL
<1>6. StoreInv /\ StoreInv' /\ [Next]_vars => [Store!Next]_Store!store
  BY <1>4, <1>5, StoreStep
<1>7. QED
  BY <1>1, <1>2, <1>6, PTL DEF Spec, ImplementsStore, Store!Spec

-----------------------------------------------------------------------------
(* What speculation may not do: occupy the last worker, be waited for      *)
(* while queued, go unreported, fetch into a slot somebody else fetches    *)
(* into, or abort an op that fits beside it.                               *)


\* The workers on speculative jobs are among the busy ones.
SpecBusy == \A w \in job_spec : Busy(w)

SpecInv == TypeInv /\ SpecBusy /\ WorkerKeptFree

LEMMA WorkersFinite == IsFiniteSet(Workers)
  BY FS_Interval, SizeAssumption DEF Workers

LEMMA SpecStep == SpecInv /\ [Next]_vars => SpecInv'
<1> SUFFICES ASSUME SpecInv, [Next]_vars PROVE SpecInv'
  OBVIOUS
<1> USE DEF SpecInv
<1>1. TypeInv'
  BY NextTypes
<1>2. IsFiniteSet(job_spec) /\ Cardinality(job_spec) \in Nat
  BY WorkersFinite, FS_Subset, FS_CardinalityType DEF TypeInv, TypeOK
<1>3. CASE UNCHANGED <<job, job_spec, n_spec_active>>
  BY <1>1, <1>3 DEF SpecBusy, Busy, WorkerKeptFree
<1>4. ASSUME NEW w \in Workers, TakeMandatory(w)
      PROVE  SpecInv'
  <2>1. UNCHANGED <<job_spec, n_spec_active>> /\ worker[w] = "ready"
    BY <1>4 DEF TakeMandatory, At
  <2>2. w \notin job_spec
    BY <2>1 DEF SpecBusy, Busy, TypeInv, BusyHasJob
  <2>3. SpecBusy'
    BY <1>4, <2>1, <2>2 DEF TakeMandatory, SpecBusy, Busy, TypeInv, TypeOK
  <2>4. QED
    BY <1>1, <2>1, <2>3 DEF WorkerKeptFree
<1>5. ASSUME NEW w \in Workers, TakeSpeculative(w)
      PROVE  SpecInv'
  <2>1. /\ job_spec' = job_spec \cup {w} /\ n_spec_active' = n_spec_active + 1
        /\ n_spec_active < Qd - 1 /\ worker[w] = "ready" /\ worker'[w] = "read"
        /\ \A v \in Workers : v # w => job'[v] = job[v]
    BY <1>5 DEF TakeSpeculative, At, CanSpec, TypeInv, TypeOK
  <2>2. w \notin job_spec
    BY <2>1 DEF SpecBusy, Busy, TypeInv, BusyHasJob
  <2>3. Cardinality(job_spec') = Cardinality(job_spec) + 1
    BY <1>2, <2>1, <2>2, FS_AddElement
  <2>4. SpecBusy'
    BY <1>1, <2>1 DEF SpecBusy, Busy, TypeInv, TypeOK, BusyHasJob
  <2>5. WorkerKeptFree'
    BY <1>2, <2>1, <2>3, SizeAssumption DEF WorkerKeptFree
  <2>6. QED
    BY <1>1, <2>4, <2>5
<1>6. ASSUME NEW w \in Workers, Land(w)
      PROVE  SpecInv'
  <2>1. /\ job_spec' = job_spec \ {w}
        /\ n_spec_active' = IF w \in job_spec THEN n_spec_active - 1 ELSE n_spec_active
        /\ \A v \in Workers : v # w => job'[v] = job[v]
    BY <1>6 DEF Land, TypeInv, TypeOK
  <2>2. SpecBusy'
    BY <2>1 DEF SpecBusy, Busy, TypeInv, TypeOK
  <2>3. Cardinality(job_spec') = IF w \in job_spec THEN Cardinality(job_spec) - 1
                                                  ELSE Cardinality(job_spec)
    BY <1>2, <2>1, FS_RemoveElement
  <2>4. WorkerKeptFree'
    BY <1>2, <2>1, <2>3, SizeAssumption DEF WorkerKeptFree
  <2>5. QED
    BY <1>1, <2>2, <2>4
<1>7. ASSUME NEW w \in Workers, Sleep(w) \/ Exit(w) \/ Read(w) \/ Scatter(w) \/ ReadFails(w)
      PROVE  SpecInv'
  BY <1>3, <1>7 DEF Sleep, Exit, Read, Scatter, ReadFails, crew
<1>8. CASE BeginPass \/ Destroy \/ GraphStep \/ Finished \/ UNCHANGED vars
  BY <1>3, <1>8 DEF BeginPass, Destroy, GraphStep, BeginOp, ResolveHit, ResolveMiss,
                    ResolveAbort, ResolveDone, Predict, PrefetchResident, PrefetchMiss,
                    PrefetchYield, PredictDone, Promote, EndOp, RecheckWait, EndMatmul,
                    Joined, Finished, vars, crew
<1>9. QED
  BY <1>4, <1>5, <1>6, <1>7, <1>8 DEF Next, WorkerStep

\* "One stays free so a mandatory miss never waits behind a full pipe of
\* speculation", with any number of workers.
THEOREM WorkerKeptFreeCorrect == Spec => []WorkerKeptFree
<1>1. Init => SpecInv
  <2> SUFFICES ASSUME Init PROVE SpecInv
    OBVIOUS
  <2>1. job_spec = {} /\ n_spec_active = 0
    BY DEF Init, CacheInit
  <2>2. QED
    BY <2>1, InitType, FS_EmptySet, SizeAssumption DEF SpecInv, SpecBusy, WorkerKeptFree
<1>2. Spec => []SpecInv
  BY <1>1, SpecStep, PTL DEF Spec
<1>3. SpecInv => WorkerKeptFree
  BY DEF SpecInv
<1>4. QED
  BY <1>2, <1>3, PTL

-----------------------------------------------------------------------------
(* The account of prefetches.                                              *)

\* Once the prefetches still unreferenced are counted as wasted no worker is left
\* to take the process elsewhere.
NobodyLeft == main = "destroyed" => \A w \in Workers : worker[w] = "exited"

AccountInv == TypeInv /\ NobodyLeft /\ PrefetchesAccounted

LEMMA NobodyLeftStep == TypeInv /\ NobodyLeft /\ [Next]_vars => NobodyLeft'
<1> SUFFICES ASSUME TypeInv, NobodyLeft, [Next]_vars, main' = "destroyed"
             PROVE  \A w \in Workers : worker'[w] = "exited"
  BY DEF NobodyLeft
<1>1. CASE Joined
  BY <1>1 DEF Joined, crew
<1>2. CASE Finished \/ UNCHANGED vars
  BY <1>2 DEF Finished, NobodyLeft, vars, crew
<1>3. ASSUME NEW w \in Workers, WorkerStep(w) \/ ReadFails(w)
      PROVE  FALSE
  BY <1>3 DEF WorkerStep, TakeMandatory, TakeSpeculative, Sleep, Exit, Read, Scatter,
              Land, ReadFails, At, WakeGraph, NobodyLeft
<1>4. ~ \/ BeginPass \/ Destroy \/ BeginOp \/ ResolveHit \/ ResolveMiss \/ ResolveAbort
        \/ ResolveDone \/ Predict \/ PrefetchResident \/ PrefetchMiss \/ PrefetchYield
        \/ PredictDone \/ Promote \/ EndOp \/ RecheckWait \/ EndMatmul
  BY DEF BeginPass, Destroy, BeginOp, ResolveHit, ResolveMiss, ResolveAbort,
         ResolveDone, Resolving, Predict, PrefetchResident, PrefetchMiss, PrefetchYield,
         PredictDone, Promote, EndOp, RecheckWait, EndMatmul
<1>5. QED
  BY <1>1, <1>2, <1>3, <1>4 DEF Next, GraphStep

LEMMA AccountStep == AccountInv /\ [Next]_vars => AccountInv'
<1> SUFFICES ASSUME AccountInv, [Next]_vars PROVE AccountInv'
  OBVIOUS
<1> USE DEF AccountInv
<1>1. TypeInv' /\ NobodyLeft'
  BY NextTypes, NobodyLeftStep
<1>2. IsFiniteSet(slot_spec) /\ Cardinality(slot_spec) \in Nat
  BY SlotsFinite, FS_Subset, FS_CardinalityType DEF TypeInv, TypeOK
<1>3. n_spec \in Nat /\ n_spec_used \in Nat /\ n_spec_waste \in Nat
  BY DEF TypeInv, TypeOK
<1>4. CASE UNCHANGED <<n_spec, n_spec_used, n_spec_waste, slot_spec>>
           /\ (main' = "destroyed" <=> main = "destroyed")
  BY <1>1, <1>4 DEF PrefetchesAccounted
<1>5. CASE ResolveHit
  <2> DEFINE s == where[Wanted]
  <2>1. /\ slot_spec' = slot_spec \ {s} /\ main = "resolve" /\ main' = main
        /\ n_spec_used' = n_spec_used + (IF s \in slot_spec THEN 1 ELSE 0)
        /\ UNCHANGED <<n_spec, n_spec_waste>>
    BY <1>5 DEF ResolveHit, Resolving
  <2> HIDE DEF s
  <2>2. Cardinality(slot_spec') = IF s \in slot_spec THEN Cardinality(slot_spec) - 1
                                                     ELSE Cardinality(slot_spec)
    BY <1>2, <2>1, FS_RemoveElement
  <2>3. QED
    BY <1>1, <1>2, <1>3, <2>1, <2>2 DEF PrefetchesAccounted
<1>6. CASE ResolveMiss
  <2>1. PICK s \in Slots : slot_spec' = slot_spec \ {s} /\ n_spec_waste' = Waste(s)
    BY <1>6 DEF ResolveMiss
  <2>2. main = "resolve" /\ main' = main /\ UNCHANGED <<n_spec, n_spec_used>>
    BY <1>6 DEF ResolveMiss, Resolving
  <2>3. Cardinality(slot_spec') = IF s \in slot_spec THEN Cardinality(slot_spec) - 1
                                                     ELSE Cardinality(slot_spec)
    BY <1>2, <2>1, FS_RemoveElement
  <2>4. QED
    BY <1>1, <1>2, <1>3, <2>1, <2>2, <2>3 DEF PrefetchesAccounted, Waste
<1>7. CASE PrefetchMiss
  <2>1. PICK s \in Slots : slot_spec' = slot_spec \cup {s} /\ n_spec_waste' = Waste(s)
    BY <1>7 DEF PrefetchMiss
  <2>2. /\ main = "predict" /\ main' = main /\ n_spec' = n_spec + 1
        /\ n_spec_used' = n_spec_used
    BY <1>7 DEF PrefetchMiss
  <2>3. Cardinality(slot_spec') = IF s \in slot_spec THEN Cardinality(slot_spec)
                                                     ELSE Cardinality(slot_spec) + 1
    BY <1>2, <2>1, FS_AddElement
  <2>4. QED
    BY <1>1, <1>2, <1>3, <2>1, <2>2, <2>3 DEF PrefetchesAccounted, Waste
<1>8. CASE Joined
  BY <1>1, <1>2, <1>3, <1>8 DEF Joined, cache, PrefetchesAccounted
<1>9. ASSUME NEW w \in Workers, WorkerStep(w) \/ ReadFails(w)
      PROVE  AccountInv'
  BY <1>4, <1>9 DEF WorkerStep, TakeMandatory, TakeSpeculative, Sleep, Exit, Read,
                    Scatter, Land, ReadFails, At, NobodyLeft, WakeGraph, cache, stats
<1>10. CASE \/ BeginPass \/ Destroy \/ BeginOp \/ ResolveAbort \/ ResolveDone \/ Predict
            \/ PrefetchResident \/ PrefetchYield \/ PredictDone \/ Promote \/ EndOp
            \/ RecheckWait \/ EndMatmul \/ Finished \/ UNCHANGED vars
  BY <1>4, <1>10 DEF BeginPass, Destroy, BeginOp, ResolveAbort, Resolving, ResolveDone,
                     Predict, PrefetchResident, PrefetchYield, PredictDone, Promote,
                     EndOp, RecheckWait, EndMatmul, Finished, vars, cache, stats
<1>11. QED
  BY <1>5, <1>6, <1>7, <1>8, <1>9, <1>10 DEF Next, GraphStep

\* Every prefetch issued is in the end reported used or wasted, once.
THEOREM PrefetchesAccountedCorrect == Spec => []PrefetchesAccounted
<1>1. Init => AccountInv
  <2> SUFFICES ASSUME Init PROVE AccountInv
    OBVIOUS
  <2>1. slot_spec = {} /\ n_spec = 0 /\ n_spec_used = 0 /\ n_spec_waste = 0
    BY DEF Init, CacheInit
  <2>2. NobodyLeft
    BY DEF Init, CacheInit, NobodyLeft
  <2>3. QED
    BY <2>1, <2>2, InitType, FS_EmptySet DEF AccountInv, PrefetchesAccounted
<1>2. Spec => []AccountInv
  BY <1>1, AccountStep, PTL DEF Spec
<1>3. AccountInv => PrefetchesAccounted
  BY DEF AccountInv
<1>4. QED
  BY <1>2, <1>3, PTL

-----------------------------------------------------------------------------
(* Promotion.                                                              *)

\* An op that waits found nothing to promote, and nothing is queued since.
LEMMA WaitStep == Inv /\ WaitsOnNoSpeculation /\ [Next]_vars => WaitsOnNoSpeculation'
<1> SUFFICES ASSUME Inv, WaitsOnNoSpeculation, [Next]_vars,
                    main' \in {"asleep", "woken"}, NEW i \in 1 .. Len(q_spec')
             PROVE  q_spec'[i].slot \notin wait_slots'
  BY DEF WaitsOnNoSpeculation
<1> USE DEF Inv
<1>1. CASE EndOp
  <2>1. q_spec' = q_spec /\ wait_slots' = wait_slots /\ ~Promotable(i) /\ InOp
    BY <1>1 DEF EndOp, queues, op, InOp
  <2>2. SUFFICES ASSUME q_spec[i].slot \in wait_slots PROVE q_spec[i].key[1] = layer
    BY <2>1 DEF Promotable
  <2>3. PICK k \in 1 .. Len(out) : out[k] = q_spec[i].slot /\ slot_key[out[k]] = <<layer, ids[k]>>
    BY <2>1, <2>2 DEF PoolInv, EmittedHeld
  <2>4. slot_key[q_spec[i].slot] = q_spec[i].key
    BY <2>1 DEF PoolInv, JobsOwned, Owned
  <2>5. QED
    BY <2>3, <2>4
<1>2. CASE RecheckWait \/ UNCHANGED vars
  BY <1>2 DEF RecheckWait, WaitsOnNoSpeculation, vars, queues, op
<1>3. ASSUME NEW w \in Workers, WorkerStep(w), ~TakeSpeculative(w)
      PROVE  UNCHANGED <<q_spec, wait_slots>> /\ main \in {"asleep", "woken"}
  BY <1>3 DEF WorkerStep, TakeMandatory, Sleep, Exit, Read, Scatter, Land, WakeGraph,
              queues, op
<1>4. ASSUME NEW w \in Workers, TakeSpeculative(w)
      PROVE  q_spec'[i].slot \notin wait_slots'
  <2>1. /\ q_spec' = Tail(q_spec) /\ q_spec # <<>> /\ wait_slots' = wait_slots
        /\ main \in {"asleep", "woken"} /\ q_spec \in Seq(Jobs)
    BY <1>4 DEF TakeSpeculative, CanSpec, op, TypeInv, TypeOK
  <2>2. q_spec'[i] = q_spec[i + 1] /\ i + 1 \in 1 .. Len(q_spec)
    BY <2>1, HeadTailProperties
  <2>3. QED
    BY <2>1, <2>2 DEF WaitsOnNoSpeculation
<1>5. CASE Finished
  BY <1>5 DEF Finished, Aborted, vars
<1>6. ASSUME NEW w \in Workers
      PROVE  ~ReadFails(w)
  BY DEF ReadFails
<1>7. ~ \/ BeginPass \/ Destroy \/ BeginOp \/ ResolveHit \/ ResolveMiss \/ ResolveAbort
        \/ ResolveDone \/ Predict \/ PrefetchResident \/ PrefetchMiss \/ PrefetchYield
        \/ PredictDone \/ Promote \/ EndMatmul \/ Joined
  BY DEF BeginPass, Destroy, BeginOp, ResolveHit, ResolveMiss, ResolveAbort,
         ResolveDone, Resolving, Predict, PrefetchResident, PrefetchMiss, PrefetchYield,
         PredictDone, Promote, EndMatmul, Joined
<1>8. QED
  BY <1>1, <1>2, <1>3, <1>4, <1>5, <1>6, <1>7 DEF Next, GraphStep, WaitsOnNoSpeculation

\* No op waits on a fetch that is queued behind speculation: promotion finds all
\* the prefetches the op turned out to need.
THEOREM WaitsOnNoSpeculationCorrect == Spec => []WaitsOnNoSpeculation
<1>1. Init => WaitsOnNoSpeculation
  BY DEF Init, CacheInit, WaitsOnNoSpeculation
<1>2. QED
  BY <1>1, InvCorrect, WaitStep, PTL DEF Spec

-----------------------------------------------------------------------------
(* One owner for each fetch.                                               *)

\* A step that starts no fetch keeps the job of each slot in flight.
LEMMA MoverStep ==
  ASSUME Inv, FlightHasJob, Promote \/ \E w \in Workers : WorkerStep(w)
  PROVE  FlightHasJob'
<1> USE DEF Inv
<1>1. /\ q_mand \in Seq(Jobs) /\ q_spec \in Seq(Jobs)
      /\ Len(q_mand) \in Nat /\ Len(q_spec) \in Nat
  BY DEF TypeInv, TypeOK
<1>2. CASE Promote
  <2>1. PICK i \in 1 .. Len(q_spec) :
          q_mand' = Append(q_mand, q_spec[i]) /\ q_spec' = RemoveJob(q_spec, i)
    BY <1>2 DEF Promote
  <2>2. slot_flight' = slot_flight /\ job' = job
    BY <1>2 DEF Promote, cache, crew
  <2>3. /\ Len(q_mand') = Len(q_mand) + 1
        /\ \A j \in 1 .. Len(q_mand) : q_mand'[j] = q_mand[j]
        /\ q_mand'[Len(q_mand) + 1] = q_spec[i]
    BY <1>1, <2>1, ElementOfSeq
  <2>4. /\ Len(q_spec') = Len(q_spec) - 1
        /\ \A j \in 1 .. Len(q_spec) - 1 :
             q_spec'[j] = IF j < i THEN q_spec[j] ELSE q_spec[j + 1]
    BY <1>1, <2>1, RemoveJobProperties
  <2>5. ASSUME NEW j \in 1 .. Len(q_mand)
        PROVE  j \in 1 .. Len(q_mand') /\ q_mand'[j] = q_mand[j]
    BY <1>1, <2>3
  <2>6. ASSUME NEW j \in 1 .. Len(q_spec)
        PROVE  \/ \E k \in 1 .. Len(q_mand') : q_mand'[k] = q_spec[j]
               \/ \E k \in 1 .. Len(q_spec') : q_spec'[k] = q_spec[j]
    <3>1. CASE j = i
      BY <1>1, <2>3, <3>1
    <3>2. CASE j < i
      <4>1. j \in 1 .. Len(q_spec) - 1
        BY <1>1, <3>2
      <4>2. j \in 1 .. Len(q_spec') /\ q_spec'[j] = q_spec[j]
        BY <2>4, <3>2, <4>1
      <4>3. QED
        BY <4>2
    <3>3. CASE j > i
      <4>1. j - 1 \in 1 .. Len(q_spec') /\ q_spec'[j - 1] = q_spec[j]
        BY <1>1, <2>4, <3>3
      <4>2. QED
        BY <4>1
    <3>4. QED
      BY <3>1, <3>2, <3>3
  <2>7. SUFFICES ASSUME NEW s \in slot_flight
                 PROVE  \/ \E k \in 1 .. Len(q_mand') : q_mand'[k].slot = s
                        \/ \E k \in 1 .. Len(q_spec') : q_spec'[k].slot = s
                        \/ \E w \in Workers : Busy(w) /\ job[w].slot = s
    BY <2>2 DEF FlightHasJob, Busy
  <2>8. CASE \E j \in 1 .. Len(q_mand) : q_mand[j].slot = s
    <3>1. PICK j \in 1 .. Len(q_mand) : q_mand[j].slot = s
      BY <2>8
    <3>2. QED
      BY <2>5, <3>1
  <2>9. CASE \E j \in 1 .. Len(q_spec) : q_spec[j].slot = s
    <3>1. PICK j \in 1 .. Len(q_spec) : q_spec[j].slot = s
      BY <2>9
    <3>2. QED
      BY <2>6, <3>1
  <2>10. QED
    BY <2>8, <2>9 DEF FlightHasJob
<1>3. ASSUME NEW w \in Workers, TakeMandatory(w)
      PROVE  FlightHasJob'
  <2>1. /\ q_mand # <<>> /\ q_mand' = Tail(q_mand) /\ q_spec' = q_spec
        /\ job'[w] = q_mand[1] /\ slot_flight' = slot_flight
        /\ worker[w] = "ready" /\ worker'[w] = "read"
        /\ \A v \in Workers : v # w => job'[v] = job[v]
    BY <1>3 DEF TakeMandatory, At, cache, TypeInv, TypeOK
  <2>2. /\ ~Busy(w) /\ Busy(w)' /\ \A v \in Workers : v # w => (Busy(v)' <=> Busy(v))
    BY <2>1, NextTypes, <1>3 DEF Busy, TypeInv, BusyHasJob, Next, WorkerStep
  <2>3. ASSUME NEW j \in 1 .. Len(q_mand), j # 1
        PROVE  j - 1 \in 1 .. Len(q_mand') /\ q_mand'[j - 1] = q_mand[j]
    <3>1. /\ Len(q_mand') = Len(q_mand) - 1
          /\ \A i \in 1 .. Len(q_mand) - 1 : q_mand'[i] = q_mand[i + 1]
      BY <1>1, <2>1, HeadTailProperties
    <3>2. QED
      BY <1>1, <2>3, <3>1
  <2>4. SUFFICES ASSUME NEW s \in slot_flight
                 PROVE  \/ \E k \in 1 .. Len(q_mand') : q_mand'[k].slot = s
                        \/ \E k \in 1 .. Len(q_spec) : q_spec[k].slot = s
                        \/ \E v \in Workers : Busy(v)' /\ job'[v].slot = s
    BY <2>1 DEF FlightHasJob
  <2>5. CASE \E j \in 1 .. Len(q_mand) : q_mand[j].slot = s
    <3>1. PICK j \in 1 .. Len(q_mand) : q_mand[j].slot = s
      BY <2>5
    <3>2. CASE j = 1
      BY <2>1, <2>2, <3>1, <3>2
    <3>3. CASE j # 1
      BY <2>3, <3>1, <3>3
    <3>4. QED
      BY <3>2, <3>3
  <2>6. CASE \E v \in Workers : Busy(v) /\ job[v].slot = s
    BY <2>1, <2>2, <2>6
  <2>7. QED
    BY <2>5, <2>6 DEF FlightHasJob
<1>4. ASSUME NEW w \in Workers, TakeSpeculative(w)
      PROVE  FlightHasJob'
  <2>1. /\ q_spec # <<>> /\ q_spec' = Tail(q_spec) /\ q_mand' = q_mand
        /\ job'[w] = q_spec[1] /\ slot_flight' = slot_flight
        /\ worker[w] = "ready" /\ worker'[w] = "read"
        /\ \A v \in Workers : v # w => job'[v] = job[v]
    BY <1>4 DEF TakeSpeculative, CanSpec, At, cache, TypeInv, TypeOK
  <2>2. /\ ~Busy(w) /\ Busy(w)' /\ \A v \in Workers : v # w => (Busy(v)' <=> Busy(v))
    BY <2>1, NextTypes, <1>4 DEF Busy, TypeInv, BusyHasJob, Next, WorkerStep
  <2>3. ASSUME NEW j \in 1 .. Len(q_spec), j # 1
        PROVE  j - 1 \in 1 .. Len(q_spec') /\ q_spec'[j - 1] = q_spec[j]
    <3>1. /\ Len(q_spec') = Len(q_spec) - 1
          /\ \A i \in 1 .. Len(q_spec) - 1 : q_spec'[i] = q_spec[i + 1]
      BY <1>1, <2>1, HeadTailProperties
    <3>2. QED
      BY <1>1, <2>3, <3>1
  <2>4. SUFFICES ASSUME NEW s \in slot_flight
                 PROVE  \/ \E k \in 1 .. Len(q_spec') : q_spec'[k].slot = s
                        \/ \E k \in 1 .. Len(q_mand) : q_mand[k].slot = s
                        \/ \E v \in Workers : Busy(v)' /\ job'[v].slot = s
    BY <2>1 DEF FlightHasJob
  <2>5. CASE \E j \in 1 .. Len(q_spec) : q_spec[j].slot = s
    <3>1. PICK j \in 1 .. Len(q_spec) : q_spec[j].slot = s
      BY <2>5
    <3>2. CASE j = 1
      BY <2>1, <2>2, <3>1, <3>2
    <3>3. CASE j # 1
      BY <2>3, <3>1, <3>3
    <3>4. QED
      BY <3>2, <3>3
  <2>6. CASE \E v \in Workers : Busy(v) /\ job[v].slot = s
    BY <2>1, <2>2, <2>6
  <2>7. QED
    BY <2>5, <2>6 DEF FlightHasJob
<1>5. ASSUME NEW w \in Workers, Land(w)
      PROVE  FlightHasJob'
  <2>1. /\ q_mand' = q_mand /\ q_spec' = q_spec
        /\ slot_flight' = slot_flight \ {job[w].slot}
        /\ \A v \in Workers : v # w => job'[v] = job[v]
    BY <1>5 DEF Land, queues, TypeInv, TypeOK
  <2>2. QED
    BY <2>1 DEF FlightHasJob, Busy
<1>6. ASSUME NEW w \in Workers, Sleep(w) \/ Exit(w) \/ Read(w) \/ Scatter(w)
      PROVE  FlightHasJob'
  BY <1>6 DEF Sleep, Exit, Read, Scatter, cache, queues, FlightHasJob, Busy
<1>7. QED
  BY <1>2, <1>3, <1>4, <1>5, <1>6 DEF WorkerStep

LEMMA HasJobStep == Inv /\ FlightHasJob /\ [Next]_vars => FlightHasJob'
<1> SUFFICES ASSUME Inv, FlightHasJob, [Next]_vars PROVE FlightHasJob'
  OBVIOUS
<1>1. CASE Promote \/ \E w \in Workers : WorkerStep(w)
  BY <1>1, MoverStep
<1>2. CASE UNCHANGED <<q_mand, q_spec, job, slot_flight>>
  BY <1>2 DEF FlightHasJob, Busy
<1>3. /\ q_mand \in Seq(Jobs) /\ q_spec \in Seq(Jobs)
      /\ Len(q_mand) \in Nat /\ Len(q_spec) \in Nat
  BY DEF Inv, TypeInv, TypeOK
<1>4. CASE ResolveMiss
  <2>1. PICK s \in Slots : /\ slot_flight' = slot_flight \cup {s}
                           /\ q_mand' = Append(q_mand, [key |-> Wanted, slot |-> s])
    BY <1>4 DEF ResolveMiss
  <2>2. q_spec' = q_spec /\ job' = job
    BY <1>4 DEF ResolveMiss, crew
  <2>3. /\ Len(q_mand') = Len(q_mand) + 1 /\ q_mand'[Len(q_mand) + 1].slot = s
        /\ \A j \in 1 .. Len(q_mand) : q_mand'[j] = q_mand[j]
    BY <1>3, <2>1
  <2>4. /\ Len(q_mand) + 1 \in 1 .. Len(q_mand')
        /\ \A j \in 1 .. Len(q_mand) : j \in 1 .. Len(q_mand')
    BY <1>3, <2>3
  <2>5. QED
    BY <2>1, <2>2, <2>3, <2>4 DEF FlightHasJob, Busy
<1>5. CASE PrefetchMiss
  <2>1. PICK s \in Slots : /\ slot_flight' = slot_flight \cup {s}
                           /\ q_spec' = Append(q_spec, [key |-> Predicted, slot |-> s])
    BY <1>5 DEF PrefetchMiss
  <2>2. q_mand' = q_mand /\ job' = job
    BY <1>5 DEF PrefetchMiss, crew
  <2>3. /\ Len(q_spec') = Len(q_spec) + 1 /\ q_spec'[Len(q_spec) + 1].slot = s
        /\ \A j \in 1 .. Len(q_spec) : q_spec'[j] = q_spec[j]
    BY <1>3, <2>1
  <2>4. /\ Len(q_spec) + 1 \in 1 .. Len(q_spec')
        /\ \A j \in 1 .. Len(q_spec) : j \in 1 .. Len(q_spec')
    BY <1>3, <2>3
  <2>5. QED
    BY <2>1, <2>2, <2>3, <2>4 DEF FlightHasJob, Busy
<1>6. CASE \/ BeginPass \/ Destroy \/ BeginOp \/ ResolveHit \/ ResolveAbort \/ ResolveDone
           \/ Predict \/ PrefetchResident \/ PrefetchYield \/ PredictDone \/ EndOp
           \/ RecheckWait \/ EndMatmul \/ Joined \/ Finished \/ UNCHANGED vars
           \/ \E w \in Workers : ReadFails(w)
  BY <1>2, <1>6 DEF BeginPass, Destroy, BeginOp, ResolveHit, ResolveAbort, ResolveDone,
     Predict, PrefetchResident, PrefetchYield, PredictDone, EndOp, RecheckWait, EndMatmul,
     Joined, Finished, ReadFails, vars, cache, queues, crew
<1>7. QED
  BY <1>1, <1>4, <1>5, <1>6 DEF Next, GraphStep

\* Jobs are owned, distinct and not missing, so that each slot in flight is counted
\* once.
LEMMA InvOneOwner == Inv /\ FlightHasJob => OneOwner
<1> SUFFICES ASSUME Inv, FlightHasJob, NEW s \in Slots
             PROVE  Cardinality(Owners(s)) = (IF s \in slot_flight THEN 1 ELSE 0)
  BY DEF OneOwner
<1> USE DEF Inv, PoolInv
<1>1. CASE s \notin slot_flight
  <2>1. Owners(s) = {}
    BY <1>1 DEF Owners, JobsOwned, Owned, Busy
  <2>2. QED
    BY <1>1, <2>1, FS_EmptySet
<1>2. ASSUME NEW o, Owners(s) = {o}, s \in slot_flight
      PROVE  Cardinality(Owners(s)) = (IF s \in slot_flight THEN 1 ELSE 0)
  BY <1>2, FS_Singleton
<1>3. ASSUME NEW i \in 1 .. Len(q_mand), q_mand[i].slot = s
      PROVE  Owners(s) = {<<"mand", i>>}
  <2>1. {j \in 1 .. Len(q_mand) : q_mand[j].slot = s} = {i}
    BY <1>3 DEF JobsDistinct
  <2>2. {j \in 1 .. Len(q_spec) : q_spec[j].slot = s} = {}
    BY <1>3 DEF JobsDistinct
  <2>3. {w \in Workers : job[w] # NoJob /\ job[w].slot = s} = {}
    BY <1>3 DEF JobsDistinct, Busy
  <2>4. QED
    BY <2>1, <2>2, <2>3 DEF Owners
<1>4. ASSUME NEW i \in 1 .. Len(q_spec), q_spec[i].slot = s
      PROVE  Owners(s) = {<<"spec", i>>}
  <2>1. {j \in 1 .. Len(q_mand) : q_mand[j].slot = s} = {}
    BY <1>4 DEF JobsDistinct
  <2>2. {j \in 1 .. Len(q_spec) : q_spec[j].slot = s} = {i}
    BY <1>4 DEF JobsDistinct
  <2>3. {w \in Workers : job[w] # NoJob /\ job[w].slot = s} = {}
    BY <1>4 DEF JobsDistinct, Busy
  <2>4. QED
    BY <2>1, <2>2, <2>3 DEF Owners
<1>5. ASSUME NEW w \in Workers, Busy(w), job[w].slot = s
      PROVE  Owners(s) = {<<"worker", w>>}
  <2>1. {j \in 1 .. Len(q_mand) : q_mand[j].slot = s} = {}
    BY <1>5 DEF JobsDistinct
  <2>2. {j \in 1 .. Len(q_spec) : q_spec[j].slot = s} = {}
    BY <1>5 DEF JobsDistinct
  <2>3. {v \in Workers : job[v] # NoJob /\ job[v].slot = s} = {w}
    BY <1>5 DEF JobsDistinct, Busy
  <2>4. QED
    BY <2>1, <2>2, <2>3 DEF Owners
<1>6. QED
  BY <1>1, <1>2, <1>3, <1>4, <1>5 DEF FlightHasJob

\* A slot is in flight exactly while one job for it exists: no two readers ever
\* write one slot, and no op waits for a flag that nobody will clear.
THEOREM OneOwnerCorrect == Spec => []OneOwner
<1>1. Init => FlightHasJob
  BY DEF Init, CacheInit, FlightHasJob
<1>2. Spec => [](Inv /\ FlightHasJob)
  BY <1>1, InvCorrect, HasJobStep, PTL DEF Spec
<1>3. QED
  BY <1>2, InvOneOwner, PTL

-----------------------------------------------------------------------------
(* The abort.                                                              *)

LEMMA PinnedStep == Inv /\ PinnedEmitted /\ [Next]_vars => PinnedEmitted'
<1> SUFFICES ASSUME Inv, PinnedEmitted, [Next]_vars, main' = "resolve",
                    NEW t \in pinned'
             PROVE  \E i \in 1 .. Len(out') : out'[i] = t
  BY DEF PinnedEmitted
<1>1. out \in Seq(Slots) /\ Len(out) \in Nat
  BY DEF Inv, TypeInv, TypeOK
<1>2. ASSUME NEW s \in Slots, Emit(s), main = "resolve"
      PROVE  \E i \in 1 .. Len(out') : out'[i] = t
  <2>1. /\ Len(out') = Len(out) + 1 /\ out'[Len(out) + 1] = s
        /\ \A i \in 1 .. Len(out) : out'[i] = out[i]
    BY <1>1, <1>2 DEF Emit
  <2>2. CASE t = s
    BY <1>1, <2>1, <2>2
  <2>3. CASE t # s
    <3>1. PICK i \in 1 .. Len(out) : out[i] = t
      BY <1>2, <2>3 DEF Emit, PinnedEmitted
    <3>2. i \in 1 .. Len(out') /\ out'[i] = t
      BY <1>1, <2>1, <3>1
    <3>3. QED
      BY <3>2
  <2>4. QED
    BY <2>2, <2>3
<1>3. CASE ResolveHit
  <2>1. where[Wanted] \in Slots /\ Emit(where[Wanted]) /\ main = "resolve"
    BY <1>3, WantedType DEF ResolveHit, Resolving, Inv, TypeInv, TypeOK
  <2>2. QED
    BY <1>2, <2>1
<1>4. CASE ResolveMiss
  BY <1>2, <1>4 DEF ResolveMiss, Resolving
<1>5. CASE BeginOp
  BY <1>5 DEF BeginOp
<1>6. CASE UNCHANGED <<pinned, out>> /\ main = "resolve"
  BY <1>6 DEF PinnedEmitted
<1>7. ASSUME NEW w \in Workers, WorkerStep(w)
      PROVE  UNCHANGED <<pinned, out>> /\ main = "resolve"
  BY <1>7 DEF WorkerStep, TakeMandatory, TakeSpeculative, Sleep, Exit, Read, Scatter,
              Land, WakeGraph, cache, op
<1>8. CASE UNCHANGED vars \/ Finished
  BY <1>6, <1>8 DEF vars, Finished, cache, op
<1>9. ~ \/ BeginPass \/ Destroy \/ ResolveAbort \/ ResolveDone \/ Predict
        \/ PrefetchResident \/ PrefetchMiss \/ PrefetchYield \/ PredictDone \/ Promote
        \/ EndOp \/ RecheckWait \/ EndMatmul \/ Joined \/ \E w \in Workers : ReadFails(w)
  BY DEF BeginPass, Destroy, ResolveAbort, ResolveDone, Predict, PrefetchResident,
         PrefetchMiss, PrefetchYield, PredictDone, Promote, EndOp, RecheckWait, EndMatmul,
         Joined, ReadFails
<1>10. QED
  BY <1>3, <1>4, <1>5, <1>6, <1>7, <1>8, <1>9 DEF Next, GraphStep

\* An op that finds no victim has pinned or is fetching into every slot of the
\* group; the pinned ones hold different experts of its layer, and the expert it
\* wants is one more.
LEMMA AbortMeansFull ==
  ASSUME Inv, PinnedEmitted, ResolveAbort
  PROVE  LET g == GroupOf[layer]
         IN NSlots[g] < Cardinality({ids[i] : i \in 1 .. Len(ids)})
                         + Cardinality({s \in SlotsOf(g) : s \in slot_flight /\ s \notin pinned})
<1> USE DEF Inv, TypeInv, PoolInv
<1> DEFINE g == GroupOf[layer]
           distinct == {ids[i] : i \in 1 .. Len(ids)}
           others == distinct \ {Wanted[2]}
           flying == {s \in SlotsOf(g) : s \in slot_flight /\ s \notin pinned}
           held == SlotsOf(g) \ flying
           f == [s \in held |-> slot_key[s][2]]
<1>1. /\ main = "resolve" /\ InOp /\ where[Wanted] = NoSlot /\ NoVictim(g)
      /\ Wanted \in Keys /\ Wanted = <<layer, Wanted[2]>> /\ g \in Groups
  BY WantedType, GeometryAssumption
     DEF ResolveAbort, Resolving, InOp, Wanted, TypeOK, Layers
<1>2. ASSUME NEW s \in held
      PROVE  /\ s \in Slots /\ slot_key[s] \in Keys /\ slot_key[s] # Wanted
             /\ slot_key[s] = <<layer, slot_key[s][2]>> /\ slot_key[s][2] \in distinct
  <2>1. s \in Slots /\ slot_key[s] # NoKey /\ s \in pinned
    BY <1>1 DEF NoVictim, Empty, Evictable, SlotsOf, TypeOK
  <2>2. PICK i \in 1 .. Len(out) : out[i] = s
    BY <1>1, <2>1 DEF PinnedEmitted
  <2>3. i \in 1 .. Len(ids) /\ slot_key[s] = <<layer, ids[i]>>
    BY <1>1, <2>2 DEF EmittedHeld
  <2>4. slot_key[s] \in Keys /\ where[slot_key[s]] = s
    BY <2>1 DEF TypeOK, MapsAgree
  <2>5. slot_key[s] # Wanted
    BY <1>1, <2>1, <2>4, NullAssumption
  <2>6. slot_key[s][2] \in distinct
    BY <2>3
  <2>7. QED
    BY <2>1, <2>3, <2>4, <2>5, <2>6 DEF Keys
<1>3. f \in Injection(held, others)
  <2>1. f \in [held -> others]
    BY <1>1, <1>2
  <2>2. ASSUME NEW s \in held, NEW t \in held, f[s] = f[t]
        PROVE  s = t
    <3>1. slot_key[s] = slot_key[t]
      BY <1>2, <2>2
    <3>2. slot_key[s] # NoKey /\ slot_key[t] # NoKey
      BY <1>2, NullAssumption
    <3>3. QED
      BY <1>2, <3>1, <3>2 DEF MapsAgree
  <2>3. QED
    BY <2>1, <2>2 DEF Injection, IsInjective
<1>4. IsFiniteSet(distinct)
  <2> DEFINE id == [i \in 1 .. Len(ids) |-> ids[i]]
  <2>1. IsFiniteSet(1 .. Len(ids))
    BY FS_Interval DEF TypeOK
  <2>2. id \in Surjection(1 .. Len(ids), distinct)
    BY DEF Surjection
  <2>3. QED
    BY <2>1, <2>2, FS_Surjection
<1>5. /\ IsFiniteSet(others) /\ Cardinality(distinct) \in Nat
      /\ Cardinality(others) = Cardinality(distinct) - 1
  <2>1. Wanted[2] \in distinct
    BY DEF ResolveAbort, Resolving, Wanted, TypeOK
  <2> HIDE DEF distinct
  <2>2. Cardinality(distinct) \in Nat
    BY <1>4, FS_CardinalityType
  <2>3. /\ IsFiniteSet(distinct \ {Wanted[2]})
        /\ Cardinality(distinct \ {Wanted[2]}) = Cardinality(distinct) - 1
    BY <1>4, <2>1, FS_RemoveElement
  <2>4. QED
    BY <2>2, <2>3
<1>6. /\ IsFiniteSet(held) /\ Cardinality(flying) \in Nat /\ NSlots[g] \in Nat
      /\ Cardinality(held) = NSlots[g] - Cardinality(flying)
  <2>1. IsFiniteSet(SlotsOf(g)) /\ Cardinality(SlotsOf(g)) = NSlots[g]
    BY <1>1, SlotsCount
  <2>2. flying \subseteq SlotsOf(g) /\ SlotsOf(g) \cap flying = flying
    OBVIOUS
  <2>3. IsFiniteSet(flying) /\ Cardinality(flying) \in Nat
    BY <2>1, <2>2, FS_Subset, FS_CardinalityType
  <2>4. NSlots[g] \in Nat
    BY <1>1, GeometryAssumption
  <2> HIDE DEF flying
  <2>5. /\ IsFiniteSet(SlotsOf(g) \ flying)
        /\ Cardinality(SlotsOf(g) \ flying)
             = Cardinality(SlotsOf(g)) - Cardinality(SlotsOf(g) \cap flying)
    BY <2>1, FS_Difference
  <2>6. QED
    BY <2>1, <2>2, <2>3, <2>4, <2>5
<1> HIDE DEF f, others, held, distinct, flying
<1>7. Cardinality(held) <= Cardinality(others)
  BY <1>3, <1>5, <1>6, FS_Injection
<1>8. NSlots[g] < Cardinality(distinct) + Cardinality(flying)
  BY <1>5, <1>6, <1>7
<1>9. QED
  BY <1>8 DEF distinct, flying

LEMMA AbortStep ==
  Inv /\ PinnedEmitted /\ AbortOnlyUnderSpeculation /\ [Next]_vars
    => AbortOnlyUnderSpeculation'
<1> SUFFICES ASSUME Inv, PinnedEmitted, AbortOnlyUnderSpeculation, [Next]_vars,
                    main' = "cache_abort"
             PROVE  AbortOnlyUnderSpeculation'
  BY DEF AbortOnlyUnderSpeculation
<1>1. /\ UNCHANGED <<ids, layer, slot_flight, pinned>>
      /\ ResolveAbort \/ main = "cache_abort"
  <2>1. CASE UNCHANGED vars \/ Finished
    BY <2>1 DEF vars, Finished, cache, op
  <2>2. CASE ResolveAbort
    BY <2>2 DEF ResolveAbort, cache, op
  <2>3. ASSUME NEW w \in Workers
        PROVE  ~WorkerStep(w) /\ ~ReadFails(w)
    BY DEF WorkerStep, TakeMandatory, TakeSpeculative, Sleep, Exit, Read, Scatter, Land,
           ReadFails, WakeGraph, At, Aborted
  <2>4. ~ \/ BeginPass \/ Destroy \/ BeginOp \/ ResolveHit \/ ResolveMiss \/ ResolveDone
          \/ Predict \/ PrefetchResident \/ PrefetchMiss \/ PrefetchYield \/ PredictDone
          \/ Promote \/ EndOp \/ RecheckWait \/ EndMatmul \/ Joined
    BY DEF BeginPass, Destroy, BeginOp, ResolveHit, ResolveMiss, ResolveDone, Resolving,
           Predict, PrefetchResident, PrefetchMiss, PrefetchYield, PredictDone, Promote,
           EndOp, RecheckWait, EndMatmul, Joined
  <2>5. QED
    BY <2>1, <2>2, <2>3, <2>4 DEF Next, GraphStep
<1>2. LET g == GroupOf[layer]
      IN NSlots[g] < Cardinality({ids[i] : i \in 1 .. Len(ids)})
                      + Cardinality({s \in SlotsOf(g) : s \in slot_flight /\ s \notin pinned})
  BY <1>1, AbortMeansFull DEF AbortOnlyUnderSpeculation
<1>3. QED
  BY <1>1, <1>2 DEF AbortOnlyUnderSpeculation

\* The abort for want of a victim needs a group whose slots are fewer than the
\* op's experts and the prefetches in flight together.
THEOREM AbortOnlyUnderSpeculationCorrect == Spec => []AbortOnlyUnderSpeculation
<1>1. Init => PinnedEmitted /\ AbortOnlyUnderSpeculation
  BY DEF Init, PinnedEmitted, AbortOnlyUnderSpeculation
<1>2. Spec => [](Inv /\ PinnedEmitted /\ AbortOnlyUnderSpeculation)
  BY <1>1, InvCorrect, PinnedStep, AbortStep, PTL DEF Spec
<1>3. QED
  BY <1>2, PTL
=============================================================================
