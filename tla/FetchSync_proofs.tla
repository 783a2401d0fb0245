--------------------------- MODULE FetchSync_proofs ---------------------------
(***************************************************************************)
(* Proofs about the synchronous fetch path, and that its cache is the one  *)
(* the simulator of the budget simulates, for every value of their         *)
(* constants.                                                              *)
(***************************************************************************)
EXTENDS FetchSyncStore, FetchSyncSim, SlotCache_proofs, SeqFolds_proofs

Inv == TypeOK /\ SyncInv

\* The key an op resolves next is a key.
LEMMA WantedType ==
  ASSUME TypeOK, Resolving
  PROVE  Wanted \in Keys /\ Wanted[1] = layer
<1>1. Len(out) + 1 \in 1 .. Len(ids)
  BY DEF TypeOK, Resolving
<1>2. QED
  BY <1>1 DEF Wanted, TypeOK, Keys

\* What a reader fetches is a miss.
LEMMA DrawnType ==
  ASSUME Inv, NEW r \in Readers, Fetching(r)
  PROVE  drawn[r] \in 1 .. Len(misses) /\ misses[drawn[r]] \in Misses
  BY ElementOfSeq DEF Inv, SyncInv, ReadersRight, TypeOK

-----------------------------------------------------------------------------
(* Types.                                                                  *)

LEMMA InitType == Init => TypeOK
  BY EmptySeq, GeometryAssumption DEF Init, CacheInit, TypeOK, Layers

LEMMA NextType == Inv /\ [Next]_vars => TypeOK'
<1> SUFFICES ASSUME Inv, [Next]_vars PROVE TypeOK'
  OBVIOUS
<1>1. TypeOK
  BY DEF Inv
<1>2. CASE BeginPass
  BY <1>1, <1>2, SizeAssumption, GeometryAssumption
     DEF BeginPass, TypeOK, Layers, cache, crew
<1>3. CASE BeginOp
  <2>1. ids' \in Seq(Experts)
    BY <1>1, <1>3, TopKType, SizeAssumption DEF BeginOp, TypeOK
  <2>2. QED
    BY <1>1, <1>3, <2>1 DEF BeginOp, TypeOK, crew
<1>4. ASSUME NEW s \in Slots, Emit(s)
      PROVE  /\ slot_used' \in [Slots -> Nat]
             /\ pinned' \subseteq Slots
             /\ out' \in Seq(Slots)
  BY <1>1, <1>4, TouchType DEF Emit, TypeOK
<1>5. CASE ResolveHit
  <2>1. where[Wanted] \in Slots
    BY <1>1, <1>5, WantedType DEF ResolveHit, TypeOK
  <2>2. QED
    BY <1>1, <1>4, <1>5, <2>1 DEF ResolveHit, TypeOK, crew
<1>6. CASE ResolveMiss
  <2>1. Wanted \in Keys
    BY <1>1, <1>6, WantedType DEF ResolveMiss
  <2>2. PICK s \in Slots :
          /\ slot_key' = [slot_key EXCEPT ![s] = Wanted]
          /\ where' = Remap(s, Wanted)
          /\ misses' = Append(misses, [key |-> Wanted, slot |-> s])
          /\ Emit(s)
    BY <1>6 DEF ResolveMiss
  <2>3. where' \in [Keys -> Slots \cup {NoSlot}]
    BY <1>1, <2>1, <2>2, RemapType DEF TypeOK
  <2>4. misses' \in Seq(Misses)
    BY <1>1, <2>1, <2>2 DEF TypeOK, Misses
  <2>5. slot_key' \in [Slots -> Keys \cup {NoKey}]
    BY <1>1, <2>1, <2>2 DEF TypeOK
  <2>6. QED
    BY <1>1, <1>4, <1>6, <2>2, <2>3, <2>4, <2>5 DEF ResolveMiss, TypeOK, crew
<1>7. CASE ResolveAbort \/ ResolveDone \/ Joined \/ Destroy
  BY <1>1, <1>7 DEF ResolveAbort, ResolveDone, Joined, Destroy, TypeOK, cache, op, crew
<1>8. CASE EndMatmul
  <2>1. layer' \in Layers
    BY <1>1, <1>8, GeometryAssumption DEF EndMatmul, TypeOK, Layers
  <2>2. QED
    BY <1>1, <1>8, <2>1, EmptySeq DEF EndMatmul, TypeOK, cache
<1>9. ASSUME NEW r \in Readers, Draw(r) \/ Quit(r) \/ ReadFails(r)
      PROVE  TypeOK'
  <2>1. CASE Draw(r)
    BY <1>1, <2>1 DEF Draw, At, TypeOK, cache, op
  <2>2. CASE Quit(r)
    BY <1>1, <2>2 DEF Quit, At, TypeOK, cache, op
  <2>3. CASE ReadFails(r)
    BY <1>1, <2>3 DEF ReadFails, At, TypeOK, cache, op, crew
  <2>4. QED
    BY <1>9, <2>1, <2>2, <2>3
<1>10. ASSUME NEW r \in Readers, Read(r)
       PROVE  TypeOK'
  <2>1. misses[drawn[r]] \in Misses
    BY <1>10, DrawnType DEF Read, At, Fetching
  <2>2. QED
    BY <1>1, <1>10, <2>1 DEF Read, At, Slice, TypeOK, Misses, cache, op
<1>11. ASSUME NEW r \in Readers, Scatter(r)
       PROVE  TypeOK'
  <2>1. misses[drawn[r]] \in Misses
    BY <1>11, DrawnType DEF Scatter, At, Fetching
  <2>2. QED
    BY <1>1, <1>11, <2>1 DEF Scatter, At, Slice, TypeOK, Misses, cache, op
<1>12. CASE Finished \/ UNCHANGED vars
  BY <1>1, <1>12 DEF Finished, vars, TypeOK, cache, op, crew
<1>13. QED
  BY <1>2, <1>3, <1>5, <1>6, <1>7, <1>8, <1>9, <1>10, <1>11, <1>12
     DEF Next, GraphStep, ReaderStep

-----------------------------------------------------------------------------
(* The cache is right.                                                     *)

LEMMA InitSync == Init => SyncInv
<1> SUFFICES ASSUME Init PROVE SyncInv
  OBVIOUS
<1>1. MapsAgree /\ LoadedOrPending
  BY DEF Init, CacheInit, MapsAgree, LoadedOrPending
<1>2. EmittedHeld /\ MissesHeld /\ ReadersRight
  BY DEF Init, EmittedHeld, MissesHeld, ReadersRight, InOp, AllDone, Fetching
<1>3. QED
  BY <1>1, <1>2 DEF SyncInv

\* Steps that move the graph thread over the boundaries of an op.
LEMMA BoundarySteps ==
  ASSUME Inv, BeginPass \/ BeginOp \/ EndMatmul \/ Destroy \/ Finished \/ UNCHANGED vars
  PROVE  SyncInv'
<1> USE DEF Inv, SyncInv
<1>1. MapsAgree'
  BY DEF MapsAgree, BeginPass, BeginOp, EndMatmul, Destroy, Finished, vars, cache
<1>2. /\ UNCHANGED <<slot_key, pool, reader, drawn, bounce>>
      /\ Aborted => Aborted'
      /\ ~Aborted => main \in {"idle", "graph", "resolve", "fetch", "matmul", "destroyed"}
  BY DEF BeginPass, BeginOp, EndMatmul, Destroy, Finished, vars, cache, crew, TypeOK,
         Aborted
<1>3. LoadedOrPending'
  <2>1. CASE BeginPass \/ BeginOp \/ EndMatmul \/ Destroy
    <3>1. main \in {"idle", "graph", "matmul"} /\ ~Aborted
      BY <2>1 DEF BeginPass, BeginOp, EndMatmul, Destroy, Aborted
    <3>2. \A s \in Slots : slot_key[s] # NoKey => pool[s] = slot_key[s]
      BY <3>1 DEF LoadedOrPending, Pending
    <3>3. QED
      BY <1>2, <3>2 DEF LoadedOrPending
  <2>2. CASE Finished \/ UNCHANGED vars
    BY <2>2 DEF LoadedOrPending, Pending, Fetching, Finished, vars, cache, op,
                crew, Aborted
  <2>3. QED
    BY <2>1, <2>2
<1>4. EmittedHeld' /\ MissesHeld'
  <2>1. CASE BeginPass \/ EndMatmul \/ Destroy
    BY <2>1 DEF EmittedHeld, MissesHeld, InOp, BeginPass, EndMatmul, Destroy, cache, op
  <2>2. CASE BeginOp
    <3>1. /\ main' = "resolve" /\ out' = <<>> /\ misses' = <<>> /\ pinned' = {}
          /\ ids' \in Seq(Experts)
      BY <2>2, NextType DEF EmittedHeld, BeginOp, Next, GraphStep, TypeOK
    <3>2. Len(out') = 0 /\ Len(misses') = 0 /\ Len(ids') \in Nat
      BY <3>1
    <3>3. QED
      BY <3>1, <3>2 DEF EmittedHeld, MissesHeld, InOp
  <2>3. CASE Finished \/ UNCHANGED vars
    <3>1. UNCHANGED <<slot_key, pinned, main, layer, ids, out, misses>>
      BY <2>3 DEF Finished, vars, cache, op
    <3>2. InOp' = InOp
      BY <3>1 DEF InOp
    <3>3. EmittedHeld'
      BY <3>1, <3>2 DEF EmittedHeld
    <3>4. MissesHeld'
      BY <3>1, <3>2 DEF MissesHeld
    <3>5. QED
      BY <3>3, <3>4
  <2>4. QED
    BY <2>1, <2>2, <2>3
<1>6. ReadersRight'
  BY DEF ReadersRight, AllDone, Fetching, BeginPass, BeginOp, EndMatmul, Destroy,
         Finished, vars, crew, TypeOK, Aborted
<1>7. QED
  BY <1>1, <1>3, <1>4, <1>6

\* Emitting a slot that holds the wanted key keeps what was emitted.
LEMMA EmitHolds ==
  ASSUME Inv, Resolving, NEW s \in Slots, Emit(s), slot_key'[s] = Wanted,
         \A t \in pinned : slot_key'[t] = slot_key[t],
         UNCHANGED <<main, layer, ids>>
  PROVE  EmittedHeld'
<1> USE DEF Inv, SyncInv
<1>1. /\ out \in Seq(Slots) /\ out' = Append(out, s) /\ pinned' = pinned \cup {s}
      /\ main = "resolve" /\ InOp /\ Len(out) < Len(ids) /\ Len(ids) \in Nat
  BY DEF Resolving, Emit, TypeOK, InOp
<1>2. /\ Len(out') = Len(out) + 1 /\ Len(out) \in Nat
      /\ \A i \in 1 .. Len(out) : out'[i] = out[i]
      /\ out'[Len(out) + 1] = s
  BY <1>1
<1>3. ASSUME NEW i \in 1 .. Len(out')
      PROVE  slot_key'[out'[i]] = <<layer, ids[i]>>
  <2>1. CASE i = Len(out) + 1
    BY <1>2, <2>1 DEF Wanted
  <2>2. CASE i \in 1 .. Len(out)
    <3>1. slot_key[out[i]] = <<layer, ids[i]>> /\ out[i] \in pinned
      BY <1>1, <2>2 DEF EmittedHeld
    <3>2. QED
      BY <1>2, <2>2, <3>1
  <2>3. QED
    BY <1>2, <2>1, <2>2
<1>4. pinned' = {out'[i] : i \in 1 .. Len(out')}
  <2>1. pinned = {out[i] : i \in 1 .. Len(out)}
    BY <1>1 DEF EmittedHeld
  <2>2. ASSUME NEW t \in pinned'
        PROVE  \E i \in 1 .. Len(out') : out'[i] = t
    <3>1. CASE t = s
      BY <1>2, <3>1
    <3>2. CASE t \in pinned
      <4>1. PICK i \in 1 .. Len(out) : out[i] = t
        BY <2>1, <3>2
      <4>2. i \in 1 .. Len(out') /\ out'[i] = t
        BY <1>2, <4>1
      <4>3. QED
        BY <4>2
    <3>3. QED
      BY <1>1, <2>2, <3>1, <3>2
  <2>3. ASSUME NEW i \in 1 .. Len(out')
        PROVE  out'[i] \in pinned'
    <3>1. CASE i = Len(out) + 1
      BY <1>1, <1>2, <3>1
    <3>2. CASE i \in 1 .. Len(out)
      BY <1>1, <1>2, <2>1, <3>2
    <3>3. QED
      BY <1>2, <3>1, <3>2
  <2>4. QED
    BY <2>2, <2>3
<1>5. /\ Len(out') <= Len(ids') /\ main' = "resolve" /\ ids' = ids /\ layer' = layer
  BY <1>1, <1>2
<1>6. QED
  BY <1>3, <1>4, <1>5 DEF EmittedHeld

LEMMA HitKeeps == Inv /\ ResolveHit => SyncInv'
<1> SUFFICES ASSUME Inv, ResolveHit PROVE SyncInv'
  OBVIOUS
<1> USE DEF Inv, SyncInv
<1> DEFINE s == where[Wanted]
<1>1. /\ main = "resolve" /\ Emit(s) /\ pinned' = pinned \cup {s}
      /\ UNCHANGED <<slot_key, where, pool, main, layer, ids, misses, crew>>
  BY DEF ResolveHit, Resolving, Emit
<1>2. s \in Slots /\ slot_key[s] = Wanted
  BY WantedType DEF ResolveHit, TypeOK, MapsAgree
<1>3. MapsAgree' /\ LoadedOrPending'
  BY <1>1 DEF MapsAgree, LoadedOrPending, Pending, Fetching, Aborted, crew
<1>4. EmittedHeld'
  BY <1>1, <1>2, EmitHolds DEF ResolveHit
<1>5. MissesHeld'
  BY <1>1 DEF MissesHeld, InOp
<1>6. ReadersRight'
  BY <1>1 DEF ReadersRight, AllDone, Fetching, crew
<1>7. QED
  BY <1>3, <1>4, <1>5, <1>6

LEMMA MissKeeps == Inv /\ ResolveMiss => SyncInv'
<1> SUFFICES ASSUME Inv, ResolveMiss PROVE SyncInv'
  OBVIOUS
<1> USE DEF Inv, SyncInv
<1>1. /\ main = "resolve" /\ where[Wanted] = NoSlot /\ Wanted \in Keys
      /\ UNCHANGED <<pool, main, layer, ids, crew>>
  BY WantedType DEF ResolveMiss, Resolving
<1>2. PICK s \in Slots :
        /\ IsVictim(GroupOf[layer], s)
        /\ slot_key' = [slot_key EXCEPT ![s] = Wanted]
        /\ where' = Remap(s, Wanted)
        /\ misses' = Append(misses, [key |-> Wanted, slot |-> s])
        /\ Emit(s)
  BY DEF ResolveMiss
<1>3. s \notin pinned
  <2>1. CASE slot_key[s] = NoKey
    <3> SUFFICES ASSUME s \in pinned PROVE FALSE
      OBVIOUS
    <3>1. PICK i \in 1 .. Len(out) : out[i] = s
      BY <1>1 DEF EmittedHeld, InOp
    <3>2. slot_key[s] = <<layer, ids[i]>> /\ i \in 1 .. Len(ids)
      BY <1>1, <3>1 DEF EmittedHeld, InOp, TypeOK
    <3>3. <<layer, ids[i]>> \in Keys
      BY <3>2, ElementOfSeq DEF TypeOK, Keys
    <3>4. QED
      BY <2>1, <3>2, <3>3, NullAssumption
  <2>2. CASE slot_key[s] # NoKey
    BY <1>2, <2>2 DEF IsVictim, Empty, Evictable
  <2>3. QED
    BY <2>1, <2>2
<1>4. slot_key'[s] = Wanted /\ \A t \in Slots : t # s => slot_key'[t] = slot_key[t]
  BY <1>2 DEF TypeOK
<1>5. /\ Len(misses') = Len(misses) + 1 /\ Len(misses) \in Nat
      /\ \A m \in 1 .. Len(misses) : misses'[m] = misses[m]
      /\ misses'[Len(misses) + 1] = [key |-> Wanted, slot |-> s]
  BY <1>2 DEF TypeOK
<1>6. pinned' = pinned \cup {s} /\ pinned \subseteq Slots
  BY <1>2 DEF Emit, TypeOK
<1>7. MapsAgree'
  BY <1>1, <1>2, AssignAgrees DEF TypeOK, MapsTyped
<1>8. LoadedOrPending'
  <2> SUFFICES ASSUME NEW t \in Slots, slot_key'[t] # NoKey
               PROVE  \/ pool[t] = slot_key'[t]
                      \/ \E m \in 1 .. Len(misses') :
                           misses'[m] = [key |-> slot_key'[t], slot |-> t]
    BY <1>1 DEF LoadedOrPending, Pending, Aborted
  <2>1. CASE t = s
    <3>1. Len(misses) + 1 \in 1 .. Len(misses')
      BY <1>5
    <3>2. QED
      BY <1>4, <1>5, <2>1, <3>1
  <2>2. CASE t # s
    <3>1. pool[t] = slot_key[t] \/ \E m \in 1 .. Len(misses) :
                                     misses[m] = [key |-> slot_key[t], slot |-> t]
      BY <1>1, <1>4, <2>2 DEF LoadedOrPending, Aborted
    <3>2. CASE pool[t] = slot_key[t]
      BY <1>4, <2>2, <3>2
    <3>3. ASSUME NEW m \in 1 .. Len(misses), misses[m] = [key |-> slot_key[t], slot |-> t]
          PROVE  m \in 1 .. Len(misses')
                 /\ misses'[m] = [key |-> slot_key'[t], slot |-> t]
      BY <1>4, <1>5, <2>2, <3>3
    <3>4. QED
      BY <3>1, <3>2, <3>3
  <2>3. QED
    BY <2>1, <2>2
<1>9. EmittedHeld'
  BY <1>1, <1>2, <1>3, <1>4, <1>6, EmitHolds DEF ResolveMiss
<1>10. MissesHeld'
  <2>1. \A m \in 1 .. Len(misses) :
          /\ misses[m].slot \in pinned /\ misses[m].slot # s
          /\ slot_key[misses[m].slot] = misses[m].key
    BY <1>1, <1>3 DEF MissesHeld, InOp
  <2>2. ASSUME NEW m \in 1 .. Len(misses')
        PROVE  misses'[m].slot \in pinned' /\ slot_key'[misses'[m].slot] = misses'[m].key
    <3>1. CASE m = Len(misses) + 1
      BY <1>4, <1>5, <1>6, <3>1
    <3>2. CASE m \in 1 .. Len(misses)
      BY <1>4, <1>5, <1>6, <2>1, <3>2
    <3>3. QED
      BY <1>5, <3>1, <3>2
  <2>3. ASSUME NEW m \in 1 .. Len(misses'), NEW n \in 1 .. Len(misses'), m # n
        PROVE  misses'[m].slot # misses'[n].slot
    <3>1. CASE m \in 1 .. Len(misses) /\ n \in 1 .. Len(misses)
      BY <1>1, <1>5, <2>3, <3>1 DEF MissesHeld, InOp
    <3>2. CASE m = Len(misses) + 1 /\ n \in 1 .. Len(misses)
      BY <1>5, <2>1, <3>2
    <3>3. CASE n = Len(misses) + 1 /\ m \in 1 .. Len(misses)
      BY <1>5, <2>1, <3>3
    <3>4. QED
      BY <1>5, <2>3, <3>1, <3>2, <3>3
  <2>4. QED
    BY <2>2, <2>3 DEF MissesHeld
<1>11. ReadersRight'
  BY <1>1 DEF ReadersRight, AllDone, Fetching, crew
<1>12. QED
  BY <1>7, <1>8, <1>9, <1>10, <1>11

LEMMA GraphKeeps ==
  ASSUME Inv, ResolveAbort \/ ResolveDone \/ Joined
  PROVE  SyncInv'
<1> USE DEF Inv, SyncInv
<1>1. UNCHANGED <<slot_key, where, pinned, pool, layer, ids, out, misses, next, drawn, bounce>>
  BY DEF ResolveAbort, ResolveDone, Joined, cache, op, crew
<1>2. MapsAgree'
  BY <1>1 DEF MapsAgree
<1>3. CASE ResolveAbort
  <2>1. main' = "cache_abort" /\ reader' = reader /\ main = "resolve"
    BY <1>3 DEF ResolveAbort, Resolving, crew
  <2>2. LoadedOrPending' /\ EmittedHeld' /\ MissesHeld'
    BY <1>1, <2>1 DEF LoadedOrPending, Aborted, EmittedHeld, MissesHeld, InOp
  <2>3. ReadersRight'
    BY <1>1, <2>1 DEF ReadersRight, AllDone, Fetching
  <2>4. QED
    BY <1>2, <2>2, <2>3
<1>4. CASE ResolveDone
  <2>1. /\ main = "resolve" /\ Len(out) = Len(ids) /\ next = 1
        /\ main' = IF misses = <<>> THEN "matmul" ELSE "fetch"
        /\ \A r \in Readers : reader'[r] = IF r <= Len(misses) THEN "ready" ELSE "none"
    BY <1>4 DEF ResolveDone, Started, ReadersRight
  <2>2. misses \in Seq(Misses) /\ Len(misses) \in Nat /\ 1 \in Readers
    BY SizeAssumption DEF TypeOK, Readers
  <2>3. LoadedOrPending'
    <3> SUFFICES ASSUME NEW s \in Slots, slot_key[s] # NoKey
                 PROVE  \/ pool[s] = slot_key[s]
                        \/ \E m \in 1 .. Len(misses) :
                             Pending(m)' /\ misses[m] = [key |-> slot_key[s], slot |-> s]
      BY <1>1 DEF LoadedOrPending
    <3>1. pool[s] = slot_key[s] \/ \E m \in 1 .. Len(misses) :
                                     misses[m] = [key |-> slot_key[s], slot |-> s]
      BY <2>1 DEF LoadedOrPending, Aborted
    <3>2. ASSUME NEW m \in 1 .. Len(misses)
          PROVE  Pending(m)'
      BY <1>1, <2>1, <2>2, <3>2 DEF Pending
    <3>3. QED
      BY <3>1, <3>2
  <2>4. EmittedHeld' /\ MissesHeld'
    <3>1. InOp /\ InOp' /\ main' \in {"fetch", "matmul"}
      BY <2>1 DEF InOp
    <3>2. EmittedHeld'
      BY <1>1, <2>1, <3>1 DEF EmittedHeld
    <3>3. MissesHeld'
      BY <1>1, <3>1 DEF MissesHeld
    <3>4. QED
      BY <3>2, <3>3
  <2>5. ReadersRight'
    <3>1. \A r \in Readers : ~Fetching(r)'
      BY <2>1 DEF Fetching
    <3>2. CASE misses = <<>>
      <4>1. main' = "matmul" /\ Len(misses) = 0
        BY <2>1, <3>2
      <4>2. \A r \in Readers : reader'[r] = "none"
        BY <2>1, <4>1 DEF Readers
      <4>3. QED
        BY <3>1, <4>1, <4>2 DEF ReadersRight, AllDone
    <3>3. CASE misses # <<>>
      <4>1. main' = "fetch" /\ Len(misses) >= 1
        BY <2>1, <2>2, <3>3, EmptySeq
      <4>2. reader'[1] = "ready"
        BY <2>1, <2>2, <4>1
      <4>3. QED
        BY <2>2, <3>1, <4>1, <4>2 DEF ReadersRight, AllDone
    <3>4. QED
      BY <3>2, <3>3
  <2>6. QED
    BY <1>2, <2>3, <2>4, <2>5
<1>5. CASE Joined
  <2>1. main = "fetch" /\ main' = "matmul" /\ reader' = reader /\ AllDone
    BY <1>5 DEF Joined, crew
  <2>2. next > Len(misses) /\ Len(misses) \in Nat /\ next \in Nat
    BY <2>1 DEF ReadersRight, TypeOK
  <2>3. \A m \in 1 .. Len(misses) : ~Pending(m)
    BY <2>1, <2>2 DEF Pending, AllDone, Fetching
  <2>4. LoadedOrPending'
    BY <1>1, <2>1, <2>3 DEF LoadedOrPending, Aborted
  <2>5. EmittedHeld' /\ MissesHeld'
    <3>1. InOp /\ InOp'
      BY <2>1 DEF InOp
    <3>2. EmittedHeld'
      BY <1>1, <2>1, <3>1 DEF EmittedHeld
    <3>3. MissesHeld'
      BY <1>1, <3>1 DEF MissesHeld
    <3>4. QED
      BY <3>2, <3>3
  <2>6. ReadersRight'
    BY <1>1, <2>1 DEF ReadersRight, AllDone, Fetching
  <2>7. QED
    BY <1>2, <2>4, <2>5, <2>6
<1>6. QED
  BY <1>3, <1>4, <1>5

\* A reader that does something runs for an op that waits for it.
LEMMA ReaderRuns ==
  ASSUME Inv, NEW r \in Readers, reader[r] # "none", ~Aborted
  PROVE  main = "fetch"
  BY DEF Inv, SyncInv, ReadersRight, AllDone, TypeOK, Aborted

\* A step of a reader leaves what the graph thread has resolved.
LEMMA ResolvedHolds ==
  ASSUME Inv, UNCHANGED <<slot_key, where, pinned, main, layer, ids, out, misses>>
  PROVE  MapsAgree' /\ EmittedHeld' /\ MissesHeld'
<1> USE DEF Inv, SyncInv
<1>1. InOp' = InOp
  BY DEF InOp
<1>2. MapsAgree'
  BY DEF MapsAgree
<1>3. EmittedHeld'
  BY <1>1 DEF EmittedHeld
<1>4. MissesHeld'
  BY <1>1 DEF MissesHeld
<1>5. QED
  BY <1>2, <1>3, <1>4

LEMMA DrawKeeps == ASSUME Inv, NEW r \in Readers, Draw(r) PROVE SyncInv'
<1> USE DEF Inv, SyncInv
<1>1. /\ main = "fetch" /\ ~Aborted /\ next <= Len(misses) /\ reader[r] = "ready"
      /\ drawn' = [drawn EXCEPT ![r] = next] /\ next' = next + 1
      /\ reader' = [reader EXCEPT ![r] = "read"]
      /\ UNCHANGED <<cache, pool, main, op, misses, bounce>>
  BY ReaderRuns DEF Draw, At, More
<1>2. /\ reader'[r] = "read" /\ drawn'[r] = next /\ next \in 1 .. Len(misses)
      /\ next \in Nat /\ Len(misses) \in Nat
      /\ \A q \in Readers : q # r => reader'[q] = reader[q] /\ drawn'[q] = drawn[q]
  BY <1>1 DEF TypeOK
<1>3. ASSUME NEW m \in 1 .. Len(misses), Pending(m)
      PROVE  Pending(m)'
  <2>1. CASE m = next
    BY <1>1, <1>2, <2>1 DEF Pending, Fetching
  <2>2. CASE m >= next + 1
    BY <1>1, <2>2 DEF Pending
  <2>3. CASE \E q \in Readers : Fetching(q) /\ drawn[q] = m
    <3>1. PICK q \in Readers : Fetching(q) /\ drawn[q] = m
      BY <2>3
    <3>2. q # r
      BY <1>1, <3>1 DEF Fetching
    <3>3. QED
      BY <1>1, <1>2, <3>1, <3>2 DEF Pending, Fetching
  <2>4. QED
    BY <1>1, <1>2, <1>3, <2>1, <2>2, <2>3 DEF Pending
<1>4. LoadedOrPending'
  BY <1>1, <1>3 DEF LoadedOrPending, Aborted, cache
<1>5. ReadersRight'
  <2>1. ASSUME NEW q \in Readers, Fetching(q)'
        PROVE  /\ drawn'[q] \in 1 .. Len(misses)
               /\ drawn'[q] < next'
               /\ reader'[q] = "scatter" => bounce[q] = misses[drawn'[q]].key
    <3>1. CASE q = r
      BY <1>1, <1>2, <3>1
    <3>2. CASE q # r
      <4>1. Fetching(q) /\ drawn[q] < next /\ drawn[q] \in Nat
        BY <1>2, <2>1, <3>2 DEF Fetching, ReadersRight, TypeOK
      <4>2. QED
        BY <1>1, <1>2, <3>2, <4>1 DEF ReadersRight
    <3>3. QED
      BY <3>1, <3>2
  <2>2. ASSUME NEW p \in Readers, NEW q \in Readers, p # q, Fetching(p)', Fetching(q)'
        PROVE  drawn'[p] # drawn'[q]
    <3>1. \A x \in Readers : x # r /\ Fetching(x)' =>
            Fetching(x) /\ drawn[x] < next /\ drawn[x] \in Nat
      BY <1>2 DEF Fetching, ReadersRight, TypeOK
    <3>2. CASE p = r
      BY <1>2, <2>2, <3>1, <3>2
    <3>3. CASE q = r
      BY <1>2, <2>2, <3>1, <3>3
    <3>4. CASE p # r /\ q # r
      BY <1>2, <2>2, <3>1, <3>4 DEF ReadersRight
    <3>5. QED
      BY <3>2, <3>3, <3>4
  <2>3. main' = "fetch" /\ ~AllDone'
    BY <1>1, <1>2 DEF AllDone
  <2>4. misses' = misses /\ bounce' = bounce
    BY <1>1
  <2>5. QED
    BY <2>1, <2>2, <2>3, <2>4 DEF ReadersRight
<1>6. QED
  BY <1>1, <1>4, <1>5, ResolvedHolds DEF cache, op

LEMMA QuitKeeps == ASSUME Inv, NEW r \in Readers, Quit(r) PROVE SyncInv'
<1> USE DEF Inv, SyncInv
<1>1. /\ main = "fetch" /\ ~Aborted /\ next > Len(misses) /\ reader[r] = "ready"
      /\ drawn' = [drawn EXCEPT ![r] = 0] /\ next' = next + 1
      /\ reader' = [reader EXCEPT ![r] = "none"]
      /\ next \in Nat /\ Len(misses) \in Nat
      /\ UNCHANGED <<cache, pool, main, op, misses, bounce>>
  BY ReaderRuns DEF Quit, At, More, TypeOK
<1>2. /\ reader'[r] = "none"
      /\ \A q \in Readers : q # r => reader'[q] = reader[q] /\ drawn'[q] = drawn[q]
  BY <1>1 DEF TypeOK
<1>3. \A q \in Readers : Fetching(q)' <=> Fetching(q) /\ q # r
  BY <1>1, <1>2 DEF Fetching
<1>4. ASSUME NEW m \in 1 .. Len(misses), Pending(m)
      PROVE  Pending(m)'
  BY <1>1, <1>2, <1>3, <1>4 DEF Pending, Fetching
<1>5. LoadedOrPending'
  BY <1>1, <1>4 DEF LoadedOrPending, Aborted, cache
<1>6. ReadersRight'
  <2>1. \A q \in Readers : Fetching(q)' =>
          /\ q # r /\ Fetching(q) /\ drawn[q] \in Nat
          /\ drawn[q] < next /\ drawn'[q] = drawn[q] /\ reader'[q] = reader[q]
    BY <1>2, <1>3 DEF ReadersRight, TypeOK
  <2>2. next' > Len(misses) /\ main' = "fetch" /\ misses' = misses /\ bounce' = bounce
    BY <1>1
  <2>3. \A q \in Readers : Fetching(q)' =>
          /\ drawn'[q] \in 1 .. Len(misses)
          /\ drawn'[q] < next'
          /\ reader'[q] = "scatter" => bounce[q] = misses[drawn'[q]].key
    BY <1>1, <2>1 DEF ReadersRight
  <2>4. \A p, q \in Readers : (p # q /\ Fetching(p)' /\ Fetching(q)') =>
          drawn'[p] # drawn'[q]
    BY <2>1 DEF ReadersRight
  <2>5. QED
    BY <2>2, <2>3, <2>4 DEF ReadersRight
<1>7. QED
  BY <1>1, <1>5, <1>6, ResolvedHolds DEF cache, op

LEMMA ReadKeeps == ASSUME Inv, NEW r \in Readers, Read(r) PROVE SyncInv'
<1> USE DEF Inv, SyncInv
<1>1. /\ main = "fetch" /\ ~Aborted /\ reader[r] = "read"
      /\ bounce' = [bounce EXCEPT ![r] = misses[drawn[r]].key]
      /\ reader' = [reader EXCEPT ![r] = "scatter"]
      /\ UNCHANGED <<cache, pool, main, op, misses, next, drawn>>
  BY ReaderRuns DEF Read, At, Slice
<1>2. /\ reader'[r] = "scatter" /\ bounce'[r] = misses[drawn[r]].key
      /\ \A q \in Readers : q # r => reader'[q] = reader[q] /\ bounce'[q] = bounce[q]
  BY <1>1 DEF TypeOK
<1>3. \A q \in Readers : Fetching(q)' = Fetching(q)
  BY <1>1, <1>2 DEF Fetching
<1>4. LoadedOrPending'
  <2>1. \A m \in 1 .. Len(misses) : Pending(m) => Pending(m)'
    BY <1>1, <1>3 DEF Pending
  <2>2. QED
    BY <1>1, <2>1 DEF LoadedOrPending, Aborted, cache
<1>5. ReadersRight'
  <2>1. \A q \in Readers : Fetching(q) =>
          /\ drawn[q] \in 1 .. Len(misses)
          /\ drawn[q] < next
          /\ reader'[q] = "scatter" => bounce'[q] = misses[drawn[q]].key
    BY <1>2 DEF ReadersRight
  <2>2. main' = "fetch" /\ ~AllDone' /\ UNCHANGED <<misses, next, drawn>>
    BY <1>1, <1>2 DEF AllDone
  <2>3. QED
    BY <1>3, <2>1, <2>2 DEF ReadersRight
<1>6. QED
  BY <1>1, <1>4, <1>5, ResolvedHolds DEF cache, op

LEMMA ScatterKeeps == ASSUME Inv, NEW r \in Readers, Scatter(r) PROVE SyncInv'
<1> USE DEF Inv, SyncInv
<1> DEFINE mine == misses[drawn[r]]
<1>1. /\ main = "fetch" /\ ~Aborted /\ reader[r] = "scatter"
      /\ pool' = [pool EXCEPT ![mine.slot] = bounce[r]]
      /\ reader' = [reader EXCEPT ![r] = "ready"]
      /\ UNCHANGED <<cache, main, op, misses, next, drawn, bounce>>
  BY ReaderRuns DEF Scatter, At, Slice
<1>2. /\ drawn[r] \in 1 .. Len(misses) /\ mine \in Misses /\ bounce[r] = mine.key
      /\ slot_key[mine.slot] = mine.key /\ mine.slot \in Slots
  <2>1. Fetching(r) /\ InOp
    BY <1>1 DEF Fetching, InOp
  <2>2. drawn[r] \in 1 .. Len(misses) /\ mine \in Misses
    BY <2>1, DrawnType
  <2>3. bounce[r] = mine.key
    BY <1>1, <2>1 DEF ReadersRight
  <2>4. slot_key[mine.slot] = mine.key
    BY <2>1, <2>2 DEF MissesHeld
  <2>5. QED
    BY <2>2, <2>3, <2>4 DEF Misses
<1>3. /\ reader'[r] = "ready"
      /\ \A q \in Readers : q # r => reader'[q] = reader[q]
  BY <1>1 DEF TypeOK
<1>4. \A q \in Readers : Fetching(q)' <=> Fetching(q) /\ q # r
  BY <1>3 DEF Fetching
<1>5. LoadedOrPending'
  <2> SUFFICES ASSUME NEW s \in Slots, slot_key[s] # NoKey
               PROVE  \/ pool'[s] = slot_key[s]
                      \/ \E m \in 1 .. Len(misses) :
                           Pending(m)' /\ misses[m] = [key |-> slot_key[s], slot |-> s]
    BY <1>1 DEF LoadedOrPending, cache
  <2>1. CASE s = mine.slot
    BY <1>1, <1>2, <2>1 DEF TypeOK
  <2>2. CASE s # mine.slot
    <3>1. pool'[s] = pool[s]
      BY <1>1, <1>2, <2>2 DEF TypeOK
    <3>2. ASSUME NEW m \in 1 .. Len(misses), Pending(m), misses[m].slot = s
          PROVE  Pending(m)'
      <4>1. m # drawn[r]
        BY <2>2, <3>2
      <4>2. QED
        BY <1>1, <1>4, <3>2, <4>1 DEF Pending
    <3>3. QED
      BY <1>1, <3>1, <3>2 DEF LoadedOrPending
  <2>3. QED
    BY <2>1, <2>2
<1>6. ReadersRight'
  <2>1. main' = "fetch" /\ ~AllDone' /\ UNCHANGED <<misses, next, drawn, bounce>>
    BY <1>1, <1>3 DEF AllDone
  <2>2. \A q \in Readers : Fetching(q)' => Fetching(q) /\ reader'[q] = reader[q]
    BY <1>3, <1>4
  <2>3. QED
    BY <2>1, <2>2 DEF ReadersRight
<1>7. QED
  BY <1>1, <1>5, <1>6, ResolvedHolds DEF cache, op

LEMMA FailKeeps == ASSUME Inv, NEW r \in Readers, ReadFails(r) PROVE SyncInv'
<1> USE DEF Inv, SyncInv
<1>1. main' = "read_abort" /\ UNCHANGED <<slot_key, where, misses, next, drawn, reader, bounce>>
  BY DEF ReadFails, cache, crew
<1>2. MapsAgree' /\ LoadedOrPending' /\ EmittedHeld' /\ MissesHeld'
  BY <1>1 DEF MapsAgree, LoadedOrPending, Aborted, EmittedHeld, MissesHeld, InOp
<1>3. ReadersRight'
  BY <1>1 DEF ReadersRight, AllDone, Fetching
<1>4. QED
  BY <1>2, <1>3

LEMMA NextSync == Inv /\ [Next]_vars => SyncInv'
  BY BoundarySteps, HitKeeps, MissKeeps, GraphKeeps, DrawKeeps, QuitKeeps, ReadKeeps,
     ScatterKeeps, FailKeeps DEF Next, GraphStep, ReaderStep

\* What follows from the invariant, state by state.
LEMMA InvMatmul == Inv => MatmulReadsItsExperts
<1> SUFFICES ASSUME Inv, main = "matmul"
             PROVE  /\ Len(out) = Len(ids)
                    /\ \A i \in 1 .. Len(out) : pool[out[i]] = <<layer, ids[i]>>
                    /\ AllDone
  BY DEF MatmulReadsItsExperts, AllDone
<1> USE DEF Inv, SyncInv
<1>1. Len(out) = Len(ids) /\ AllDone
  BY DEF EmittedHeld, ReadersRight
<1>2. ASSUME NEW i \in 1 .. Len(out)
      PROVE  pool[out[i]] = <<layer, ids[i]>>
  <2>1. out[i] \in Slots /\ slot_key[out[i]] = <<layer, ids[i]>>
    BY ElementOfSeq DEF EmittedHeld, InOp, TypeOK
  <2>2. <<layer, ids[i]>> \in Keys
    BY <1>1, ElementOfSeq DEF TypeOK, Keys
  <2>3. QED
    BY <2>1, <2>2, NullAssumption DEF LoadedOrPending, Pending, Aborted
<1>3. QED
  BY <1>1, <1>2

\* The slot of a miss of the op is pinned: no victim is.
LEMMA VictimUnpinned ==
  ASSUME Inv, Resolving, NEW s \in Slots, IsVictim(GroupOf[layer], s)
  PROVE  \A m \in 1 .. Len(misses) : misses[m].slot # s
<1> USE DEF Inv, SyncInv
<1>1. main = "resolve" /\ InOp
  BY DEF Resolving, InOp
<1>2. ASSUME NEW m \in 1 .. Len(misses), misses[m].slot = s
      PROVE  FALSE
  <2>1. s \in pinned /\ slot_key[s] = misses[m].key /\ misses[m] \in Misses
    BY <1>1, <1>2, ElementOfSeq DEF MissesHeld, TypeOK
  <2>2. slot_key[s] # NoKey
    BY <2>1, NullAssumption DEF Misses
  <2>3. QED
    BY <2>1, <2>2 DEF IsVictim, Empty, Evictable
<1>3. QED
  BY <1>2

\* A key that is mapped nowhere is in no slot that is neither empty nor pinned.
LEMMA VictimHoldsOther ==
  ASSUME Inv, UnfetchedAbsent, Resolving, where[Wanted] = NoSlot,
         NEW s \in Slots, IsVictim(GroupOf[layer], s)
  PROVE  pool[s] # Wanted
<1> USE DEF Inv, SyncInv
<1>1. Wanted \in Keys /\ main = "resolve" /\ ~Aborted
  BY WantedType DEF Resolving, Aborted
<1>2. CASE slot_key[s] = NoKey
  BY <1>1, <1>2, NullAssumption DEF UnfetchedAbsent
<1>3. CASE slot_key[s] # NoKey
  <2>1. pool[s] = slot_key[s]
    <3>1. \/ pool[s] = slot_key[s]
          \/ \E m \in 1 .. Len(misses) : misses[m] = [key |-> slot_key[s], slot |-> s]
      BY <1>1, <1>3 DEF LoadedOrPending
    <3>2. \A m \in 1 .. Len(misses) : misses[m].slot # s
      BY VictimUnpinned
    <3>3. QED
      BY ONLY <3>1, <3>2
  <2>2. where[slot_key[s]] = s
    BY <1>3 DEF MapsAgree
  <2>3. QED
    BY <2>1, <2>2, NullAssumption
<1>4. QED
  BY <1>2, <1>3

LEMMA MissUnfetched == Inv /\ UnfetchedAbsent /\ ResolveMiss => UnfetchedAbsent'
<1> SUFFICES ASSUME Inv, UnfetchedAbsent, ResolveMiss PROVE UnfetchedAbsent'
  OBVIOUS
<1>1. PICK s \in Slots :
        /\ IsVictim(GroupOf[layer], s)
        /\ slot_key' = [slot_key EXCEPT ![s] = Wanted]
        /\ misses' = Append(misses, [key |-> Wanted, slot |-> s])
  BY DEF ResolveMiss
<1>2. /\ Resolving /\ where[Wanted] = NoSlot /\ Wanted \in Keys /\ next = 1
      /\ UNCHANGED <<pool, next, reader, drawn>>
  BY WantedType DEF ResolveMiss, Resolving, crew, Inv, SyncInv, ReadersRight
<1>3. /\ Len(misses') = Len(misses) + 1 /\ Len(misses) \in Nat
      /\ \A m \in 1 .. Len(misses) : misses'[m] = misses[m]
      /\ misses'[Len(misses) + 1] = [key |-> Wanted, slot |-> s]
  BY <1>1 DEF Inv, TypeOK
<1>4. ASSUME NEW m \in 1 .. Len(misses')
      PROVE  pool[misses'[m].slot] # misses'[m].key
  <2>1. CASE m = Len(misses) + 1
    BY <1>1, <1>2, <1>3, <2>1, VictimHoldsOther
  <2>2. CASE m \in 1 .. Len(misses)
    <3>1. Unfetched(m)
      BY <1>2, <2>2 DEF Unfetched
    <3>2. QED
      BY <1>3, <2>2, <3>1 DEF UnfetchedAbsent
  <2>3. QED
    BY <1>3, <2>1, <2>2
<1>5. \A t \in Slots : slot_key'[t] = NoKey => slot_key[t] = NoKey
  BY <1>1, <1>2, NullAssumption DEF Inv, TypeOK
<1>6. QED
  BY <1>2, <1>4, <1>5 DEF UnfetchedAbsent

LEMMA ScatterUnfetched ==
  ASSUME Inv, UnfetchedAbsent, NEW r \in Readers, Scatter(r)
  PROVE  UnfetchedAbsent'
<1> DEFINE mine == misses[drawn[r]]
<1>1. /\ main = "fetch" /\ reader[r] = "scatter" /\ InOp
      /\ pool' = [pool EXCEPT ![mine.slot] = bounce[r]]
      /\ reader' = [reader EXCEPT ![r] = "ready"]
      /\ UNCHANGED <<slot_key, misses, next, drawn>>
  BY ReaderRuns DEF Scatter, At, Slice, cache, InOp
<1>2. /\ drawn[r] \in 1 .. Len(misses) /\ drawn[r] < next /\ drawn[r] \in Nat /\ next \in Nat
      /\ mine \in Misses /\ mine.slot \in Slots /\ slot_key[mine.slot] = mine.key
  <2>1. Fetching(r)
    BY <1>1 DEF Fetching
  <2>2. drawn[r] \in 1 .. Len(misses) /\ mine \in Misses
    BY <2>1, DrawnType
  <2>3. slot_key[mine.slot] = mine.key
    BY <1>1, <2>2 DEF Inv, SyncInv, MissesHeld
  <2>4. QED
    BY <2>1, <2>2, <2>3 DEF Misses, Inv, SyncInv, ReadersRight, TypeOK
<1>3. \A q \in Readers : Fetching(q)' => Fetching(q) /\ q # r
  BY <1>1 DEF Fetching, Inv, TypeOK
<1>4. ASSUME NEW m \in 1 .. Len(misses), Unfetched(m)'
      PROVE  pool'[misses[m].slot] # misses[m].key
  <2>1. Unfetched(m)
    BY <1>1, <1>3, <1>4 DEF Unfetched
  <2>2. m # drawn[r]
    <3>1. CASE m >= next
      BY <1>2, <3>1
    <3>2. ASSUME NEW q \in Readers, Fetching(q)', drawn[q] = m
          PROVE  m # drawn[r]
      BY <1>1, <1>3, <3>2 DEF Inv, SyncInv, ReadersRight, Fetching
    <3>3. QED
      BY <1>1, <1>4, <3>1, <3>2 DEF Unfetched
  <2>3. misses[m].slot # mine.slot /\ misses[m].slot \in Slots
    <3>1. misses[m] \in Misses
      BY ElementOfSeq DEF Inv, TypeOK
    <3>2. misses[m].slot # mine.slot
      BY <1>2, <2>2 DEF Inv, SyncInv, MissesHeld
    <3>3. QED
      BY <3>1, <3>2 DEF Misses
  <2>4. pool'[misses[m].slot] = pool[misses[m].slot]
    BY <1>1, <1>2, <2>3 DEF Inv, TypeOK
  <2>5. QED
    BY <2>1, <2>4 DEF UnfetchedAbsent
<1>5. ASSUME NEW t \in Slots, slot_key[t] = NoKey
      PROVE  pool'[t] = NoKey
  <2>1. t # mine.slot
    BY <1>2, <1>5, NullAssumption DEF Misses
  <2>2. QED
    BY <1>1, <1>2, <1>5, <2>1 DEF UnfetchedAbsent, Inv, TypeOK
<1>6. QED
  BY <1>1, <1>4, <1>5 DEF UnfetchedAbsent

\* No other step brings a miss in, or bytes to a slot.
LEMMA UnfetchedKept ==
  ASSUME UnfetchedAbsent, UNCHANGED <<slot_key, pool, misses>>,
         \A m \in 1 .. Len(misses) : Unfetched(m)' => Unfetched(m)
  PROVE  UnfetchedAbsent'
  BY DEF UnfetchedAbsent

LEMMA NextUnfetched == Inv /\ UnfetchedAbsent /\ [Next]_vars => UnfetchedAbsent'
<1> SUFFICES ASSUME Inv, UnfetchedAbsent, [Next]_vars PROVE UnfetchedAbsent'
  OBVIOUS
<1>1. TypeOK
  BY DEF Inv
<1>2. CASE \/ BeginPass \/ BeginOp \/ ResolveHit \/ ResolveAbort \/ Joined \/ Destroy
           \/ Finished \/ UNCHANGED vars \/ \E r \in Readers : ReadFails(r)
  <2>1. UNCHANGED <<slot_key, pool, misses, next, reader, drawn>>
    BY <1>2 DEF BeginPass, BeginOp, ResolveHit, ResolveAbort, Joined, Destroy, Finished,
                ReadFails, vars, cache, op, crew
  <2>2. QED
    BY <2>1, UnfetchedKept DEF Unfetched, Fetching
<1>3. CASE ResolveDone
  <2>1. UNCHANGED <<slot_key, pool, misses, next>> /\ \A r \in Readers : ~Fetching(r)'
    BY <1>3 DEF ResolveDone, cache, op, Fetching
  <2>2. QED
    BY <2>1, UnfetchedKept DEF Unfetched
<1>4. CASE EndMatmul
  <2>1. UNCHANGED <<slot_key, pool>> /\ Len(misses') = 0
    BY <1>4 DEF EndMatmul, cache
  <2>2. QED
    BY <2>1 DEF UnfetchedAbsent
<1>5. ASSUME NEW r \in Readers, Draw(r)
      PROVE  UnfetchedAbsent'
  <2>1. /\ UNCHANGED <<slot_key, pool, misses>> /\ next' = next + 1 /\ next \in Nat
        /\ drawn' = [drawn EXCEPT ![r] = next]
        /\ \A q \in Readers : q # r => (Fetching(q)' <=> Fetching(q))
    BY <1>1, <1>5 DEF Draw, At, cache, op, TypeOK, Fetching
  <2>2. \A m \in 1 .. Len(misses) : Unfetched(m)' => Unfetched(m)
    <3> SUFFICES ASSUME NEW m \in 1 .. Len(misses), Unfetched(m)' PROVE Unfetched(m)
      OBVIOUS
    <3>1. CASE m >= next'
      BY <2>1, <3>1 DEF Unfetched
    <3>2. ASSUME NEW q \in Readers, Fetching(q)', drawn'[q] = m
          PROVE  Unfetched(m)
      BY <1>1, <2>1, <3>2 DEF Unfetched, TypeOK
    <3>3. QED
      BY <3>1, <3>2 DEF Unfetched
  <2>3. QED
    BY <2>1, <2>2, UnfetchedKept
<1>6. ASSUME NEW r \in Readers, Quit(r) \/ Read(r)
      PROVE  UnfetchedAbsent'
  <2>1. /\ UNCHANGED <<slot_key, pool, misses>> /\ next' \in {next, next + 1} /\ next \in Nat
        /\ \A q \in Readers : Fetching(q)' => Fetching(q) /\ drawn'[q] = drawn[q]
    BY <1>1, <1>6 DEF Quit, Read, At, cache, op, TypeOK, Fetching
  <2>2. \A m \in 1 .. Len(misses) : Unfetched(m)' => Unfetched(m)
    BY <2>1 DEF Unfetched
  <2>3. QED
    BY <2>1, <2>2, UnfetchedKept
<1>7. QED
  BY <1>2, <1>3, <1>4, <1>5, <1>6, MissUnfetched, ScatterUnfetched
     DEF Next, GraphStep, ReaderStep

LEMMA InvClaimed == Inv => ClaimedIsLoadedOrPending
  BY DEF Inv, SyncInv, EmittedHeld, InOp, ClaimedIsLoadedOrPending

LEMMA InvApart == Inv /\ UnfetchedAbsent => ReadersApart
<1> SUFFICES ASSUME Inv, UnfetchedAbsent PROVE ReadersApart
  OBVIOUS
<1>1. ASSUME NEW q \in Readers, NEW r \in Readers, q # r, Fetching(q), Fetching(r)
      PROVE  misses[drawn[q]].slot # misses[drawn[r]].slot
  <2>1. /\ drawn[q] \in 1 .. Len(misses) /\ drawn[r] \in 1 .. Len(misses)
        /\ drawn[q] # drawn[r]
    BY <1>1, DrawnType DEF Inv, SyncInv, ReadersRight
  <2>2. QED
    BY <2>1 DEF Inv, SyncInv, MissesHeld
<1>2. ASSUME NEW r \in Readers, Fetching(r)
      PROVE  pool[misses[drawn[r]].slot] # misses[drawn[r]].key
  BY <1>2, DrawnType DEF UnfetchedAbsent, Unfetched
<1>3. QED
  BY <1>1, <1>2 DEF ReadersApart

\* An op that finds no victim has given every slot of the group to an expert of its
\* layer, and the expert it wants is not one of them.
LEMMA AbortMeansSmall ==
  ASSUME Inv, ResolveAbort
  PROVE  NSlots[GroupOf[layer]] < Cardinality(Distinct)
<1> USE DEF Inv, SyncInv
<1> DEFINE g == GroupOf[layer]
           others == Distinct \ {Wanted[2]}
           f == [s \in SlotsOf(g) |-> slot_key[s][2]]
<1>1. /\ main = "resolve" /\ InOp /\ where[Wanted] = NoSlot /\ NoVictim(g)
      /\ Wanted \in Keys /\ Wanted = <<layer, Wanted[2]>> /\ g \in Groups
  BY WantedType, GeometryAssumption
     DEF ResolveAbort, Resolving, InOp, Wanted, TypeOK, Layers
<1>2. ASSUME NEW s \in SlotsOf(g)
      PROVE  /\ s \in Slots /\ slot_key[s] \in Keys /\ slot_key[s] # Wanted
             /\ slot_key[s] = <<layer, slot_key[s][2]>> /\ slot_key[s][2] \in Distinct
  <2>1. s \in Slots /\ slot_key[s] # NoKey /\ s \in pinned
    BY <1>1 DEF NoVictim, Empty, Evictable, SlotsOf, TypeOK
  <2>2. PICK i \in 1 .. Len(out) : out[i] = s
    BY <1>1, <2>1 DEF EmittedHeld
  <2>3. slot_key[s] = <<layer, ids[i]>>
    BY <1>1, <2>2 DEF EmittedHeld
  <2>4. slot_key[s] \in Keys /\ where[slot_key[s]] = s
    BY <2>1 DEF TypeOK, MapsAgree
  <2>5. slot_key[s] # Wanted
    BY <1>1, <2>1, <2>4, NullAssumption
  <2>6. slot_key[s][2] \in Distinct
    BY <1>1, <2>2, <2>3 DEF InOp, Distinct, TypeOK, EmittedHeld
  <2>7. QED
    BY <2>1, <2>3, <2>4, <2>5, <2>6 DEF Keys
<1>3. f \in Injection(SlotsOf(g), others)
  <2>1. f \in [SlotsOf(g) -> others]
    BY <1>1, <1>2
  <2>2. ASSUME NEW s \in SlotsOf(g), NEW t \in SlotsOf(g), f[s] = f[t]
        PROVE  s = t
    <3>1. slot_key[s] = slot_key[t]
      BY <1>2, <2>2
    <3>2. slot_key[s] # NoKey /\ slot_key[t] # NoKey
      BY <1>2, NullAssumption
    <3>3. QED
      BY <1>2, <3>1, <3>2 DEF MapsAgree
  <2>3. QED
    BY <2>1, <2>2 DEF Injection, IsInjective
<1>4. /\ IsFiniteSet(Distinct) /\ IsFiniteSet(others) /\ Cardinality(Distinct) \in Nat
      /\ Cardinality(others) = Cardinality(Distinct) - 1
  <2>1. Wanted[2] \in Distinct
    BY DEF ResolveAbort, Resolving, Wanted, Distinct, TypeOK
  <2>2. Distinct \subseteq Experts
    BY DEF Distinct, TypeOK
  <2>3. IsFiniteSet(Distinct)
    BY <2>2, SizeAssumption, FS_Subset
  <2>4. QED
    BY <2>1, <2>3, FS_RemoveElement, FS_CardinalityType
<1>5. IsFiniteSet(SlotsOf(g)) /\ Cardinality(SlotsOf(g)) = NSlots[g]
  BY <1>1, SlotsCount
<1> HIDE DEF f, others
<1>6. Cardinality(SlotsOf(g)) <= Cardinality(others)
  BY <1>3, <1>4, <1>5, FS_Injection
<1>7. NSlots[g] \in Nat
  BY <1>1, GeometryAssumption
<1>8. QED
  BY <1>4, <1>5, <1>6, <1>7

LEMMA NextFits == Inv /\ OpAlwaysFits /\ [Next]_vars => OpAlwaysFits'
<1> SUFFICES ASSUME Inv, OpAlwaysFits, [Next]_vars, main' = "cache_abort"
             PROVE  (NSlots[GroupOf[layer]] < Cardinality(Distinct))'
  BY DEF OpAlwaysFits
<1>1. ids' = ids /\ layer' = layer /\ (ResolveAbort \/ main = "cache_abort")
  BY DEF Next, GraphStep, ReaderStep, BeginPass, BeginOp, ResolveHit, ResolveMiss,
         ResolveAbort, ResolveDone, Joined, EndMatmul, Destroy, Draw, Quit, Read, Scatter,
         ReadFails, Finished, vars, op, At, Aborted
<1>2. NSlots[GroupOf[layer]] < Cardinality(Distinct)
  BY <1>1, AbortMeansSmall DEF OpAlwaysFits
<1>3. Distinct' = Distinct
  BY <1>1 DEF Distinct
<1>4. QED
  BY <1>1, <1>2, <1>3

-----------------------------------------------------------------------------
(* The path implements the store of experts.                               *)

StoreInv == Inv /\ OwnPool

LEMMA OwnPoolStep == Inv /\ OwnPool /\ [Next]_vars => OwnPool'
<1> SUFFICES ASSUME Inv, OwnPool, [Next]_vars PROVE OwnPool'
  OBVIOUS
<1>1. CASE slot_key' = slot_key
  BY <1>1 DEF OwnPool
<1>2. CASE ResolveMiss
  <2>1. Wanted \in Keys /\ Wanted[1] = layer
    BY <1>2, WantedType DEF ResolveMiss, Inv
  <2>2. PICK s \in Slots : /\ IsVictim(GroupOf[layer], s)
                           /\ slot_key' = [slot_key EXCEPT ![s] = Wanted]
    BY <1>2 DEF ResolveMiss
  <2>3. MapsTyped
    BY DEF Inv, TypeOK, MapsTyped
  <2>4. QED
    BY <2>1, <2>2, <2>3, AssignOwnPool
<1>3. CASE ~ResolveMiss
  <2>1. slot_key' = slot_key
    BY <1>3 DEF Next, GraphStep, ReaderStep, BeginPass, BeginOp, ResolveHit, ResolveAbort,
       ResolveDone, Joined, EndMatmul, Destroy, Draw, Quit, Read, Scatter, ReadFails,
       Finished, cache, vars
  <2>2. QED
    BY <1>1, <2>1
<1>4. QED
  BY <1>2, <1>3

\* The store counts as the cache does.
LEMMA SameCardinality == ASSUME NEW S PROVE Store!Cardinality(S) = Cardinality(S)
  BY DEF Store!Cardinality, Cardinality

\* What is resident fits the pools.
LEMMA ResidentFits == StoreInv => Resident \subseteq Keys /\ Store!Fits(Resident)
<1> SUFFICES ASSUME StoreInv PROVE Resident \subseteq Keys /\ Store!Fits(Resident)
  OBVIOUS
<1>1. Resident \subseteq Keys
  BY DEF Resident
<1>2. \A k \in Resident : where[k] \in Slots /\ slot_key[where[k]] = k /\ k # NoKey
  BY NullAssumption DEF Resident, StoreInv, Inv, SyncInv, MapsAgree, TypeOK
<1>3. \A k \in Resident : where[k] \in SlotsOf(GroupOf[k[1]])
  BY <1>2 DEF StoreInv, OwnPool, SlotsOf
<1>4. \A j, k \in Resident : where[j] = where[k] => j = k
  BY <1>2
<1>5. \A g \in Groups : Cardinality({k \in Resident : GroupOf[k[1]] = g}) <= NSlots[g]
  BY <1>1, <1>3, <1>4, Capacity
<1>6. QED
  BY <1>1, <1>5, SameCardinality DEF Store!Fits, Store!OfGroup

\* A layer that computes has its experts resident, and reads their bytes.
LEMMA MatmulServed ==
  StoreInv /\ main = "matmul" => Store!Loaded(Resident) /\ Operands = Store!Routed
<1> SUFFICES ASSUME StoreInv, main = "matmul"
             PROVE  Store!Loaded(Resident) /\ Operands = Store!Routed
  OBVIOUS
<1> USE DEF StoreInv, Inv, SyncInv
<1>1. ids \in Seq(Experts) /\ Len(ids) \in Nat /\ DOMAIN ids = 1 .. Len(ids)
  BY DEF TypeOK
<1>2. /\ Len(out) = Len(ids) /\ AllDone
      /\ \A i \in 1 .. Len(out) : pool[out[i]] = <<layer, ids[i]>>
  BY InvMatmul DEF MatmulReadsItsExperts, AllDone
<1>3. ASSUME NEW i \in 1 .. Len(ids)
      PROVE  <<layer, ids[i]>> \in Resident
  <2>1. <<layer, ids[i]>> \in Keys /\ out[i] \in Slots
    BY <1>1, <1>2, ElementOfSeq DEF Keys, TypeOK
  <2>2. slot_key[out[i]] = <<layer, ids[i]>>
    BY <1>2 DEF EmittedHeld, InOp
  <2>3. where[<<layer, ids[i]>>] = out[i]
    BY <2>1, <2>2, NullAssumption DEF MapsAgree
  <2>4. QED
    BY <1>2, <2>1, <2>3, NullAssumption DEF Resident, AllDone, Fetching
<1>4. Store!Loaded(Resident)
  BY <1>1, <1>3 DEF Store!Loaded, Store!Routed
<1>5. Operands = Store!Routed
  BY <1>1, <1>2 DEF Operands, Store!Routed
<1>6. QED
  BY <1>4, <1>5

\* A step that leaves the graph where it is, in the same op, only moves experts.
LEMMA PageStep ==
  ASSUME StoreInv, StoreInv', Phase' = Phase, UNCHANGED <<tokens, layer, ids>>,
         Store!Fits(Resident)', Resident' \subseteq Keys,
         main' = "matmul" => (Store!Loaded(Resident) /\ Operands = Store!Routed)'
  PROVE  Store!Page
<1>1. /\ Phase = "computing" <=> main = "matmul"
      /\ Phase' = "computing" <=> main' = "matmul"
  BY DEF Phase, Aborted, StoreInv, Inv, TypeOK
<1>2. Operands' = Operands
  BY <1>1, MatmulServed DEF Operands, Store!Routed
<1>3. Phase = "computing" => Store!Loaded(Resident')
  BY <1>1 DEF Store!Loaded, Store!Routed
<1>4. Store!Fits(Resident')
  BY DEF Store!Fits, Store!OfGroup
<1>5. QED
  BY <1>2, <1>3, <1>4 DEF Store!Page, Store!Keys, Keys, Store!Layers, Layers

\* A step that ends the wait of an op serves it, if it moves no expert.
LEMMA ServeStep ==
  ASSUME Phase = "waiting", main' = "matmul", Resident' = Resident, Operands = <<>>,
         UNCHANGED <<tokens, layer, ids>>,
         (Store!Loaded(Resident) /\ Operands = Store!Routed)'
  PROVE  Store!Serve
<1>1. Store!Loaded(Resident) /\ Operands' = Store!Routed
  BY DEF Store!Loaded, Store!Routed
<1>2. Phase' = "computing"
  BY DEF Phase, Aborted
<1>3. QED
  BY <1>1, <1>2 DEF Store!Serve

LEMMA StoreStep ==
  ASSUME StoreInv, StoreInv', [Next]_vars,
         Store!Fits(Resident)', Resident' \subseteq Keys,
         main' = "matmul" => (Store!Loaded(Resident) /\ Operands = Store!Routed)'
  PROVE  Store!Next
<1>1. CASE Phase' = Phase /\ UNCHANGED <<tokens, layer, ids>>
  BY <1>1, PageStep DEF Store!Next
<1>2. CASE BeginPass
  <2>1. Phase = "idle" /\ Phase' = "graph" /\ Operands = <<>> /\ Operands' = <<>>
    BY <1>2 DEF BeginPass, Phase, Aborted, Operands
  <2>2. Resident' = Resident
    BY <1>2 DEF BeginPass, cache, crew, Resident, Fetching
  <2>3. QED
    BY <1>2, <2>1, <2>2 DEF BeginPass, Store!StartPass, Store!Next
<1>3. CASE BeginOp
  <2>1. Phase = "graph" /\ Phase' = "waiting" /\ Operands = <<>> /\ Operands' = <<>>
    BY <1>3 DEF BeginOp, Phase, Aborted, Operands
  <2>2. Resident' = Resident
    BY <1>3 DEF BeginOp, crew, Resident, Fetching
  <2>3. QED
    BY <1>3, <2>1, <2>2 DEF BeginOp, Store!Route, TopK, Store!TopK, Store!Next
<1>4. CASE ResolveAbort \/ \E r \in Readers : ReadFails(r)
  <2>1. Phase' = "failed" /\ Operands' = <<>> /\ UNCHANGED <<tokens, layer, ids>>
    BY <1>4 DEF ResolveAbort, ReadFails, Phase, Aborted, Operands, op
  <2>2. Resident' = Resident
    BY <1>4 DEF ResolveAbort, ReadFails, cache, crew, Resident, Fetching
  <2>3. QED
    BY <2>1, <2>2 DEF Store!Fail, Store!Next
<1>5. CASE ResolveDone /\ main' = "matmul"
  <2>1. /\ Phase = "waiting" /\ Operands = <<>> /\ main = "resolve"
        /\ UNCHANGED <<tokens, layer, ids, where, pool, misses, drawn>>
    BY <1>5 DEF ResolveDone, Phase, Aborted, Operands, op, cache
  <2>2. (\A r \in Readers : ~Fetching(r)) /\ (\A r \in Readers : ~Fetching(r))'
    BY <1>5, <2>1 DEF StoreInv, Inv, SyncInv, ReadersRight, AllDone, Fetching
  <2>3. Resident' = Resident
    BY <2>1, <2>2 DEF Resident
  <2>4. QED
    BY <1>5, <2>1, <2>3, ServeStep DEF Store!Next
<1>6. CASE Joined
  <2>1. /\ Phase = "waiting" /\ Operands = <<>> /\ main' = "matmul"
        /\ UNCHANGED <<tokens, layer, ids>>
    BY <1>6 DEF Joined, Phase, Aborted, Operands, op
  <2>2. Resident' = Resident
    BY <1>6 DEF Joined, cache, crew, Resident, Fetching
  <2>3. QED
    BY <2>1, <2>2, ServeStep DEF Store!Next
<1>7. CASE EndMatmul
  <2>1. /\ Phase = "computing" /\ Operands' = <<>>
        /\ Phase' = IF layer = NLayers THEN "idle" ELSE "graph"
    BY <1>7 DEF EndMatmul, Phase, Aborted, Operands
  <2>2. \A r \in Readers : ~Fetching(r) /\ ~Fetching(r)'
    BY <1>7 DEF EndMatmul, StoreInv, Inv, SyncInv, ReadersRight, AllDone, Fetching
  <2>3. Resident' = Resident
    BY <1>7, <2>2 DEF EndMatmul, cache, Resident
  <2>4. QED
    BY <1>7, <2>1, <2>3 DEF EndMatmul, Store!Finish, Store!Next
<1>8. CASE Destroy
  <2>1. /\ Phase = "idle" /\ Phase' = "stopped" /\ Operands' = Operands
        /\ UNCHANGED <<tokens, layer, ids>>
    BY <1>8 DEF Destroy, Phase, Aborted, Operands, op
  <2>2. Resident' = Resident
    BY <1>8 DEF Destroy, cache, crew, Resident, Fetching
  <2>3. QED
    BY <2>1, <2>2 DEF Store!Stop, Store!Next
<1>9. CASE ResolveHit \/ ResolveMiss \/ (ResolveDone /\ main' # "matmul")
  <2>1. /\ main = "resolve" /\ main' \in {"resolve", "fetch"}
        /\ UNCHANGED <<tokens, layer, ids>>
    BY <1>9 DEF ResolveHit, ResolveMiss, Resolving, ResolveDone, op
  <2>2. QED
    BY <1>1, <2>1 DEF Phase, Aborted
<1>10. CASE Finished \/ UNCHANGED vars \/ \E r \in Readers : ReaderStep(r)
  <2>1. UNCHANGED <<main, tokens, layer, ids>>
    BY <1>10 DEF ReaderStep, Draw, Quit, Read, Scatter, Finished, vars, op
  <2>2. QED
    BY <1>1, <2>1 DEF Phase, Aborted
<1>11. QED
  BY <1>2, <1>3, <1>4, <1>5, <1>6, <1>7, <1>8, <1>9, <1>10 DEF Next, GraphStep

-----------------------------------------------------------------------------
(* The theorems.                                                           *)

LEMMA InvHolds == Spec => []Inv
<1>1. Init => Inv
  BY InitType, InitSync DEF Inv
<1>2. Inv /\ [Next]_vars => Inv'
  BY NextType, NextSync DEF Inv
<1>3. QED
  BY <1>1, <1>2, PTL DEF Spec

\* Every variable keeps its type.
THEOREM TypeCorrect == Spec => []TypeOK
<1>1. Inv => TypeOK
  BY DEF Inv
<1>2. QED
  BY <1>1, InvHolds, PTL

\* The slots emitted, the misses, the atomic index and the readers fit together:
\* the inductive invariant of the synchronous path.
THEOREM SyncCorrect == Spec => []SyncInv
<1>1. Inv => SyncInv
  BY DEF Inv
<1>2. QED
  BY <1>1, InvHolds, PTL

\* The op never returns before the bytes of each of its experts are in the slot it
\* emitted for it, with all readers joined.
THEOREM MatmulCorrect == Spec => []MatmulReadsItsExperts
  BY InvMatmul, InvHolds, PTL

\* What the cache claims is loaded, or a miss of this op that is still to be fetched, and
\* what the op has claimed it keeps until its mul_mat_ids are done.
THEOREM ClaimCorrect == Spec => []ClaimedIsLoadedOrPending
  BY InvClaimed, InvHolds, PTL

\* The atomic index keeps the readers apart, and none fetches what its slot has already.
THEOREM ApartCorrect == Spec => []ReadersApart
<1>1. Init => UnfetchedAbsent
  BY DEF Init, CacheInit, UnfetchedAbsent
<1>2. QED
  BY <1>1, NextUnfetched, InvApart, InvHolds, PTL DEF Spec

\* "expert cache too small" cannot happen on the synchronous path unless the op routes
\* to more experts than its group has slots.
THEOREM FitsCorrect == Spec => []OpAlwaysFits
<1>1. Init => OpAlwaysFits
  BY DEF Init, OpAlwaysFits
<1>2. QED
  BY <1>1, NextFits, InvHolds, PTL DEF Spec

\* With lookahead off, whatever the geometry and the number of readers, the layers
\* compute as if every expert were in memory, or the process fails.
THEOREM SyncImplementsStore == Spec => ImplementsStore
<1>1. Init => StoreInv /\ Store!Init
  <2> SUFFICES ASSUME Init PROVE StoreInv /\ Store!Init
    OBVIOUS
  <2>1. StoreInv
    BY InitType, InitSync DEF StoreInv, Inv, OwnPool, Init, CacheInit
  <2>2. Resident = {}
    BY DEF Resident, Init, CacheInit
  <2>3. Phase = "idle" /\ Operands = <<>>
    BY DEF Phase, Aborted, Operands, Init
  <2>4. QED
    BY <2>1, <2>2, <2>3 DEF Store!Init, Init
<1>2. StoreInv /\ [Next]_vars => StoreInv'
  BY NextType, NextSync, OwnPoolStep DEF StoreInv, Inv
<1>3. /\ StoreInv => Resident \subseteq Keys /\ Store!Fits(Resident)
      /\ StoreInv /\ main = "matmul" => Store!Loaded(Resident) /\ Operands = Store!Routed
  BY ResidentFits, MatmulServed
<1>4. (StoreInv => Resident \subseteq Keys /\ Store!Fits(Resident))'
  BY <1>3, PTL
<1>5. (StoreInv /\ main = "matmul" =>
         Store!Loaded(Resident) /\ Operands = Store!Routed)'
  BY <1>3, PTL
<1>6. StoreInv /\ StoreInv' /\ [Next]_vars => [Store!Next]_Store!store
  BY <1>4, <1>5, StoreStep
<1>7. QED
  BY <1>1, <1>2, <1>6, PTL DEF Spec, ImplementsStore, Store!Spec

-----------------------------------------------------------------------------
(* The simulated LRU.                                                      *)

\* The order of use, with the slots that were never used first, is kept by a slot's use,
\* and the slot itself comes after all others.
KeepsOrder(s) ==
  \A t, u \in Slots \ {s} : slot_used[t] < slot_used[u] => slot_used'[t] < slot_used'[u]

LEMMA TouchRanks ==
  ASSUME slot_used \in [Slots -> Nat], RanksRight, NEW s \in Slots, slot_used' = Touch(s),
         slot_key'[s] # NoKey, \A t \in Slots \ {s} : slot_key'[t] = slot_key[t]
  PROVE  /\ RanksRight'
         /\ KeepsOrder(s)
         /\ \A t \in Slots \ {s} : slot_used'[t] < slot_used'[s]
<1> DEFINE N == Cardinality(Slots)
           c == Cardinality(Fresh)
           d == Cardinality(Fresh \ {s})
           used == slot_used
<1>1. IsFiniteSet(Slots) /\ IsFiniteSet(Fresh) /\ N \in Nat /\ c \in Nat
  <2>1. IsFiniteSet(Slots)
    BY SlotsFinite
  <2>2. IsFiniteSet(Fresh)
    BY <2>1, FS_Subset DEF Fresh
  <2>3. QED
    BY <2>1, <2>2, FS_CardinalityType
<1>2. d \in Nat /\ d = (IF s \in Fresh THEN c - 1 ELSE c)
  BY <1>1, FS_RemoveElement, FS_CardinalityType
<1>3. d < N
  <2>1. Fresh \ {s} \subseteq Slots \ {s} /\ IsFiniteSet(Slots \ {s})
    BY <1>1, FS_RemoveElement DEF Fresh
  <2>2. Cardinality(Slots \ {s}) = N - 1
    BY <1>1, FS_RemoveElement
  <2>3. d <= Cardinality(Slots \ {s})
    BY <2>1, FS_Subset
  <2> HIDE DEF d, N
  <2>4. QED
    BY <1>1, <1>2, <2>2, <2>3
<1>4. Fresh' = Fresh \ {s}
  BY DEF Fresh
<1>5. used' \in [Slots -> Nat] /\ used'[s] = N
  BY <1>1, TouchType DEF Touch
<1>6. ASSUME NEW t \in Slots \ {s}
      PROVE  used'[t] = IF used[t] > used[s] THEN used[t] - 1 ELSE used[t]
  BY DEF Touch
<1>7. /\ \A t \in Slots : used[t] \in Nat /\ used[t] <= N
      /\ \A t \in Slots : t \in Fresh => used[t] = 0
      /\ \A t \in Slots : t \notin Fresh => used[t] > c
      /\ \A t, u \in Slots : t \notin Fresh /\ used[t] = used[u] => t = u
  BY <1>1 DEF RanksRight
<1> HIDE DEF N, c, d, used
<1>8. ASSUME NEW t \in Slots \ {s}
      PROVE  /\ t \in Fresh => used'[t] = 0
             /\ t \notin Fresh => d < used'[t]
             /\ used'[t] < N
  <2>0. used[s] \in Nat /\ used[t] \in Nat /\ used[s] <= N /\ used[t] <= N
    BY <1>7
  <2>1. CASE t \in Fresh
    <3>1. used[t] = 0
      BY <1>7, <2>1
    <3>2. used'[t] = 0
      BY <1>6, <2>0, <3>1
    <3>3. QED
      BY <1>1, <1>2, <1>3, <2>1, <3>2
  <2>2. CASE t \notin Fresh /\ used[t] > used[s]
    <3>1. used'[t] = used[t] - 1 /\ used[t] > c
      BY <1>6, <1>7, <2>2
    <3>2. s \notin Fresh => used[s] > c
      BY <1>7
    <3>3. QED
      BY <1>1, <1>2, <2>0, <2>2, <3>1, <3>2
  <2>3. CASE t \notin Fresh /\ ~(used[t] > used[s])
    <3>1. used'[t] = used[t] /\ used[t] > c /\ used[t] # used[s]
      BY <1>6, <1>7, <2>3
    <3>2. QED
      BY <1>1, <1>2, <2>0, <2>3, <3>1
  <2>4. QED
    BY <2>1, <2>2, <2>3
<1>9. ASSUME NEW t \in Slots \ {s}, NEW u \in Slots \ {s}, used[t] < used[u]
      PROVE  used'[t] < used'[u]
  <2>1. u \notin Fresh /\ used[t] \in Nat /\ used[u] \in Nat /\ used[s] \in Nat
    BY <1>7, <1>9
  <2>2. used[s] # used[u]
    BY <1>7, <2>1
  <2>3. CASE used[u] > used[s] /\ used[t] > used[s]
    BY <1>6, <1>9, <2>1, <2>3
  <2>4. CASE used[u] > used[s] /\ ~(used[t] > used[s])
    <3>1. used'[u] = used[u] - 1 /\ used'[t] = used[t]
      BY <1>6, <2>4
    <3>2. used[t] = used[s] => t \in Fresh /\ s \in Fresh
      BY <1>7
    <3>3. CASE used[t] # used[s]
      BY <2>1, <2>4, <3>1, <3>3
    <3>4. CASE used[t] = used[s]
      <4>1. used[t] = 0 /\ used'[u] > d
        BY <1>7, <1>8, <2>1, <3>2, <3>4
      <4>2. QED
        BY <1>2, <2>1, <3>1, <4>1
    <3>5. QED
      BY <3>3, <3>4
  <2>5. CASE ~(used[u] > used[s])
    BY <1>6, <1>9, <2>1, <2>5
  <2>6. QED
    BY <2>3, <2>4, <2>5
<1>10. RanksRight'
  <2>1. ASSUME NEW t \in Slots
        PROVE  IF t \in Fresh \ {s} THEN used'[t] = 0 ELSE d < used'[t] /\ used'[t] <= N
    <3>1. CASE t = s
      BY <1>1, <1>3, <1>5, <3>1
    <3>2. CASE t # s
      BY <1>1, <1>5, <1>8, <3>2
    <3>3. QED
      BY <3>1, <3>2
  <2>2. ASSUME NEW t \in Slots, NEW u \in Slots, t \notin Fresh \ {s}, used'[t] = used'[u], t # u
        PROVE  FALSE
    <3>0. used'[t] \in Nat /\ used'[u] \in Nat
      BY <1>5
    <3>1. CASE t = s
      BY <1>1, <1>5, <1>8, <2>2, <3>0, <3>1
    <3>2. CASE u = s
      BY <1>1, <1>5, <1>8, <2>2, <3>0, <3>2
    <3>3. CASE t # s /\ u # s
      <4>1. used[t] # used[u] /\ used[t] \in Nat /\ used[u] \in Nat
        BY <1>7, <2>2, <3>3
      <4>2. used[t] < used[u] \/ used[u] < used[t]
        BY <4>1
      <4>3. used'[t] < used'[u] \/ used'[u] < used'[t]
        BY <1>9, <3>3, <4>2
      <4>4. QED
        BY <2>2, <3>0, <4>3
    <3>4. QED
      BY <3>1, <3>2, <3>3
  <2>3. QED
    BY <1>4, <2>1, <2>2 DEF RanksRight, d, N, used
<1>11. QED
  BY <1>5, <1>8, <1>9, <1>10 DEF KeepsOrder, used

\* The simulated keys lru are those of the group's slots, in the order of use.
InStep(g, lru, key_of, at, used) ==
  /\ lru \in Seq(Keys)
  /\ \A k \in Keys : k \in ToSet(lru) <=> \E s \in SlotsOf(g) : key_of[s] = k
  /\ \A i, j \in 1 .. Len(lru) : i < j => used[at[lru[i]]] < used[at[lru[j]]]

AllInStep == \A g \in Groups : InStep(g, sim[g].lru, slot_key, where, slot_used)

SimTyped == \A g \in Groups : sim[g].lru \in Seq(Keys)

\* What SimulatorAgrees says of the keys and slots, of one key and slot.
LEMMA AgreesIs ==
  ASSUME TypeOK, MapsAgree, SimTyped
  PROVE  SimulatorAgrees <=> AllInStep
<1> DEFINE Held(g) == {s \in SlotsOf(g) : slot_key[s] # NoKey}
           Named(g) == {slot_key[s] : s \in Held(g)} = {sim[g].lru[i] : i \in DOMAIN sim[g].lru}
           Aged(g) == \A i, j \in DOMAIN sim[g].lru :
                        i < j => slot_used[where[sim[g].lru[i]]] < slot_used[where[sim[g].lru[j]]]
<1>1. SimulatorAgrees <=> \A g \in Groups : Named(g) /\ Aged(g)
  BY Zenon DEF SimulatorAgrees
<1>2. ASSUME NEW g \in Groups
      PROVE  (Named(g) /\ Aged(g)) <=> InStep(g, sim[g].lru, slot_key, where, slot_used)
  <2> DEFINE lru == sim[g].lru
             Both == \A k \in Keys : k \in ToSet(lru) <=> \E s \in SlotsOf(g) : slot_key[s] = k
  <2>1. lru \in Seq(Keys) /\ DOMAIN lru = 1 .. Len(lru) /\ \A i \in 1 .. Len(lru) : lru[i] \in Keys
    BY DEF SimTyped
  <2>2. \A s \in SlotsOf(g) : slot_key[s] \in Keys \cup {NoKey}
    BY DEF TypeOK, SlotsOf
  <2>3. NoKey \notin Keys
    BY NullAssumption
  <2>4. \A k : k \in {lru[i] : i \in DOMAIN lru} <=> k \in ToSet(lru)
    BY DEF ToSet
  <2>5. \A k : k \in ToSet(lru) => k \in Keys
    BY <2>1 DEF ToSet
  <2>6. \A k : k \in {slot_key[s] : s \in Held(g)} <=> k \in Keys /\ \E s \in SlotsOf(g) : slot_key[s] = k
    BY <2>2, <2>3
  <2> HIDE DEF lru
  <2>7. Named(g) <=> Both
    <3>1. Named(g) <=> \A k : k \in {slot_key[s] : s \in Held(g)} <=> k \in {lru[i] : i \in DOMAIN lru}
      BY DEF lru
    <3> HIDE DEF Named, Held
    <3>2. QED
      BY <2>4, <2>5, <2>6, <3>1
  <2>8. Aged(g) <=> \A i, j \in 1 .. Len(lru) : i < j => slot_used[where[lru[i]]] < slot_used[where[lru[j]]]
    BY <2>1 DEF lru
  <2> HIDE DEF Named, Aged
  <2>9. QED
    BY <2>1, <2>7, <2>8, Zenon DEF InStep, lru
<1> HIDE DEF Named, Aged
<1>3. QED
  BY <1>1, <1>2 DEF AllInStep

\* A simulated key is in its slot, and the simulated keys are distinct.
LruHeld(g, lru) ==
  /\ \A i \in 1 .. Len(lru) : /\ lru[i] \in Keys
                              /\ where[lru[i]] \in SlotsOf(g)
                              /\ slot_key[where[lru[i]]] = lru[i]
  /\ \A i, j \in 1 .. Len(lru) : lru[i] = lru[j] => i = j

LEMMA LruIsHeld ==
  ASSUME TypeOK, MapsAgree, NEW g \in Groups, NEW lru,
         InStep(g, lru, slot_key, where, slot_used)
  PROVE  LruHeld(g, lru)
<1>1. lru \in Seq(Keys) /\ \A i \in 1 .. Len(lru) : lru[i] \in Keys /\ lru[i] \in ToSet(lru)
  BY DEF InStep, ToSet
<1>2. \A i \in 1 .. Len(lru) : /\ where[lru[i]] \in SlotsOf(g)
                              /\ slot_key[where[lru[i]]] = lru[i]
  <2> SUFFICES ASSUME NEW i \in 1 .. Len(lru)
               PROVE  /\ where[lru[i]] \in SlotsOf(g)
                      /\ slot_key[where[lru[i]]] = lru[i]
    OBVIOUS
  <2>1. PICK s \in SlotsOf(g) : slot_key[s] = lru[i]
    BY <1>1 DEF InStep
  <2>2. s \in Slots /\ slot_key[s] # NoKey
    BY <1>1, <2>1, NullAssumption DEF SlotsOf
  <2>3. where[slot_key[s]] = s
    BY <2>2 DEF MapsAgree
  <2>4. QED
    BY <2>1, <2>3
<1>3. \A i \in 1 .. Len(lru) : slot_used[where[lru[i]]] \in Nat
  BY <1>2 DEF TypeOK, SlotsOf
<1>4. \A i, j \in 1 .. Len(lru) : i < j => slot_used[where[lru[i]]] < slot_used[where[lru[j]]]
  BY DEF InStep
<1>5. \A i, j \in 1 .. Len(lru) : lru[i] = lru[j] => i = j
  <2> SUFFICES ASSUME NEW i \in 1 .. Len(lru), NEW j \in 1 .. Len(lru), lru[i] = lru[j], i < j
               PROVE  FALSE
    BY <1>1
  <2>1. slot_used[where[lru[i]]] < slot_used[where[lru[j]]]
    BY <1>4
  <2>2. QED
    BY <1>3, <2>1
<1>6. QED
  BY <1>1, <1>2, <1>5 DEF LruHeld

-----------------------------------------------------------------------------
(* One reference.                                                          *)

\* new holds keys of lru in their order, none of them w, and w after them.
Aging(new, lru, w, e) ==
  /\ new \in Seq(Keys)
  /\ Len(new) > 0 /\ new[Len(new)] = w
  /\ \A i \in 1 .. Len(new) - 1 : e[i] \in 1 .. Len(lru) /\ new[i] = lru[e[i]] /\ new[i] # w
  /\ \A i, j \in 1 .. Len(new) - 1 : i < j => e[i] < e[j]

IsAging(new, lru, w) == \E e : Aging(new, lru, w, e)

LEMMA MovesToEnd ==
  ASSUME NEW lru, lru \in Seq(Keys), NEW w \in Keys, w \in ToSet(lru)
  PROVE  /\ IsAging(MoveToEnd(lru, w), lru, w)
         /\ \A k : k \in ToSet(MoveToEnd(lru, w)) <=> k \in ToSet(lru)
<1> DEFINE K == ToSet(lru) \ {w}
           kept == Keep(lru, K)
           n == Len(kept)
           new == MoveToEnd(lru, w)
<1>1. kept \in Seq(Keys)
  BY KeepIs
<1>2. PICK e : IsSelection(e, lru, K, kept)
  BY KeepIs
<1>3. new = Append(kept, w)
  BY DEF MoveToEnd
<1>4. \A i \in 1 .. Len(lru) : lru[i] \in ToSet(lru)
  BY DEF ToSet
<1>5. \A k : k \in ToSet(lru) => \E i \in 1 .. Len(lru) : lru[i] = k
  BY DEF ToSet
<1>6. \A k \in K : k \in ToSet(lru) /\ k # w
  OBVIOUS
<1>7. \A k : k \in ToSet(lru) => k = w \/ k \in K
  OBVIOUS
<1>8. /\ e \in [1 .. n -> 1 .. Len(lru)]
      /\ \A k \in 1 .. n : kept[k] = lru[e[k]] /\ lru[e[k]] \in K
      /\ \A j, k \in 1 .. n : j < k => e[j] < e[k]
      /\ \A i \in 1 .. Len(lru) : lru[i] \in K => \E k \in 1 .. n : e[k] = i
  BY <1>2, Zenon DEF IsSelection
<1> HIDE DEF K, kept
<1>9. /\ new \in Seq(Keys) /\ Len(new) = n + 1 /\ n \in Nat
      /\ \A i \in 1 .. n : new[i] = kept[i]
      /\ new[n + 1] = w
  BY <1>1, <1>3
<1> HIDE DEF new, n
<1>10. Aging(new, lru, w, e)
  <2>1. Len(new) > 0 /\ 1 .. Len(new) - 1 = 1 .. n
    BY <1>9
  <2>2. \A i \in 1 .. n : e[i] \in 1 .. Len(lru) /\ new[i] = lru[e[i]] /\ new[i] # w
    BY <1>6, <1>8, <1>9
  <2>3. QED
    BY <1>8, <1>9, <2>1, <2>2 DEF Aging
<1>11. \A k : k \in ToSet(new) <=> k \in ToSet(lru)
  <2>1. \A k : k \in ToSet(new) <=> \E i \in 1 .. n + 1 : new[i] = k
    BY <1>9 DEF ToSet
  <2>2. ASSUME NEW k, k \in ToSet(new)
        PROVE  k \in ToSet(lru)
    <3>1. PICK i \in 1 .. n + 1 : new[i] = k
      BY <2>1, <2>2
    <3>2. CASE i = n + 1
      BY <1>9, <3>1, <3>2
    <3>3. CASE i \in 1 .. n
      BY <1>6, <1>8, <1>9, <3>1, <3>3
    <3>4. QED
      BY <1>9, <3>2, <3>3
  <2>3. ASSUME NEW k, k \in ToSet(lru)
        PROVE  k \in ToSet(new)
    <3>1. CASE k = w
      <4>1. n + 1 \in 1 .. n + 1
        BY <1>9
      <4>2. QED
        BY <1>9, <2>1, <3>1, <4>1
    <3>2. CASE k \in K
      <4>1. PICK i \in 1 .. Len(lru) : lru[i] = k
        BY <1>5, <2>3
      <4>2. PICK j \in 1 .. n : e[j] = i
        BY <1>8, <3>2, <4>1
      <4>3. new[j] = k /\ j \in 1 .. n + 1
        BY <1>8, <1>9, <4>1, <4>2
      <4>4. QED
        BY <2>1, <4>3
    <3>3. QED
      BY <1>7, <2>3, <3>1, <3>2
  <2>4. QED
    BY <2>2, <2>3
<1>12. QED
  BY <1>10, <1>11 DEF IsAging, new

Injected(lru) == \A i, j \in 1 .. Len(lru) : lru[i] = lru[j] => i = j

LEMMA AppendAges ==
  ASSUME NEW lru, lru \in Seq(Keys), NEW w \in Keys, w \notin ToSet(lru)
  PROVE  /\ IsAging(Append(lru, w), lru, w)
         /\ \A k : k \in ToSet(Append(lru, w)) <=> k = w \/ k \in ToSet(lru)
<1> DEFINE new == Append(lru, w)
           n == Len(lru)
           e == [i \in 1 .. n |-> i]
<1>1. /\ new \in Seq(Keys) /\ Len(new) = n + 1 /\ n \in Nat
      /\ \A i \in 1 .. n : new[i] = lru[i]
      /\ new[n + 1] = w
  OBVIOUS
<1>2. \A k : k \in ToSet(lru) <=> \E i \in 1 .. n : lru[i] = k
  BY DEF ToSet
<1> HIDE DEF new
<1>3. \A k : k \in ToSet(new) <=> \E i \in 1 .. n + 1 : new[i] = k
  BY <1>1 DEF ToSet
<1> HIDE DEF n
<1>4. Aging(new, lru, w, e)
  <2>1. Len(new) > 0 /\ 1 .. Len(new) - 1 = 1 .. n
    BY <1>1
  <2>2. \A i \in 1 .. n : e[i] \in 1 .. Len(lru) /\ new[i] = lru[e[i]] /\ new[i] # w
    BY <1>1, <1>2 DEF n
  <2>3. \A i, j \in 1 .. n : i < j => e[i] < e[j]
    OBVIOUS
  <2>4. QED
    BY <1>1, <2>1, <2>2, <2>3 DEF Aging
<1>5. \A k : k \in ToSet(new) <=> k = w \/ k \in ToSet(lru)
  <2>1. \A i \in 1 .. n + 1 : i = n + 1 \/ i \in 1 .. n
    BY <1>1
  <2>2. n + 1 \in 1 .. n + 1 /\ \A i \in 1 .. n : i \in 1 .. n + 1
    BY <1>1
  <2>3. QED
    BY <1>1, <1>2, <1>3, <2>1, <2>2
<1>6. QED
  BY <1>4, <1>5 DEF IsAging, new

LEMMA PopAges ==
  ASSUME NEW lru, lru \in Seq(Keys), Injected(lru), Len(lru) > 0, NEW w \in Keys, w \notin ToSet(lru)
  PROVE  /\ IsAging(Tail(Append(lru, w)), lru, w)
         /\ \A k : k \in ToSet(Tail(Append(lru, w))) <=> k = w \/ (k \in ToSet(lru) /\ k # lru[1])
<1> DEFINE new == Tail(Append(lru, w))
           n == Len(lru)
           e == [i \in 1 .. n - 1 |-> i + 1]
<1>1. /\ new \in Seq(Keys) /\ Len(new) = n /\ n \in Nat \ {0}
      /\ \A i \in 1 .. n - 1 : new[i] = lru[i + 1]
      /\ new[n] = w
  <2>1. Append(lru, w) \in Seq(Keys) /\ Len(Append(lru, w)) = n + 1 /\ n \in Nat \ {0}
        /\ Append(lru, w)[n + 1] = w
        /\ \A i \in 1 .. n : Append(lru, w)[i] = lru[i]
    OBVIOUS
  <2> DEFINE longer == Append(lru, w)
  <2> HIDE DEF longer
  <2>2. /\ longer \in Seq(Keys) /\ Len(longer) = n + 1 /\ n \in Nat \ {0} /\ longer[n + 1] = w
        /\ \A i \in 1 .. n : longer[i] = lru[i]
        /\ new = Tail(longer)
    BY <2>1 DEF longer
  <2> HIDE DEF n, new
  <2>3. longer # <<>>
    BY <2>2
  <2>4. new \in Seq(Keys) /\ Len(new) = n /\ \A i \in 1 .. n : new[i] = longer[i + 1]
    BY <2>2, <2>3
  <2>5. \A i \in 1 .. n - 1 : i + 1 \in 1 .. n /\ i \in 1 .. n
    BY <2>2
  <2>6. n \in 1 .. n
    BY <2>2
  <2>7. QED
    BY <2>2, <2>4, <2>5, <2>6
<1>2. \A k : k \in ToSet(lru) <=> \E i \in 1 .. n : lru[i] = k
  BY DEF ToSet
<1> HIDE DEF new
<1>3. \A k : k \in ToSet(new) <=> \E i \in 1 .. n : new[i] = k
  BY <1>1 DEF ToSet
<1>4. \A i, j \in 1 .. n : lru[i] = lru[j] => i = j
  BY DEF Injected
<1>5. \A i \in 1 .. n - 1 : i + 1 \in 1 .. n /\ i \in 1 .. n /\ i + 1 # 1
  BY <1>1
<1>6. \A i \in 1 .. n : i = 1 \/ (i - 1 \in 1 .. n - 1 /\ (i - 1) + 1 = i)
  BY <1>1
<1>7. 1 \in 1 .. n /\ n \in 1 .. n /\ \A i \in 1 .. n : i = n \/ i \in 1 .. n - 1
  BY <1>1
<1>8. Aging(new, lru, w, e)
  <2>1. Len(new) > 0 /\ 1 .. Len(new) - 1 = 1 .. n - 1 /\ 1 .. Len(lru) = 1 .. n
    BY <1>1
  <2> HIDE DEF n
  <2>2. \A i \in 1 .. n - 1 : e[i] \in 1 .. n /\ new[i] = lru[e[i]] /\ new[i] # w
    BY <1>1, <1>2, <1>5
  <2>3. \A i, j \in 1 .. n - 1 : i < j => e[i] < e[j]
    OBVIOUS
  <2>4. QED
    BY <1>1, <2>1, <2>2, <2>3 DEF Aging
<1> HIDE DEF n
<1>9. \A k : k \in ToSet(new) <=> k = w \/ (k \in ToSet(lru) /\ k # lru[1])
  <2>1. ASSUME NEW k, k \in ToSet(new)
        PROVE  k = w \/ (k \in ToSet(lru) /\ k # lru[1])
    <3>1. PICK i \in 1 .. n : new[i] = k
      BY <1>3, <2>1
    <3>2. CASE i = n
      BY <1>1, <3>1, <3>2
    <3>3. CASE i \in 1 .. n - 1
      <4>1. k = lru[i + 1]
        BY <1>1, <3>1, <3>3
      <4>2. lru[i + 1] # lru[1]
        BY <1>4, <1>5, <1>7, <3>3
      <4>3. QED
        BY <1>2, <1>5, <3>3, <4>1, <4>2
    <3>4. QED
      BY <1>7, <3>2, <3>3
  <2>2. ASSUME NEW k, k \in ToSet(lru), k # lru[1]
        PROVE  k \in ToSet(new)
    <3>1. PICK i \in 1 .. n : lru[i] = k
      BY <1>2, <2>2
    <3>2. i - 1 \in 1 .. n - 1 /\ (i - 1) + 1 = i
      BY <1>6, <2>2, <3>1
    <3>3. new[i - 1] = k /\ i - 1 \in 1 .. n
      BY <1>1, <1>5, <3>1, <3>2
    <3>4. QED
      BY <1>3, <3>3
  <2>3. w \in ToSet(new)
    BY <1>1, <1>3, <1>7
  <2>4. QED
    BY <2>1, <2>2, <2>3
<1>10. QED
  BY <1>8, <1>9 DEF IsAging, new

\* A group without pinned experts has the places that were asked for.
LEMMA CapacityIs == ASSUME NEW n \in Nat PROVE LruCapacity(n, {}) = n
<1>1. Cardinality({}) = 0
  BY FS_EmptySet
<1>2. LruCapacity(n, {}) = Max({n, 0})
  BY <1>1 DEF LruCapacity, Positive
<1>3. Max({n, 0}) = n
  <2>1. \E x \in {n, 0} : \A y \in {n, 0} : x >= y
    OBVIOUS
  <2> DEFINE x == CHOOSE x \in {n, 0} : \A y \in {n, 0} : x >= y
  <2>2. x \in {n, 0} /\ \A y \in {n, 0} : x >= y
    BY <2>1
  <2>3. Max({n, 0}) = x
    BY DEF Max
  <2> HIDE DEF x
  <2>4. QED
    BY <2>2, <2>3
<1>4. QED
  BY <1>2, <1>3

\* What a reference does to the simulated keys.
LEMMA AccessIs ==
  ASSUME NEW s, NEW w, NEW n \in Nat
  PROVE  Access(s, w, LruCapacity(n, {}), {}, FALSE).lru =
           IF w \in ToSet(s.lru) THEN MoveToEnd(s.lru, w)
           ELSE IF n > 0 THEN PopOldest(Append(s.lru, w), n)
           ELSE s.lru
  BY CapacityIs DEF Access

-----------------------------------------------------------------------------
(* The order of use.                                                       *)

\* The order of a group is kept by the use of slot s, when the keys of new were kept from
\* those of lru, and the last has slot s.
LEMMA OrderKept ==
  ASSUME TypeOK, RanksRight, NEW s \in Slots, KeepsOrder(s),
         \A t \in Slots \ {s} : slot_used'[t] < slot_used'[s],
         NEW g \in Groups, NEW lru, NEW new, NEW w, IsAging(new, lru, w),
         InStep(g, lru, slot_key, where, slot_used), LruHeld(g, lru),
         where'[w] = s,
         \A i \in 1 .. Len(new) - 1 :
           where'[new[i]] = where[new[i]] /\ where[new[i]] # s
  PROVE  \A i, j \in 1 .. Len(new) :
           i < j => slot_used'[where'[new[i]]] < slot_used'[where'[new[j]]]
<1>1. PICK e : Aging(new, lru, w, e)
  BY DEF IsAging
<1> DEFINE n == Len(new)
<1>2. n \in Nat \ {0} /\ new[n] = w
  BY <1>1 DEF Aging
<1>3. \A i \in 1 .. n - 1 : e[i] \in 1 .. Len(lru) /\ new[i] = lru[e[i]]
  BY <1>1, Zenon DEF Aging
<1>4. \A i, j \in 1 .. n - 1 : i < j => e[i] < e[j]
  BY <1>1, Zenon DEF Aging
<1>5. \A i \in 1 .. n - 1 : /\ where'[new[i]] = where[lru[e[i]]]
                           /\ where[lru[e[i]]] \in Slots \ {s}
  <2>1. \A i \in 1 .. Len(lru) : where[lru[i]] \in Slots
    BY DEF LruHeld, SlotsOf
  <2>2. QED
    BY <1>3, <2>1
<1>6. \A i, j \in 1 .. Len(lru) : i < j => slot_used[where[lru[i]]] < slot_used[where[lru[j]]]
  BY DEF InStep
<1> HIDE DEF n
<1>7. SUFFICES ASSUME NEW i \in 1 .. n, NEW j \in 1 .. n, i < j
               PROVE  slot_used'[where'[new[i]]] < slot_used'[where'[new[j]]]
  BY DEF n
<1>8. i \in 1 .. n - 1
  BY <1>2, <1>7
<1>9. CASE j = n
  BY <1>2, <1>5, <1>8, <1>9
<1>10. CASE j \in 1 .. n - 1
  <2>1. slot_used[where[lru[e[i]]]] < slot_used[where[lru[e[j]]]]
    BY <1>3, <1>4, <1>6, <1>7, <1>8, <1>10
  <2>2. slot_used'[where[lru[e[i]]]] < slot_used'[where[lru[e[j]]]]
    BY <1>5, <1>8, <1>10, <2>1 DEF KeepsOrder
  <2>3. QED
    BY <1>5, <1>8, <1>10, <2>2
<1>11. QED
  BY <1>2, <1>9, <1>10

\* While a slot of a group is empty, the simulated cache is not full ...
LEMMA NotFull ==
  ASSUME NEW g \in Groups, NEW lru, lru \in Seq(Keys), LruHeld(g, lru),
         NEW s \in SlotsOf(g), slot_key[s] = NoKey
  PROVE  Len(lru) < NSlots[g]
<1> DEFINE n == Len(lru)
           f == [i \in 1 .. n |-> where[lru[i]]]
           others == SlotsOf(g) \ {s}
<1>1. \A i \in 1 .. n : where[lru[i]] \in others
  BY NullAssumption DEF LruHeld
<1>2. \A i, j \in 1 .. n : where[lru[i]] = where[lru[j]] => i = j
  <2>1. \A i \in 1 .. n : slot_key[where[lru[i]]] = lru[i]
    BY DEF LruHeld
  <2>2. \A i, j \in 1 .. n : lru[i] = lru[j] => i = j
    BY DEF LruHeld
  <2> HIDE DEF n
  <2>3. QED
    BY <2>1, <2>2
<1>3. f \in Injection(1 .. n, others)
  BY <1>1, <1>2 DEF Injection, IsInjective
<1>4. n \in Nat
  OBVIOUS
<1>5. IsFiniteSet(SlotsOf(g)) /\ Cardinality(SlotsOf(g)) = NSlots[g]
  BY SlotsCount
<1> HIDE DEF f, others, n
<1>6. IsFiniteSet(others) /\ Cardinality(others) = NSlots[g] - 1
  BY <1>5, FS_RemoveElement DEF others
<1>7. IsFiniteSet(1 .. n) /\ Cardinality(1 .. n) = n
  BY <1>4, FS_Interval
<1>8. Cardinality(1 .. n) <= Cardinality(others)
  BY <1>3, <1>6, FS_Injection
<1>9. NSlots[g] \in Nat
  BY GeometryAssumption
<1>10. QED
  BY <1>4, <1>6, <1>7, <1>8, <1>9 DEF n

\* ... and when none is empty, it is.
LEMMA Full ==
  ASSUME TypeOK, MapsAgree, NEW g \in Groups, NEW lru,
         InStep(g, lru, slot_key, where, slot_used), Empty(g) = {}
  PROVE  NSlots[g] <= Len(lru)
<1> DEFINE n == Len(lru)
           f == [i \in 1 .. n |-> where[lru[i]]]
<1>0. LruHeld(g, lru)
  BY LruIsHeld
<1>1. \A i \in 1 .. n : where[lru[i]] \in SlotsOf(g)
  BY <1>0 DEF LruHeld
<1>2. ASSUME NEW t \in SlotsOf(g)
      PROVE  \E i \in 1 .. n : where[lru[i]] = t
  <2>1. t \in Slots /\ slot_key[t] \in Keys
    BY DEF Empty, SlotsOf, TypeOK
  <2>2. where[slot_key[t]] = t
    BY <2>1, NullAssumption DEF MapsAgree
  <2>3. slot_key[t] \in ToSet(lru)
    BY <2>1 DEF InStep
  <2>4. \E i \in 1 .. n : lru[i] = slot_key[t]
    BY <2>3 DEF ToSet, InStep
  <2>5. QED
    BY <2>2, <2>4
<1>3. f \in Surjection(1 .. n, SlotsOf(g))
  BY <1>1, <1>2 DEF Surjection
<1>4. n \in Nat
  BY DEF InStep
<1>5. Cardinality(SlotsOf(g)) = NSlots[g]
  BY SlotsCount
<1> HIDE DEF f, n
<1>6. IsFiniteSet(1 .. n) /\ Cardinality(1 .. n) = n
  BY <1>4, FS_Interval
<1>7. Cardinality(SlotsOf(g)) <= Cardinality(1 .. n)
  BY <1>3, <1>6, FS_Surjection
<1>8. QED
  BY <1>5, <1>6, <1>7 DEF n

\* The victim of a full group is the oldest simulated key: what is pinned is younger.
LEMMA VictimIsOldest ==
  ASSUME TypeOK, MapsAgree, PinnedLast, NEW g \in Groups, NEW lru,
         InStep(g, lru, slot_key, where, slot_used),
         NEW s \in Slots, IsVictim(g, s), slot_key[s] # NoKey
  PROVE  Empty(g) = {} /\ lru # <<>> /\ lru[1] = slot_key[s]
<1>1. LruHeld(g, lru)
  BY LruIsHeld
<1>2. /\ Empty(g) = {}
      /\ s \in Evictable(g)
      /\ \A t \in Evictable(g) : slot_used[s] <= slot_used[t]
  BY DEF IsVictim, Empty
<1>3. s \in SlotsOf(g) /\ s \notin pinned /\ slot_key[s] \in Keys
  BY <1>2 DEF Evictable, TypeOK
<1>4. slot_key[s] \in ToSet(lru)
  BY <1>3 DEF InStep
<1>5. lru \in Seq(Keys) /\ Len(lru) \in Nat
  BY DEF InStep
<1>6. PICK j \in 1 .. Len(lru) : lru[j] = slot_key[s]
  BY <1>4, <1>5 DEF ToSet
<1>7. where[lru[j]] = s
  BY <1>6 DEF MapsAgree
<1>8. 1 \in 1 .. Len(lru)
  BY <1>5, <1>6
<1>9. j = 1
  <2> SUFFICES ASSUME 1 < j PROVE FALSE
    BY <1>6
  <2> DEFINE t == where[lru[1]]
  <2>1. t \in SlotsOf(g) /\ slot_key[t] = lru[1] /\ lru[1] \in Keys
    BY <1>1, <1>8 DEF LruHeld
  <2>2. slot_used[t] < slot_used[s]
    BY <1>6, <1>7, <1>8 DEF InStep
  <2>3. t \in Slots /\ slot_used[t] \in Nat /\ slot_used[s] \in Nat
    BY <2>1 DEF SlotsOf, TypeOK
  <2> HIDE DEF t
  <2>4. CASE t \in pinned
    <3>1. slot_used[s] < slot_used[t]
      BY <1>3, <2>4 DEF PinnedLast
    <3>2. QED
      BY <2>2, <2>3, <3>1
  <2>5. CASE t \notin pinned
    <3>1. t \in Evictable(g)
      BY <2>1, <2>5, NullAssumption DEF Evictable, TypeOK
    <3>2. slot_used[s] <= slot_used[t]
      BY <1>2, <3>1
    <3>3. QED
      BY <2>2, <2>3, <3>2
  <2>6. QED
    BY <2>4, <2>5
<1>10. QED
  BY <1>2, <1>5, <1>6, <1>8, <1>9

\* What a miss does to the simulated keys of its group: they lose what the victim held.
LEMMA MissAges ==
  ASSUME TypeOK, MapsAgree, PinnedLast, NEW g \in Groups, NEW lru,
         InStep(g, lru, slot_key, where, slot_used),
         NEW s \in Slots, IsVictim(g, s), NEW w \in Keys, where[w] = NoSlot,
         NEW new, new = PopOldest(Append(lru, w), NSlots[g])
  PROVE  /\ w \notin ToSet(lru) /\ NSlots[g] > 0
         /\ IsAging(new, lru, w)
         /\ \A k : k \in ToSet(new) <=> k = w \/ (k \in ToSet(lru) /\ k # slot_key[s])
<1>1. LruHeld(g, lru)
  BY LruIsHeld
<1>2. lru \in Seq(Keys) /\ Len(lru) \in Nat /\ Len(Append(lru, w)) = Len(lru) + 1
  BY DEF InStep
<1>3. s \in SlotsOf(g)
  BY DEF IsVictim, Empty, Evictable
<1>4. w \notin ToSet(lru)
  <2> SUFFICES ASSUME w \in ToSet(lru) PROVE FALSE
    OBVIOUS
  <2>1. PICK t \in SlotsOf(g) : slot_key[t] = w
    BY DEF InStep
  <2>2. t \in Slots /\ where[slot_key[t]] = t
    BY <2>1, NullAssumption DEF MapsAgree, SlotsOf
  <2>3. QED
    BY <2>1, <2>2, NullAssumption
<1>5. NSlots[g] > 0
  <2>1. NSlots[g] \in Nat /\ s[2] \in 1 .. NSlots[g]
    BY <1>3, GeometryAssumption DEF SlotsOf, Slots
  <2>2. QED
    BY <2>1
<1>6. NSlots[g] \in Nat
  BY GeometryAssumption
<1>7. \A k : k \in ToSet(lru) => k \in Keys
  BY <1>2 DEF ToSet
<1>8. CASE slot_key[s] = NoKey
  <2>1. Len(lru) < NSlots[g]
    BY <1>1, <1>2, <1>3, <1>8, NotFull
  <2>2. new = Append(lru, w)
    BY <1>2, <1>6, <2>1 DEF PopOldest
  <2>3. QED
    BY <1>2, <1>4, <1>5, <1>7, <1>8, <2>2, AppendAges, NullAssumption
<1>9. CASE slot_key[s] # NoKey
  <2>1. Empty(g) = {} /\ lru # <<>> /\ lru[1] = slot_key[s]
    BY <1>9, VictimIsOldest
  <2>2. NSlots[g] <= Len(lru)
    BY <2>1, Full
  <2>3. new = Tail(Append(lru, w))
    BY <1>2, <1>6, <2>2 DEF PopOldest
  <2>4. Injected(lru)
    BY <1>1 DEF LruHeld, Injected
  <2>5. Len(lru) > 0
    BY <1>2, <1>5, <1>6, <2>2
  <2>6. QED
    BY <1>2, <1>4, <1>5, <2>1, <2>3, <2>4, <2>5, PopAges
<1>10. QED
  BY <1>8, <1>9

SimState ==
  /\ Inv /\ OwnPool
  /\ RanksRight /\ PinnedLast
  /\ SimTyped /\ AllInStep

\* A step that refers to no expert leaves cache and simulator alone.
LEMMA OtherStep ==
  ASSUME SimState, [Next]_vars, ~ResolveHit, ~ResolveMiss
  PROVE  /\ UNCHANGED <<slot_key, where, slot_used>>
         /\ pinned' = pinned \/ pinned' = {}
         /\ ~Referenced
<1>1. /\ out \in Seq(Slots) /\ Len(out) \in Nat /\ Len(<<>>) = 0
  BY DEF SimState, Inv, TypeOK
<1>2. /\ UNCHANGED <<slot_key, where, slot_used>>
      /\ pinned' = pinned \/ pinned' = {}
      /\ out' = out \/ out' = <<>>
  BY DEF Next, GraphStep, ReaderStep, BeginPass, BeginOp, ResolveAbort, ResolveDone, Joined,
     EndMatmul, Destroy, Draw, Quit, Read, Scatter, ReadFails, Finished, cache, op, vars
<1>3. ~(Len(out') > Len(out))
  BY <1>1, <1>2
<1>4. QED
  BY <1>2, <1>3 DEF Referenced

\* What is common to the two ways of a reference: slot s is used for key w.
Uses(s, w) ==
  /\ s \in Slots /\ w \in Keys
  /\ slot_used' = Touch(s)
  /\ pinned' = pinned \cup {s}
  /\ slot_key' = [slot_key EXCEPT ![s] = w]
  /\ s[1] = GroupOf[layer] /\ w[1] = layer
  /\ w = Wanted
  /\ where'[w] = s
  /\ layer' = layer
  /\ Referenced

LEMMA HitUses ==
  ASSUME SimState, ResolveHit
  PROVE  /\ Uses(where[Wanted], Wanted)
         /\ slot_key[where[Wanted]] = Wanted
         /\ UNCHANGED <<slot_key, where>>
<1> DEFINE s == where[Wanted]
<1>1. TypeOK /\ MapsAgree /\ OwnPool
  BY DEF SimState, Inv, SyncInv
<1>2. Wanted \in Keys /\ Wanted[1] = layer
  BY <1>1, WantedType DEF ResolveHit
<1>3. s \in Slots /\ slot_key[s] = Wanted /\ slot_key[s] # NoKey
  BY <1>1, <1>2, NullAssumption DEF ResolveHit, TypeOK, MapsAgree
<1>4. s[1] = GroupOf[layer]
  BY <1>1, <1>2, <1>3 DEF OwnPool
<1>5. /\ UNCHANGED <<slot_key, where, layer>>
      /\ slot_used' = Touch(s) /\ pinned' = pinned \cup {s}
      /\ out' = Append(out, s)
  BY DEF ResolveHit, Emit
<1>6. Referenced
  <2>1. out \in Seq(Slots)
    BY <1>1 DEF TypeOK
  <2>2. Len(out') = Len(out) + 1 /\ Len(out) \in Nat
    BY <1>3, <1>5, <2>1
  <2>3. QED
    BY <2>2 DEF Referenced
<1>7. slot_key' = [slot_key EXCEPT ![s] = Wanted]
  BY <1>1, <1>3, <1>5 DEF TypeOK
<1>8. where'[Wanted] = s
  BY <1>5
<1> HIDE DEF s
<1>9. QED
  BY <1>2, <1>3, <1>4, <1>5, <1>6, <1>7, <1>8 DEF Uses, s

LEMMA MissUses ==
  ASSUME SimState, ResolveMiss
  PROVE  /\ where[Wanted] = NoSlot
         /\ \E s : /\ Uses(s, Wanted) /\ IsVictim(GroupOf[layer], s)
                   /\ where' = Remap(s, Wanted)
<1>1. TypeOK /\ MapsAgree
  BY DEF SimState, Inv, SyncInv
<1>2. Wanted \in Keys /\ Wanted[1] = layer
  BY <1>1, WantedType DEF ResolveMiss
<1>3. PICK s \in Slots :
        /\ IsVictim(GroupOf[layer], s)
        /\ slot_key' = [slot_key EXCEPT ![s] = Wanted]
        /\ where' = Remap(s, Wanted)
        /\ Emit(s)
  BY DEF ResolveMiss
<1>4. layer' = layer /\ where[Wanted] = NoSlot
  BY DEF ResolveMiss
<1>5. slot_used' = Touch(s) /\ pinned' = pinned \cup {s} /\ out' = Append(out, s)
  BY <1>3 DEF Emit
<1>6. Referenced
  <2>1. out \in Seq(Slots)
    BY <1>1 DEF TypeOK
  <2>2. Len(out') = Len(out) + 1 /\ Len(out) \in Nat
    BY <1>3, <1>5, <2>1
  <2>3. QED
    BY <2>2 DEF Referenced
<1>7. s[1] = GroupOf[layer]
  BY <1>3 DEF IsVictim, Empty, Evictable, SlotsOf
<1>8. where'[Wanted] = s
  BY <1>2, <1>3 DEF Remap
<1>9. Uses(s, Wanted)
  BY <1>2, <1>3, <1>4, <1>5, <1>6, <1>7, <1>8 DEF Uses
<1>10. QED
  BY <1>3, <1>4, <1>9

\* The ranks stay right, and the slots of the op are the last used.
LEMMA UseKeeps ==
  ASSUME SimState, NEW s, NEW w, Uses(s, w)
  PROVE  /\ RanksRight' /\ PinnedLast'
         /\ KeepsOrder(s) /\ \A t \in Slots \ {s} : slot_used'[t] < slot_used'[s]
<1>1. /\ slot_used \in [Slots -> Nat] /\ RanksRight /\ s \in Slots /\ slot_used' = Touch(s)
      /\ slot_key'[s] # NoKey /\ \A t \in Slots \ {s} : slot_key'[t] = slot_key[t]
  BY NullAssumption DEF SimState, Inv, TypeOK, Uses
<1>2. /\ RanksRight'
      /\ KeepsOrder(s)
      /\ \A t \in Slots \ {s} : slot_used'[t] < slot_used'[s]
  BY <1>1, TouchRanks
<1>3. PinnedLast'
  <2>1. \A p \in pinned, t \in Slots \ pinned : slot_used[t] < slot_used[p]
    BY DEF SimState, PinnedLast
  <2>2. pinned' = pinned \cup {s} /\ pinned \subseteq Slots
    BY DEF Uses, SimState, Inv, TypeOK
  <2>3. ASSUME NEW p \in pinned', NEW t \in Slots \ pinned'
        PROVE  slot_used'[t] < slot_used'[p]
    <3>1. CASE p = s
      BY <1>2, <2>2, <3>1
    <3>2. CASE p # s
      <4>1. p \in Slots \ {s} /\ t \in Slots \ {s} /\ slot_used[t] < slot_used[p]
        BY <2>1, <2>2, <3>2
      <4>2. QED
        BY <1>2, <4>1 DEF KeepsOrder
    <3>3. QED
      BY <3>1, <3>2
  <2>4. QED
    BY <2>3 DEF PinnedLast
<1>4. QED
  BY <1>2, <1>3

\* The other groups stay in step: their slots keep their keys, and their order.
LEMMA OthersInStep ==
  ASSUME SimState, NEW s, NEW w, Uses(s, w), NEW h \in Groups, h # GroupOf[layer],
         NEW lru, InStep(h, lru, slot_key, where, slot_used),
         \A x \in Keys : where[x] # NoSlot /\ where[x] # s => where'[x] = where[x]
  PROVE  InStep(h, lru, slot_key', where', slot_used')
<1>1. TypeOK /\ MapsAgree
  BY DEF SimState, Inv, SyncInv
<1>2. LruHeld(h, lru) /\ lru \in Seq(Keys)
  BY <1>1, LruIsHeld DEF InStep
<1>3. \A t \in SlotsOf(h) : t \in Slots \ {s} /\ slot_key'[t] = slot_key[t]
  BY <1>1 DEF Uses, SlotsOf, TypeOK
<1>4. \A i \in 1 .. Len(lru) : where[lru[i]] \in Slots \ {s} /\ where'[lru[i]] = where[lru[i]]
  BY <1>2, <1>3, NullAssumption DEF LruHeld
<1>5. \A k \in Keys : k \in ToSet(lru) <=> \E t \in SlotsOf(h) : slot_key'[t] = k
  BY <1>3 DEF InStep
<1>6. ASSUME NEW i \in 1 .. Len(lru), NEW j \in 1 .. Len(lru), i < j
      PROVE  slot_used'[where'[lru[i]]] < slot_used'[where'[lru[j]]]
  <2>1. slot_used[where[lru[i]]] < slot_used[where[lru[j]]]
    BY <1>6 DEF InStep
  <2>2. KeepsOrder(s)
    BY UseKeeps
  <2>3. QED
    BY <1>4, <2>1, <2>2 DEF KeepsOrder
<1>7. QED
  BY <1>2, <1>5, <1>6 DEF InStep

\* A hit leaves its group in step.
LEMMA HitInStep ==
  ASSUME SimState, ResolveHit, NEW lru,
         InStep(GroupOf[layer], lru, slot_key, where, slot_used)
  PROVE  /\ Wanted \in ToSet(lru)
         /\ InStep(GroupOf[layer], MoveToEnd(lru, Wanted), slot_key', where', slot_used')
<1> DEFINE w == Wanted
           s == where[Wanted]
           g == GroupOf[layer]
           new == MoveToEnd(lru, Wanted)
<1>1. Uses(s, w) /\ slot_key[s] = w /\ slot_key' = slot_key /\ where' = where
  BY HitUses
<1>2. TypeOK /\ MapsAgree /\ RanksRight
  BY DEF SimState, Inv, SyncInv
<1>3. g \in Groups
  BY <1>2, GeometryAssumption DEF TypeOK, Layers
<1>4. LruHeld(g, lru) /\ lru \in Seq(Keys)
  BY <1>2, <1>3, LruIsHeld DEF InStep
<1>5. s \in SlotsOf(g) /\ s \in Slots /\ w \in Keys
  BY <1>1 DEF Uses, SlotsOf
<1>6. w \in ToSet(lru)
  BY <1>1, <1>5 DEF InStep
<1> HIDE DEF w, s, new, g
<1>7. IsAging(new, lru, w) /\ \A k : k \in ToSet(new) <=> k \in ToSet(lru)
  BY <1>4, <1>5, <1>6, MovesToEnd DEF new, w
<1>8. KeepsOrder(s) /\ \A t \in Slots \ {s} : slot_used'[t] < slot_used'[s]
  BY <1>1, UseKeeps
<1>9. PICK e : Aging(new, lru, w, e)
  BY <1>7 DEF IsAging
<1>10. \A i \in 1 .. Len(new) - 1 : where'[new[i]] = where[new[i]] /\ where[new[i]] # s
  <2>1. \A i \in 1 .. Len(new) - 1 : e[i] \in 1 .. Len(lru) /\ new[i] = lru[e[i]] /\ new[i] # w
    BY <1>9, Zenon DEF Aging
  <2>2. \A i \in 1 .. Len(lru) : slot_key[where[lru[i]]] = lru[i]
    BY <1>4 DEF LruHeld
  <2>3. QED
    BY <1>1, <2>1, <2>2
<1>11. where'[w] = s
  BY <1>1 DEF Uses
<1>12. InStep(g, lru, slot_key, where, slot_used)
  BY DEF g
<1>13. \A i, j \in 1 .. Len(new) :
         i < j => slot_used'[where'[new[i]]] < slot_used'[where'[new[j]]]
  BY <1>2, <1>3, <1>4, <1>5, <1>7, <1>8, <1>10, <1>11, <1>12, OrderKept
<1>14. new \in Seq(Keys)
  BY <1>9 DEF Aging
<1>15. \A k \in Keys : k \in ToSet(new) <=> \E t \in SlotsOf(g) : slot_key'[t] = k
  BY <1>1, <1>7, <1>12 DEF InStep
<1>16. InStep(g, new, slot_key', where', slot_used')
  BY <1>13, <1>14, <1>15 DEF InStep
<1>17. QED
  BY <1>6, <1>16 DEF g, w, new

\* A miss leaves its group in step.
LEMMA MissInStep ==
  ASSUME SimState, NEW s, Uses(s, Wanted), IsVictim(GroupOf[layer], s),
         where' = Remap(s, Wanted), where[Wanted] = NoSlot, NEW lru,
         InStep(GroupOf[layer], lru, slot_key, where, slot_used)
  PROVE  /\ Wanted \notin ToSet(lru) /\ NSlots[GroupOf[layer]] > 0
         /\ InStep(GroupOf[layer], PopOldest(Append(lru, Wanted), NSlots[GroupOf[layer]]),
                   slot_key', where', slot_used')
<1> DEFINE w == Wanted
           g == GroupOf[layer]
           new == PopOldest(Append(lru, Wanted), NSlots[GroupOf[layer]])
<1>1. Uses(s, w) /\ s \in Slots /\ w \in Keys /\ slot_key' = [slot_key EXCEPT ![s] = w]
  BY DEF Uses
<1>2. TypeOK /\ MapsAgree /\ RanksRight /\ PinnedLast
  BY DEF SimState, Inv, SyncInv
<1>3. g \in Groups
  BY <1>2, GeometryAssumption DEF TypeOK, Layers
<1>4. LruHeld(g, lru) /\ lru \in Seq(Keys)
  BY <1>2, <1>3, LruIsHeld DEF InStep
<1>5. s \in SlotsOf(g)
  BY DEF Uses, SlotsOf
<1>6. /\ w \notin ToSet(lru) /\ NSlots[g] > 0
      /\ IsAging(new, lru, w)
      /\ \A k : k \in ToSet(new) <=> k = w \/ (k \in ToSet(lru) /\ k # slot_key[s])
  BY <1>1, <1>2, <1>3, MissAges
<1>7. where' = Remap(s, w) /\ where[w] = NoSlot /\ InStep(g, lru, slot_key, where, slot_used)
  OBVIOUS
<1> HIDE DEF w, g, new
<1>8. KeepsOrder(s) /\ \A t \in Slots \ {s} : slot_used'[t] < slot_used'[s]
  BY <1>1, UseKeeps
<1>9. PICK e : Aging(new, lru, w, e)
  BY <1>6 DEF IsAging
<1>10. new \in Seq(Keys) /\ \A i \in 1 .. Len(new) : new[i] \in ToSet(new)
  BY <1>9 DEF Aging, ToSet
<1>11. \A i \in 1 .. Len(new) - 1 : where'[new[i]] = where[new[i]] /\ where[new[i]] # s
  <2> SUFFICES ASSUME NEW i \in 1 .. Len(new) - 1
               PROVE  where'[new[i]] = where[new[i]] /\ where[new[i]] # s
    OBVIOUS
  <2>1. e[i] \in 1 .. Len(lru) /\ new[i] = lru[e[i]] /\ new[i] # w
    BY <1>9, Zenon DEF Aging
  <2>2. slot_key[where[new[i]]] = new[i] /\ new[i] \in Keys
    BY <1>4, <2>1 DEF LruHeld
  <2>3. i \in 1 .. Len(new)
    BY <1>10
  <2>4. new[i] # slot_key[s]
    BY <1>6, <1>10, <2>1, <2>3
  <2>5. where'[new[i]] = where[new[i]]
    BY <1>7, <2>1, <2>2, <2>4 DEF Remap
  <2>6. QED
    BY <2>2, <2>4, <2>5
<1>12. where'[w] = s
  BY <1>1, <1>7 DEF Remap
<1>13. \A i, j \in 1 .. Len(new) :
         i < j => slot_used'[where'[new[i]]] < slot_used'[where'[new[j]]]
  BY <1>1, <1>2, <1>3, <1>4, <1>6, <1>7, <1>8, <1>11, <1>12, OrderKept
<1>14. ASSUME NEW k \in Keys
       PROVE  k \in ToSet(new) <=> \E t \in SlotsOf(g) : slot_key'[t] = k
  <2>0. \A t \in SlotsOf(g) : t \in Slots
    BY DEF SlotsOf
  <2>1. \A t \in SlotsOf(g) : slot_key'[t] = IF t = s THEN w ELSE slot_key[t]
    BY <1>1, <1>2, <2>0 DEF TypeOK
  <2>2. k \in ToSet(lru) <=> \E t \in SlotsOf(g) : slot_key[t] = k
    BY <1>7 DEF InStep
  <2>3. \A t \in SlotsOf(g) : slot_key[t] = k => where[k] = t
    BY <1>2, <2>0, NullAssumption DEF MapsAgree
  <2>4. CASE k = w
    BY <1>5, <1>6, <2>1, <2>4
  <2>5. CASE k # w
    <3>1. k \in ToSet(new) <=> \E t \in SlotsOf(g) : slot_key[t] = k /\ t # s
      BY <1>5, <1>6, <2>2, <2>3, <2>5
    <3>2. QED
      BY <2>1, <2>5, <3>1
  <2>6. QED
    BY <2>4, <2>5
<1>15. InStep(g, new, slot_key', where', slot_used')
  BY <1>10, <1>13, <1>14 DEF InStep
<1>16. QED
  BY <1>6, <1>15 DEF g, w, new

\* What a step does to the simulated keys of a group.
LEMMA SimLru ==
  ASSUME sim' = [g \in Groups |-> Simulate(g)], NEW g \in Groups
  PROVE  sim'[g].lru =
           IF Referenced /\ GroupOf[layer] = g
           THEN IF Wanted \in ToSet(sim[g].lru) THEN MoveToEnd(sim[g].lru, Wanted)
                ELSE IF NSlots[g] > 0 THEN PopOldest(Append(sim[g].lru, Wanted), NSlots[g])
                ELSE sim[g].lru
           ELSE sim[g].lru
<1>1. NSlots[g] \in Nat
  BY GeometryAssumption
<1>2. Access(sim[g], Wanted, LruCapacity(NSlots[g], {}), {}, FALSE).lru =
        IF Wanted \in ToSet(sim[g].lru) THEN MoveToEnd(sim[g].lru, Wanted)
        ELSE IF NSlots[g] > 0 THEN PopOldest(Append(sim[g].lru, Wanted), NSlots[g])
        ELSE sim[g].lru
  BY <1>1, AccessIs
<1>3. sim'[g] = Simulate(g)
  OBVIOUS
<1>4. QED
  BY <1>2, <1>3 DEF Simulate

\* All groups stay in step.
LEMMA InStepKept ==
  ASSUME SimState, [Next]_vars, sim' = [g \in Groups |-> Simulate(g)], NEW g \in Groups
  PROVE  InStep(g, sim'[g].lru, slot_key', where', slot_used')
<1>1. InStep(g, sim[g].lru, slot_key, where, slot_used)
  BY DEF SimState, AllInStep
<1>2. CASE ~ResolveHit /\ ~ResolveMiss
  <2>1. sim'[g].lru = sim[g].lru
    BY <1>2, OtherStep, SimLru
  <2>2. slot_key' = slot_key /\ where' = where /\ slot_used' = slot_used
    BY <1>2, OtherStep
  <2>3. QED
    BY <1>1, <2>1, <2>2
<1>3. CASE ResolveHit
  <2>1. Uses(where[Wanted], Wanted) /\ where' = where /\ Referenced
    BY <1>3, HitUses DEF Uses
  <2>2. CASE g = GroupOf[layer]
    <3>1. Wanted \in ToSet(sim[g].lru)
          /\ InStep(g, MoveToEnd(sim[g].lru, Wanted), slot_key', where', slot_used')
      BY <1>1, <1>3, <2>2, HitInStep
    <3>2. sim'[g].lru = MoveToEnd(sim[g].lru, Wanted)
      BY <2>1, <2>2, <3>1, SimLru
    <3>3. QED
      BY <3>1, <3>2
  <2>3. CASE g # GroupOf[layer]
    <3>1. sim'[g].lru = sim[g].lru
      BY <2>3, SimLru
    <3>2. InStep(g, sim[g].lru, slot_key', where', slot_used')
      BY <1>1, <2>1, <2>3, OthersInStep
    <3>3. QED
      BY <3>1, <3>2
  <2>4. QED
    BY <2>2, <2>3
<1>4. CASE ResolveMiss
  <2>1. PICK s : Uses(s, Wanted) /\ IsVictim(GroupOf[layer], s) /\ where' = Remap(s, Wanted)
    BY <1>4, MissUses
  <2>2. where[Wanted] = NoSlot /\ Referenced
    BY <1>4, <2>1, MissUses DEF Uses
  <2>3. CASE g = GroupOf[layer]
    <3>1. /\ Wanted \notin ToSet(sim[g].lru) /\ NSlots[g] > 0
          /\ InStep(g, PopOldest(Append(sim[g].lru, Wanted), NSlots[g]), slot_key', where', slot_used')
      BY <1>1, <2>1, <2>2, <2>3, MissInStep
    <3>2. sim'[g].lru = PopOldest(Append(sim[g].lru, Wanted), NSlots[g])
      BY <2>2, <2>3, <3>1, SimLru
    <3>3. QED
      BY <3>1, <3>2
  <2>4. CASE g # GroupOf[layer]
    <3>1. sim'[g].lru = sim[g].lru
      BY <2>4, SimLru
    <3>2. \A x \in Keys : where[x] # NoSlot /\ where[x] # s => where'[x] = where[x]
      <4> SUFFICES ASSUME NEW x \in Keys, where[x] # NoSlot, where[x] # s
                   PROVE  where'[x] = where[x]
        OBVIOUS
      <4>1. slot_key[where[x]] = x /\ s \in Slots /\ x # Wanted
        BY <2>1, <2>2 DEF SimState, Inv, SyncInv, MapsAgree, Uses
      <4>2. x = slot_key[s] => x # NoKey /\ where[x] = s
        BY <4>1, NullAssumption DEF SimState, Inv, SyncInv, MapsAgree
      <4>3. QED
        BY <2>1, <4>1, <4>2 DEF Remap
    <3>3. InStep(g, sim[g].lru, slot_key', where', slot_used')
      BY <1>1, <2>1, <2>4, <3>2, OthersInStep
    <3>4. QED
      BY <3>1, <3>3
  <2>5. QED
    BY <2>3, <2>4
<1>5. QED
  BY <1>2, <1>3, <1>4

LEMMA SimStateInit == SimInit => SimState
<1> SUFFICES ASSUME SimInit PROVE SimState
  OBVIOUS
<1>1. Init /\ sim = [g \in Groups |-> Cold]
  BY DEF SimInit
<1>2. Inv
  BY <1>1, InitType, InitSync DEF Inv
<1>3. slot_key = [s \in Slots |-> NoKey] /\ slot_used = [s \in Slots |-> 0] /\ pinned = {}
  BY <1>1 DEF Init, CacheInit
<1>4. OwnPool /\ RanksRight /\ PinnedLast
  BY <1>3 DEF OwnPool, RanksRight, Fresh, PinnedLast
<1>5. \A g \in Groups : sim[g].lru = <<>>
  BY <1>1 DEF Cold
<1>6. <<>> \in Seq(Keys) /\ Len(<<>>) = 0 /\ ToSet(<<>>) = {}
  BY DEF ToSet
<1>7. SimTyped
  BY <1>5, <1>6 DEF SimTyped
<1>8. AllInStep
  <2>1. \A g \in Groups : \A s \in SlotsOf(g) : slot_key[s] \notin Keys
    BY <1>3, NullAssumption DEF SlotsOf
  <2>2. 1 .. 0 = {}
    OBVIOUS
  <2>3. \A g \in Groups : InStep(g, <<>>, slot_key, where, slot_used)
    BY <1>6, <2>1, <2>2 DEF InStep
  <2>4. QED
    BY <1>5, <2>3 DEF AllInStep
<1>9. QED
  BY <1>2, <1>4, <1>7, <1>8 DEF SimState

LEMMA SimStateStep == SimState /\ [SimNext]_<<vars, sim>> => SimState'
<1> SUFFICES ASSUME SimState, [SimNext]_<<vars, sim>> PROVE SimState'
  OBVIOUS
<1>1. [Next]_vars /\ Inv /\ OwnPool /\ RanksRight /\ PinnedLast
  BY DEF SimNext, SimState
<1>2. Inv'
  BY <1>1, NextType, NextSync DEF Inv
<1>3. OwnPool'
  BY <1>1, OwnPoolStep
<1>4. RanksRight' /\ PinnedLast'
  <2>1. CASE ~ResolveHit /\ ~ResolveMiss
    <3>1. /\ slot_key' = slot_key /\ slot_used' = slot_used
          /\ pinned' = pinned \/ pinned' = {}
      BY <1>1, <2>1, OtherStep
    <3>2. RanksRight'
      BY <1>1, <3>1 DEF RanksRight, Fresh
    <3>3. PinnedLast'
      BY <1>1, <3>1 DEF PinnedLast
    <3>4. QED
      BY <3>2, <3>3
  <2>2. CASE ResolveHit
    BY <2>2, HitUses, UseKeeps
  <2>3. CASE ResolveMiss
    BY <2>3, MissUses, UseKeeps
  <2>4. QED
    BY <2>1, <2>2, <2>3
<1>5. \A g \in Groups : InStep(g, sim'[g].lru, slot_key', where', slot_used')
  <2>1. CASE SimNext
    BY <1>1, <2>1, InStepKept DEF SimNext
  <2>2. CASE UNCHANGED <<vars, sim>>
    <3>1. slot_key' = slot_key /\ where' = where /\ slot_used' = slot_used /\ sim' = sim
      BY <2>2 DEF vars, cache
    <3>2. \A g \in Groups : InStep(g, sim[g].lru, slot_key, where, slot_used)
      BY DEF SimState, AllInStep
    <3>3. QED
      BY <3>1, <3>2
  <2>3. QED
    BY <2>1, <2>2
<1>6. AllInStep'
  BY <1>5 DEF AllInStep, InStep
<1>7. SimTyped'
  BY <1>5 DEF SimTyped, InStep
<1>8. QED
  BY <1>2, <1>3, <1>4, <1>6, <1>7 DEF SimState

\* The runtime's cache is the simulator's: after every reference the slots of each group hold
\* the experts of an LRU of as many places, and age in its order, whatever the geometry, the
\* ubatches and the routing.  Ranks stay apart and above 0, and the slots the op has pinned
\* are the last used, so that the victim is the simulator's oldest.
THEOREM SimulatorCorrect == SimSpec => []SimulatorAgrees
<1>1. SimState => SimulatorAgrees
  BY AgreesIs DEF SimState, Inv, SyncInv
<1>2. QED
  BY <1>1, SimStateInit, SimStateStep, PTL DEF SimSpec
===============================================================================
