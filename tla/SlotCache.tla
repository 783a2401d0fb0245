----------------------------- MODULE SlotCache ------------------------------
(***************************************************************************)
(* The slots of the expert cache and the choice and eviction of a victim   *)
(* (llama_nvmoe_victim, llama_nvmoe_evict), which the pooled and the       *)
(* synchronous fetch path share.                                           *)
(*                                                                         *)
(* The op counter (epoch, slot_op) is the set of slots pinned by the op in *)
(* progress, and the LRU clock (tick, slot_used) is the rank of a slot in  *)
(* the order of last use: victim() tells no more of either.                *)
(***************************************************************************)
EXTENDS ExpertGeometry

VARIABLES
  slot_key,    \* slot -> key it is assigned to
  where,       \* key -> slot it is assigned
  slot_flight, \* slots whose fetch is queued or running
  slot_spec,   \* slots fetched speculatively and not referenced yet
  slot_used,   \* slot -> rank in the order of last use, 0 if never used
  pinned,      \* slots referenced by the op in progress
  pool         \* slot -> key whose bytes it holds

cache == <<slot_key, where, slot_flight, slot_spec, slot_used, pinned>>

CacheInit ==
  /\ slot_key = [s \in Slots |-> NoKey]
  /\ where = [k \in Keys |-> NoSlot]
  /\ slot_flight = {}
  /\ slot_spec = {}
  /\ slot_used = [s \in Slots |-> 0]
  /\ pinned = {}
  /\ pool = [s \in Slots |-> NoKey]

Empty(g) == {s \in SlotsOf(g) : slot_key[s] = NoKey}

\* Fault: a prefetch nobody has referenced yet is never evicted.
EvictableSparingSpec(g) ==
  {s \in SlotsOf(g) : /\ slot_key[s] # NoKey
                      /\ s \notin pinned
                      /\ s \notin slot_flight
                      /\ s \notin slot_spec}

\* Fault: a slot mid-fetch is evictable.
EvictableInFlight(g) ==
  {s \in SlotsOf(g) : slot_key[s] # NoKey /\ s \notin pinned}

\* Fault: a slot the op has emitted is evictable.
EvictablePinned(g) ==
  {s \in SlotsOf(g) : slot_key[s] # NoKey /\ s \notin slot_flight}

Evictable(g) ==
  {s \in SlotsOf(g) : slot_key[s] # NoKey /\ s \notin pinned /\ s \notin slot_flight}

\* Fault: the first slot that may be evicted, however recently it was used.
IsFirstEvictable(g, s) ==
  \/ /\ s \in Empty(g)
     /\ \A t \in Empty(g) : s[2] <= t[2]
  \/ /\ Empty(g) = {}
     /\ s \in Evictable(g)
     /\ \A t \in Evictable(g) : s[2] <= t[2]

\* Slot s is what victim() returns: the first empty slot, else the least
\* recently used one that is neither pinned by the op nor mid-fetch.
IsVictim(g, s) ==
  \/ /\ s \in Empty(g)
     /\ \A t \in Empty(g) : s[2] <= t[2]
  \/ /\ Empty(g) = {}
     /\ s \in Evictable(g)
     /\ \A t \in Evictable(g) : slot_used[s] <= slot_used[t]

NoVictim(g) == Empty(g) = {} /\ Evictable(g) = {}

\* Fault: every other slot is aged, those never used included.
AgeAll(s) ==
  [t \in Slots |-> IF t = s THEN Cardinality(Slots) ELSE slot_used[t] - 1]

\* slot_used[s] = ++tick, as ranks: s becomes the last in the order of use.
Touch(s) ==
  [t \in Slots |->
     IF t = s THEN Cardinality(Slots)
     ELSE IF slot_used[t] > slot_used[s] THEN slot_used[t] - 1 ELSE slot_used[t]]

\* Fault: the victim's key is not erased.
RemapKeepingVictim(s, k) == [where EXCEPT ![k] = s]

\* where after slot s is evicted and given to key k.
Remap(s, k) ==
  [x \in Keys |-> IF x = k THEN s ELSE IF x = slot_key[s] THEN NoSlot ELSE where[x]]

\* The map from keys to slots and the slots' own keys say the same: no evicted
\* key is still found, no key has two slots.
MapsAgree ==
  /\ \A s \in Slots : slot_key[s] # NoKey => where[slot_key[s]] = s
  /\ \A k \in Keys : where[k] # NoSlot => slot_key[where[k]] = k

\* A key is assigned a slot of its own layer's group only: elsewhere the extent
\* would be scattered over rows of another size.
OwnPool == \A s \in Slots : slot_key[s] # NoKey => s[1] = GroupOf[slot_key[s][1]]
=============================================================================
