------------------------------- MODULE CacheSim -----------------------------
(***************************************************************************)
(* The cache simulator (sim/cache_sim.py), the policies its driver reports *)
(* (sim/run_sim.py), and the other LRU in the repository, the replay of    *)
(* tools/analyze_lookahead.py with nothing prefetched.  A trace is a       *)
(* sequence of tokens, and a token a sequence of keys.                     *)
(***************************************************************************)
EXTENDS SeqFolds

Positive(n) == Max({n, 0})

\* Fault: a hit leaves the key where it is: a queue, not an LRU.
TouchNothing(lru, key) == lru

\* move_to_end: lru holds the keys from the least to the most recently used.
MoveToEnd(lru, key) == Append(Keep(lru, ToSet(lru) \ {key}), key)

\* Fault: the cache is let grow one key past its capacity.
PopLate(lru, capacity) == IF Len(lru) > capacity + 1 THEN Tail(lru) ELSE lru

\* popitem(last=False), if there are more keys than places.
PopOldest(lru, capacity) == IF Len(lru) > capacity THEN Tail(lru) ELSE lru

\* One reference of a token, counted after the warm-up.
Access(sim, key, lru_capacity, pinned, counting) ==
  LET hit == key \in pinned \/ key \in ToSet(sim.lru)
  IN  [accesses |-> sim.accesses + (IF counting THEN 1 ELSE 0),
       hits     |-> sim.hits + (IF counting /\ hit THEN 1 ELSE 0),
       lru      |-> IF key \in pinned THEN sim.lru
                    ELSE IF hit THEN MoveToEnd(sim.lru, key)
                    ELSE IF lru_capacity > 0 THEN PopOldest(Append(sim.lru, key), lru_capacity)
                    ELSE sim.lru]

\* Fault: the pinned experts take no room.
UnreducedCapacity(capacity_experts, pinned) == capacity_experts

\* Fault: an LRU of no places is given one.
AtLeastOne(capacity_experts, pinned) == Max({capacity_experts - Cardinality(pinned), 1})

\* What the pinned experts leave.
LruCapacity(capacity_experts, pinned) == Positive(capacity_experts - Cardinality(pinned))

simulate_lru(trace, capacity_experts, pinned, warmup_tokens) ==
  LET lru_capacity == LruCapacity(capacity_experts, pinned)
      keys == FlattenSeq(trace)
      warmup == Len(FlattenSeq(SubSeq(trace, 1, Min({warmup_tokens, Len(trace)}))))
      sim[n \in 0 .. Len(keys)] ==
        IF n = 0 THEN [lru |-> <<>>, accesses |-> 0, hits |-> 0]
        ELSE Access(sim[n - 1], keys[n], lru_capacity, pinned, n > warmup)
  IN  sim[Len(keys)]

\* Counter(...).most_common(n): which of equally frequent keys come first is left open.
Count(trace, key) == Len(Keep(FlattenSeq(trace), {key}))

Touched(trace) == UNION {ToSet(token) : token \in ToSet(trace)}

hottest_experts(trace, n) ==
  LET keys == Touched(trace)
      count == [key \in keys |-> Count(trace, key)]
  IN  {hot \in SUBSET keys : /\ Cardinality(hot) = Min({n, Cardinality(keys)})
                            /\ \A k \in hot, other \in keys \ hot : count[other] <= count[k]}

\* The pinned sets run_sim.report may choose for its third policy.
Pins(trace, capacity) == hottest_experts(trace, capacity \div 2)

\* A reference of analyze_lookahead.replay with M = 0: a key that is missed is put in before
\* the cache is looked at.
Refer(sim, key, slots) ==
  IF key \in ToSet(sim.cache)
  THEN [sim EXCEPT !.hits = sim.hits + 1, !.cache = MoveToEnd(sim.cache, key)]
  ELSE [sim EXCEPT !.fetches = sim.fetches + 1,
                   !.cache = PopOldest(Append(sim.cache, key), slots)]

OfLayer(token, layer) == Keep(token, {key \in ToSet(token) : key[1] = layer})

\* t.get(L) for L in range(n_layers).
ByLayer(token, n_layers) == FlattenSeq([j \in 1 .. n_layers |-> OfLayer(token, j - 1)])

replay(trace, n_layers, slots) ==
  LET keys == FlattenSeq([t \in DOMAIN trace |-> ByLayer(trace[t], n_layers)])
      rep[n \in 0 .. Len(keys)] ==
        IF n = 0 THEN [cache |-> <<>>, hits |-> 0, fetches |-> 0]
        ELSE Refer(rep[n - 1], keys[n], slots)
  IN  rep[Len(keys)]
=============================================================================
