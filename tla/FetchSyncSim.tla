---------------------------- MODULE FetchSyncSim ----------------------------
(***************************************************************************)
(* The synchronous path beside the simulator its budget was chosen with:   *)
(* every reference of an op is given to sim/cache_sim.py as well, one LRU  *)
(* for each group, of as many experts as the group has slots.  sim only    *)
(* watches; nothing of FetchSync depends on it.                            *)
(***************************************************************************)
EXTENDS FetchSyncInv, CacheSim

VARIABLE sim      \* group -> state of the simulated cache

Cold == [lru |-> <<>>, accesses |-> 0, hits |-> 0]

SimInit == Init /\ sim = [g \in Groups |-> Cold]

\* The op has resolved one id more.
Referenced == Len(out') > Len(out)

Simulate(g) ==
  IF Referenced /\ GroupOf[layer] = g
  THEN Access(sim[g], Wanted, LruCapacity(NSlots[g], {}), {}, FALSE)
  ELSE sim[g]

SimNext == Next /\ sim' = [g \in Groups |-> Simulate(g)]

SimSpec == SimInit /\ [][SimNext]_<<vars, sim>>

\* The cache is the one that was simulated (sim/cache_sim.py:51-58 against victim(),
\* runtime/patches/0004:564-583): at every reference a group's slots hold the experts of
\* the simulated LRU, and age in its order, although the runtime evicts around the slots
\* of the op and gives an expert a slot before it has read it.
SimulatorAgrees ==
  \A g \in Groups :
    LET lru == sim[g].lru
        held == {s \in SlotsOf(g) : slot_key[s] # NoKey}
    IN  /\ {slot_key[s] : s \in held} = {lru[i] : i \in DOMAIN lru}
        /\ \A i, j \in DOMAIN lru : i < j => slot_used[where[lru[i]]] < slot_used[where[lru[j]]]

-----------------------------------------------------------------------------
(* Why it stays so.                                                        *)

Fresh == {s \in Slots : slot_key[s] = NoKey}

\* The slots in use have ranks of their own, above as many as there are slots never used:
\* aging leaves them above 0.
RanksRight ==
  /\ \A s \in Slots :
       IF s \in Fresh THEN slot_used[s] = 0
       ELSE Cardinality(Fresh) < slot_used[s] /\ slot_used[s] <= Cardinality(Slots)
  /\ \A s, t \in Slots : s \notin Fresh /\ slot_used[s] = slot_used[t] => s = t

\* The slots of the op in progress were used after all others: eviction in the order of
\* use does not reach them.
PinnedLast == \A s \in pinned, t \in Slots \ pinned : slot_used[t] < slot_used[s]
=============================================================================
