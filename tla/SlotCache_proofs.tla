--------------------------- MODULE SlotCache_proofs ---------------------------
(***************************************************************************)
(* Facts about the slots and their victims that both fetch paths rest on,  *)
(* for every geometry.                                                     *)
(***************************************************************************)
EXTENDS SlotCache, FiniteSetTheorems, SequenceTheorems, TLAPS

MapsTyped ==
  /\ slot_key \in [Slots -> Keys \cup {NoKey}]
  /\ where \in [Keys -> Slots \cup {NoSlot}]

\* The slots of all groups are finitely many.
LEMMA SlotsFinite == IsFiniteSet(Slots)
<1>1. ASSUME NEW g \in Groups
      PROVE  IsFiniteSet({g} \X (1 .. NSlots[g]))
  <2>1. IsFiniteSet({g})
    BY FS_Singleton
  <2>2. IsFiniteSet(1 .. NSlots[g])
    BY FS_Interval, GeometryAssumption
  <2>3. QED
    BY <2>1, <2>2, FS_Product
<1>2. IsFiniteSet({{g} \X (1 .. NSlots[g]) : g \in Groups})
  <2> DEFINE pools == {{g} \X (1 .. NSlots[g]) : g \in Groups}
             f == [g \in Groups |-> {g} \X (1 .. NSlots[g])]
  <2>1. f \in Surjection(Groups, pools)
    BY DEF Surjection
  <2>2. QED
    BY <2>1, FS_Surjection, GeometryAssumption
<1>3. QED
  BY <1>1, <1>2, FS_UNION DEF Slots

\* A group has as many slots as it was given.
LEMMA SlotsCount ==
  ASSUME NEW g \in Groups
  PROVE  IsFiniteSet(SlotsOf(g)) /\ Cardinality(SlotsOf(g)) = NSlots[g]
<1>1. SlotsOf(g) = {g} \X (1 .. NSlots[g])
  BY DEF SlotsOf, Slots
<1>2. NSlots[g] \in Nat
  BY GeometryAssumption
<1>3. IsFiniteSet(1 .. NSlots[g]) /\ Cardinality(1 .. NSlots[g]) = NSlots[g]
  <2> DEFINE n == NSlots[g]
  <2> HIDE DEF n
  <2>1. n \in Nat
    BY <1>2 DEF n
  <2>2. IsFiniteSet(1 .. n) /\ Cardinality(1 .. n) = n
    BY ONLY <2>1, FS_Interval
  <2>3. QED
    BY <2>2 DEF n
<1>4. IsFiniteSet({g}) /\ Cardinality({g}) = 1
  BY FS_Singleton
<1>5. IsFiniteSet({g} \X (1 .. NSlots[g]))
      /\ Cardinality({g} \X (1 .. NSlots[g])) = 1 * NSlots[g]
  <2> DEFINE one == {g}
             many == 1 .. NSlots[g]
  <2> HIDE DEF one, many
  <2>1. IsFiniteSet(one) /\ IsFiniteSet(many)
    BY <1>3, <1>4 DEF one, many
  <2>2. IsFiniteSet(one \X many) /\ Cardinality(one \X many) = Cardinality(one) * Cardinality(many)
    BY ONLY <2>1, FS_Product
  <2>3. Cardinality(one) = 1 /\ Cardinality(many) = NSlots[g]
    BY <1>3, <1>4 DEF one, many
  <2>4. IsFiniteSet(one \X many) /\ Cardinality(one \X many) = 1 * NSlots[g]
    BY ONLY <2>2, <2>3
  <2>5. QED
    BY <2>4 DEF one, many
<1>6. QED
  BY <1>1, <1>2, <1>5

\* A choice of m experts for each of t tokens is a sequence of experts.
LEMMA TopKType ==
  ASSUME NEW t \in Nat, NEW m \in Nat
  PROVE  TopK(t, m) \subseteq Seq(Experts)
<1>1. t * m \in Nat
  OBVIOUS
<1>2. QED
  BY <1>1 DEF TopK

\* Ranks stay natural numbers: a rank that is lowered was above another one.
LEMMA TouchType ==
  ASSUME slot_used \in [Slots -> Nat], NEW s \in Slots
  PROVE  Touch(s) \in [Slots -> Nat]
<1>1. Cardinality(Slots) \in Nat
  BY SlotsFinite, FS_CardinalityType
<1>2. QED
  BY <1>1 DEF Touch

\* An eviction leaves the map from keys to slots a map from keys to slots.
LEMMA RemapType ==
  ASSUME where \in [Keys -> Slots \cup {NoSlot}], NEW s \in Slots, NEW k \in Keys
  PROVE  Remap(s, k) \in [Keys -> Slots \cup {NoSlot}]
  BY DEF Remap

\* Giving any slot to a key that has none, with the eviction of what was there,
\* keeps the two maps in agreement.
LEMMA AssignAgrees ==
  ASSUME MapsTyped, MapsAgree, NEW s \in Slots, NEW k \in Keys, where[k] = NoSlot,
         slot_key' = [slot_key EXCEPT ![s] = k], where' = Remap(s, k)
  PROVE  MapsAgree'
<1>1. k # NoKey /\ s # NoSlot /\ slot_key \in [Slots -> Keys \cup {NoKey}]
  BY NullAssumption DEF MapsTyped
<1>2. \A t \in Slots : slot_key'[t] # NoKey => where'[slot_key'[t]] = t
  <2> SUFFICES ASSUME NEW t \in Slots, slot_key'[t] # NoKey
               PROVE  where'[slot_key'[t]] = t
    OBVIOUS
  <2>1. CASE t = s
    BY <1>1, <2>1 DEF Remap
  <2>2. CASE t # s
    <3>1. slot_key'[t] = slot_key[t] /\ slot_key[t] \in Keys
      BY <1>1, <2>2
    <3>2. where[slot_key[t]] = t
      BY <3>1 DEF MapsAgree
    <3>3. slot_key[t] # k
      BY <3>2, NullAssumption
    <3>4. slot_key[t] # slot_key[s]
      BY <2>2, <3>1, <3>2, NullAssumption DEF MapsAgree
    <3>5. QED
      BY <3>1, <3>2, <3>3, <3>4 DEF Remap
  <2>3. QED
    BY <2>1, <2>2
<1>3. \A x \in Keys : where'[x] # NoSlot => slot_key'[where'[x]] = x
  <2> SUFFICES ASSUME NEW x \in Keys, where'[x] # NoSlot
               PROVE  slot_key'[where'[x]] = x
    OBVIOUS
  <2>1. CASE x = k
    BY <1>1, <2>1 DEF Remap
  <2>2. CASE x # k
    <3>1. x # slot_key[s] /\ where'[x] = where[x]
      BY <2>2 DEF Remap
    <3>2. where[x] \in Slots /\ slot_key[where[x]] = x
      BY <3>1 DEF MapsAgree, MapsTyped
    <3>3. QED
      BY <1>1, <3>1, <3>2
  <2>3. QED
    BY <2>1, <2>2
<1>4. QED
  BY <1>2, <1>3 DEF MapsAgree

\* A victim of the key's group is a slot of the key's group.
LEMMA AssignOwnPool ==
  ASSUME MapsTyped, OwnPool, NEW s \in Slots, NEW k \in Keys,
         IsVictim(GroupOf[k[1]], s), slot_key' = [slot_key EXCEPT ![s] = k]
  PROVE  OwnPool'
<1>1. s[1] = GroupOf[k[1]]
  BY DEF IsVictim, Empty, Evictable, SlotsOf
<1>2. QED
  BY <1>1 DEF OwnPool, MapsTyped

\* Keys with slots of their own, each in the pool of its group, are no more than
\* the group's slots.
LEMMA Capacity ==
  ASSUME NEW r \in SUBSET Keys, NEW wh,
         \A k \in r : wh[k] \in SlotsOf(GroupOf[k[1]]),
         \A j, k \in r : wh[j] = wh[k] => j = k,
         NEW g \in Groups
  PROVE  Cardinality({k \in r : GroupOf[k[1]] = g}) <= NSlots[g]
<1> DEFINE mine == {k \in r : GroupOf[k[1]] = g}
           f == [k \in mine |-> wh[k]]
<1>1. f \in Injection(mine, SlotsOf(g))
  BY DEF Injection, IsInjective
<1>2. IsFiniteSet(SlotsOf(g)) /\ Cardinality(SlotsOf(g)) = NSlots[g]
  BY SlotsCount
<1> HIDE DEF f, mine
<1>3. Cardinality(mine) <= Cardinality(SlotsOf(g))
  BY <1>1, <1>2, FS_Injection
<1>4. QED
  BY <1>2, <1>3 DEF mine
=============================================================================
