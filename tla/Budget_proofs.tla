---------------------------- MODULE Budget_proofs ----------------------------
(***************************************************************************)
(* That a budget is enough and is not exceeded, for every model, size of   *)
(* GPU and rounding.                                                       *)
(***************************************************************************)
EXTENDS Budget, SeqFolds_proofs

-----------------------------------------------------------------------------
(* Numbers and sums.                                                       *)

\* A quotient is rounded down.
LEMMA DivBelow ==
  ASSUME NEW n \in Nat, NEW d \in Nat \ {0}
  PROVE  n \div d \in Nat /\ (n \div d) * d <= n
<1>1. n \div d \in Int /\ n % d \in 0 .. d - 1 /\ n = (d * (n \div d)) + (n % d)
  OBVIOUS
<1> DEFINE q == n \div d
           r == n % d
<1>2. q \in Int /\ r \in Nat /\ r < d /\ n = (d * q) + r /\ d * q = q * d
  BY <1>1
<1> HIDE DEF q, r
<1>3. q >= 0
  <2>1. SUFFICES ASSUME q <= -1 PROVE FALSE
    BY <1>2
  <2>2. d * q <= -d
    BY <1>2, <2>1
  <2>3. QED
    BY <1>2, <2>2
<1>4. q \in Nat /\ q * d <= n
  BY <1>2, <1>3
<1>5. QED
  BY <1>4 DEF q

\* It is not rounded down further than to the next number.
LEMMA DivAbove ==
  ASSUME NEW n \in Nat, NEW d \in Nat \ {0}, NEW k \in Nat, k * d <= n
  PROVE  k <= n \div d
<1>1. n \div d \in Int /\ n % d \in 0 .. d - 1 /\ n = (d * (n \div d)) + (n % d)
  OBVIOUS
<1> DEFINE q == n \div d
           r == n % d
<1>2. q \in Int /\ r \in Nat /\ r < d /\ n = (d * q) + r /\ d * q = q * d
  BY <1>1
<1> HIDE DEF q, r
<1>3. k <= q
  <2>1. SUFFICES ASSUME q + 1 <= k PROVE FALSE
    BY <1>2
  <2>2. (q + 1) * d <= k * d
    BY <1>2, <2>1
  <2>3. (q + 1) * d = q * d + d
    BY <1>2
  <2>4. q * d \in Int /\ k * d \in Int
    BY <1>2
  <2>5. QED
    BY <1>2, <2>2, <2>3, <2>4
<1>4. QED
  BY <1>3 DEF q

\* A positive factor on both sides may be left out.
LEMMA Cancel ==
  ASSUME NEW x \in Int, NEW y \in Int, NEW t \in Nat \ {0}, x * t <= y * t
  PROVE  x <= y
<1>1. SUFFICES ASSUME y + 1 <= x PROVE FALSE
  OBVIOUS
<1>2. (y + 1) * t <= x * t
  BY <1>1
<1>3. (y + 1) * t = y * t + t
  OBVIOUS
<1>4. y * t \in Int /\ x * t \in Int
  OBVIOUS
<1>5. QED
  BY <1>2, <1>3, <1>4

\* The sum of a list of numbers is a number.
LEMMA SumType ==
  ASSUME NEW s \in Seq(Nat)
  PROVE  SumOf(s) \in Nat
<1>1. PICK f : Sums(f, s)
  BY SumIsRecursion
<1>2. Len(s) \in 0 .. Len(s)
  OBVIOUS
<1>3. QED
  BY <1>1, <1>2 DEF Sums

\* A sum of numbers each at least as large is at least as large.
LEMMA SumMonotone ==
  ASSUME NEW a \in Seq(Nat), NEW b \in Seq(Nat), Len(a) = Len(b),
         \A i \in 1 .. Len(a) : a[i] <= b[i]
  PROVE  SumOf(a) <= SumOf(b)
<1> DEFINE N == Len(a)
<1>0. N \in Nat
  OBVIOUS
<1>1. PICK f : Sums(f, a)
  BY SumIsRecursion
<1>2. PICK g : Sums(g, b)
  BY SumIsRecursion
<1>3. /\ f \in [0 .. N -> Nat] /\ f[0] = 0 /\ SumOf(a) = f[N]
      /\ \A i \in 1 .. N : f[i] = f[i - 1] + a[i]
  BY <1>1 DEF Sums
<1>4. /\ g \in [0 .. N -> Nat] /\ g[0] = 0 /\ SumOf(b) = g[N]
      /\ \A i \in 1 .. N : g[i] = g[i - 1] + b[i]
  BY <1>2 DEF Sums
<1>11. \A i \in 1 .. N : a[i] \in Nat /\ b[i] \in Nat
  OBVIOUS
<1> DEFINE P == {n \in Nat : n <= N => f[n] <= g[n]}
<1>5. 0 \in P
  BY <1>3, <1>4
<1>6. ASSUME NEW n \in P PROVE n + 1 \in P
  <2>1. n \in Nat /\ n + 1 \in Nat
    OBVIOUS
  <2>2. SUFFICES ASSUME n + 1 <= N PROVE f[n + 1] <= g[n + 1]
    BY <2>1
  <2>3. n + 1 \in 1 .. N /\ n \in 0 .. N /\ (n + 1) - 1 = n /\ n <= N
    BY <1>0, <2>1, <2>2
  <2>4. f[n] <= g[n] /\ a[n + 1] <= b[n + 1]
    BY <2>3
  <2>5. f[n + 1] = f[n] + a[n + 1] /\ g[n + 1] = g[n] + b[n + 1]
    BY <1>3, <1>4, <2>3
  <2>6. f[n] \in Nat /\ g[n] \in Nat /\ a[n + 1] \in Nat /\ b[n + 1] \in Nat
    BY ONLY <1>0, <1>3, <1>4, <1>11, <2>1, <2>3
  <2> DEFINE u == f[n]
             v == g[n]
             x == a[n + 1]
             y == b[n + 1]
  <2>7. u \in Nat /\ v \in Nat /\ x \in Nat /\ y \in Nat /\ u <= v /\ x <= y
    BY <2>4, <2>6
  <2>8. f[n + 1] = u + x /\ g[n + 1] = v + y
    BY <2>5
  <2> HIDE DEF u, v, x, y
  <2>9. u + x <= v + y
    BY <2>7
  <2>10. QED
    BY <2>8, <2>9
<1> HIDE DEF P
<1>7. Nat \subseteq P
  BY <1>5, <1>6, SetInduction
<1>8. QED
  BY <1>0, <1>3, <1>4, <1>7 DEF P

\* The sum of sums is the sum of both lists.
LEMMA SumAdds ==
  ASSUME NEW a \in Seq(Nat), NEW b \in Seq(Nat), NEW c \in Seq(Nat),
         Len(a) = Len(c), Len(b) = Len(c),
         \A i \in 1 .. Len(c) : c[i] = a[i] + b[i]
  PROVE  SumOf(c) = SumOf(a) + SumOf(b)
<1> DEFINE N == Len(c)
<1>0. N \in Nat
  OBVIOUS
<1>1. PICK f : Sums(f, a)
  BY SumIsRecursion
<1>2. PICK g : Sums(g, b)
  BY SumIsRecursion
<1>9. PICK h : Sums(h, c)
  BY SumIsRecursion
<1>3. /\ f \in [0 .. N -> Nat] /\ f[0] = 0 /\ SumOf(a) = f[N]
      /\ \A i \in 1 .. N : f[i] = f[i - 1] + a[i]
  BY <1>1 DEF Sums
<1>4. /\ g \in [0 .. N -> Nat] /\ g[0] = 0 /\ SumOf(b) = g[N]
      /\ \A i \in 1 .. N : g[i] = g[i - 1] + b[i]
  BY <1>2 DEF Sums
<1>10. /\ h \in [0 .. N -> Nat] /\ h[0] = 0 /\ SumOf(c) = h[N]
       /\ \A i \in 1 .. N : h[i] = h[i - 1] + c[i]
  BY <1>9 DEF Sums
<1>11. \A i \in 1 .. N : a[i] \in Nat /\ b[i] \in Nat
  OBVIOUS
<1> DEFINE P == {n \in Nat : n <= N => h[n] = f[n] + g[n]}
<1>5. 0 \in P
  BY <1>3, <1>4, <1>10
<1>6. ASSUME NEW n \in P PROVE n + 1 \in P
  <2>1. n \in Nat /\ n + 1 \in Nat
    OBVIOUS
  <2>2. SUFFICES ASSUME n + 1 <= N PROVE h[n + 1] = f[n + 1] + g[n + 1]
    BY <2>1
  <2>3. n + 1 \in 1 .. N /\ n \in 0 .. N /\ (n + 1) - 1 = n /\ n <= N
    BY <1>0, <2>1, <2>2
  <2>4. h[n] = f[n] + g[n] /\ c[n + 1] = a[n + 1] + b[n + 1]
    BY <2>3
  <2>5. /\ f[n + 1] = f[n] + a[n + 1] /\ g[n + 1] = g[n] + b[n + 1]
        /\ h[n + 1] = h[n] + c[n + 1]
    BY <1>3, <1>4, <1>10, <2>3
  <2>6. f[n] \in Nat /\ g[n] \in Nat /\ a[n + 1] \in Nat /\ b[n + 1] \in Nat
    BY ONLY <1>0, <1>3, <1>4, <1>11, <2>1, <2>3
  <2> DEFINE u == f[n]
             v == g[n]
             x == a[n + 1]
             y == b[n + 1]
  <2>7. u \in Nat /\ v \in Nat /\ x \in Nat /\ y \in Nat
    BY <2>6
  <2>8. h[n + 1] = (u + v) + (x + y) /\ f[n + 1] = u + x /\ g[n + 1] = v + y
    BY <2>4, <2>5
  <2> HIDE DEF u, v, x, y
  <2>9. (u + v) + (x + y) = (u + x) + (v + y)
    BY <2>7
  <2>10. QED
    BY <2>8, <2>9
<1> HIDE DEF P
<1>7. Nat \subseteq P
  BY <1>5, <1>6, SetInduction
<1>8. QED
  BY <1>0, <1>3, <1>4, <1>10, <1>7 DEF P

\* A weight for each element that is kept.
Weights(s, K, w) == [i \in 1 .. Len(s) |-> IF s[i] \in K THEN w ELSE 0]

\* All elements that are kept weigh the same.
LEMMA WeightOfKept ==
  ASSUME NEW S, NEW s \in Seq(S), NEW K, NEW w \in Nat
  PROVE  /\ Weights(s, K, w) \in Seq(Nat) /\ Len(Weights(s, K, w)) = Len(s)
         /\ SumOf(Weights(s, K, w)) = Len(Keep(s, K)) * w
<1> DEFINE N == Len(s)
           a == Weights(s, K, w)
<1>0. N \in Nat
  OBVIOUS
<1>1. a \in Seq(Nat) /\ Len(a) = N /\ \A i \in 1 .. N : a[i] = IF s[i] \in K THEN w ELSE 0
  BY <1>0 DEF Weights
<1> HIDE DEF a
<1>2. PICK f : Sums(f, a)
  BY <1>1, SumIsRecursion
<1>3. PICK g : Keeps(g, S, s, K)
  BY KeepIsRecursion
<1>4. /\ f \in [0 .. N -> Nat] /\ f[0] = 0 /\ SumOf(a) = f[N]
      /\ \A i \in 1 .. N : f[i] = f[i - 1] + a[i]
  BY <1>1, <1>2 DEF Sums
<1>5. /\ g \in [0 .. N -> Seq(S)] /\ g[0] = <<>> /\ Keep(s, K) = g[N]
      /\ \A i \in 1 .. N : g[i] = IF s[i] \in K THEN Append(g[i - 1], s[i]) ELSE g[i - 1]
  BY <1>3, Zenon DEF Keeps
<1> DEFINE P == {n \in Nat : n <= N => f[n] = Len(g[n]) * w}
<1>6. 0 \in P
  <2>1. Len(g[0]) = 0
    BY <1>5
  <2>2. QED
    BY <1>4, <2>1
<1>7. ASSUME NEW n \in P PROVE n + 1 \in P
  <2>1. n \in Nat /\ n + 1 \in Nat
    OBVIOUS
  <2>2. SUFFICES ASSUME n + 1 <= N PROVE f[n + 1] = Len(g[n + 1]) * w
    BY <2>1
  <2>3. n + 1 \in 1 .. N /\ n \in 0 .. N /\ (n + 1) - 1 = n /\ n <= N
    BY <1>0, <2>1, <2>2
  <2>4. f[n] = Len(g[n]) * w
    BY <2>3
  <2>5. f[n + 1] = f[n] + a[n + 1]
    BY <1>4, <2>3
  <2>6. g[n] \in Seq(S) /\ s[n + 1] \in S
    BY <1>5, <2>3
  <2>7. CASE s[n + 1] \in K
    <3>1. g[n + 1] = Append(g[n], s[n + 1])
      BY <1>5, <2>3, <2>7
    <3>2. Len(g[n + 1]) = Len(g[n]) + 1 /\ Len(g[n]) \in Nat
      BY <2>6, <3>1
    <3>3. a[n + 1] = w
      BY <1>1, <2>3, <2>7
    <3> DEFINE k == Len(g[n])
    <3>4. k \in Nat /\ f[n + 1] = k * w + w /\ Len(g[n + 1]) = k + 1
      BY <2>4, <2>5, <3>2, <3>3
    <3> HIDE DEF k
    <3>5. (k + 1) * w = k * w + w
      BY <3>4
    <3>6. QED
      BY <3>4, <3>5
  <2>8. CASE s[n + 1] \notin K
    <3>1. g[n + 1] = g[n]
      BY <1>5, <2>3, <2>8
    <3>2. a[n + 1] = 0
      BY <1>1, <2>3, <2>8
    <3>3. f[n] \in Nat
      BY <1>4, <2>3
    <3>4. QED
      BY <2>4, <2>5, <3>1, <3>2, <3>3
  <2>9. QED
    BY <2>7, <2>8
<1> HIDE DEF P
<1>8. Nat \subseteq P
  BY <1>6, <1>7, SetInduction
<1>9. f[N] = Len(g[N]) * w
  BY <1>0, <1>8 DEF P
<1>10. QED
  BY <1>1, <1>4, <1>5, <1>9 DEF a

-----------------------------------------------------------------------------
(* The groups of a model.                                                  *)

\* What the assumptions say of the model at hand.
ModelRight ==
  /\ model.layers \in Seq(Geometries) /\ Len(model.layers) \in Nat \ {0}
  /\ LayerIds = 1 .. Len(model.layers)
  /\ model.n_expert \in Nat \ {0} /\ model.top_k \in Nat \ {0} /\ model.top_k <= model.n_expert
  /\ fixed \in Nat
  /\ \A i \in LayerIds :
       /\ model.layers[i] \in Geometries
       /\ model.layers[i].bytes \in Nat \ {0} /\ model.layers[i].stride \in Nat \ {0}
       /\ model.layers[i].bytes <= model.layers[i].stride

\* They say it of each model.
LEMMA ModelIsRight ==
  ASSUME model \in Models
  PROVE  ModelRight
<1> DEFINE s == model.layers
<1>1. s \in Seq(Geometries) \ {<<>>}
  BY BudgetAssumption
<1>2. Len(s) \in Nat /\ Len(s) # 0 /\ DOMAIN s = 1 .. Len(s)
  BY <1>1
<1>3. \A i \in 1 .. Len(s) : s[i] \in Geometries
  BY <1>1
<1>4. \A layer \in Geometries :
        layer.bytes \in Nat \ {0} /\ layer.stride \in Nat \ {0} /\ layer.bytes <= layer.stride
  BY BudgetAssumption
<1>5. /\ model.n_expert \in Nat \ {0} /\ model.top_k \in Nat \ {0}
      /\ model.top_k <= model.n_expert
      /\ model.resident \in Nat /\ model.kv \in Nat /\ HEADROOM \in Nat
  BY BudgetAssumption
<1>6. fixed \in Nat
  BY <1>5 DEF fixed
<1>7. QED
  BY <1>1, <1>2, <1>3, <1>4, <1>5, <1>6 DEF ModelRight, LayerIds

\* The layers of a group have its slots' bytes, and there is one.
GroupRight(g) ==
  /\ OfGroup(g) \in Seq(Geometries) /\ Len(OfGroup(g)) \in Nat \ {0}
  /\ slot_bytes(g) \in Nat \ {0}
  /\ \A i \in LayerIds : model.layers[i].parts = g => model.layers[i].bytes = slot_bytes(g)

\* Layers whose parts match have slots of one size.
LEMMA GroupIsRight ==
  ASSUME model \in Models, NEW g \in Groups
  PROVE  GroupRight(g)
<1> DEFINE s == model.layers
           K == {layer \in ToSet(s) : layer.parts = g}
           o == OfGroup(g)
<1>1. ModelRight
  BY ModelIsRight
<1>2. /\ s \in Seq(Geometries) /\ LayerIds = 1 .. Len(s)
      /\ \A i \in LayerIds : s[i] \in Geometries /\ s[i].bytes \in Nat \ {0}
  BY <1>1 DEF ModelRight
<1>3. o = Keep(s, K)
  BY DEF OfGroup
<1>4. o \in Seq(Geometries) /\ \E e : IsSelection(e, s, K, o)
  <2> HIDE DEF K, s
  <2>1. QED
    BY <1>2, <1>3, KeepIs
<1>5. PICK e : IsSelection(e, s, K, o)
  BY <1>4
<1> HIDE DEF o
<1>6. PICK i \in LayerIds : s[i].parts = g
  BY DEF Groups
<1>7. s[i] \in K
  BY <1>2, <1>6 DEF ToSet
<1>8. Len(o) \in Nat \ {0}
  <2>1. \E k \in 1 .. Len(o) : e[k] = i
    BY <1>2, <1>5, <1>6, <1>7 DEF IsSelection
  <2>2. Len(o) \in Nat
    BY <1>4
  <2>3. QED
    BY <2>1, <2>2
<1>9. o[1] \in K
  <2>1. 1 \in 1 .. Len(o)
    BY <1>8
  <2>2. o[1] = s[e[1]] /\ s[e[1]] \in K
    BY <1>5, <2>1 DEF IsSelection
  <2>3. QED
    BY <2>2
<1>10. o[1].parts = g /\ o[1] \in ToSet(s)
  BY <1>9
<1>11. PICK j \in LayerIds : o[1] = s[j]
  BY <1>2, <1>10 DEF ToSet
<1>12. slot_bytes(g) = s[j].bytes /\ s[j].parts = g
  BY <1>10, <1>11 DEF slot_bytes, o
<1>13. \A k \in LayerIds : s[k].parts = g => s[k].bytes = slot_bytes(g)
  <2>1. \A a, b \in Geometries : a.parts = b.parts => a.bytes = b.bytes
    BY BudgetAssumption
  <2>2. QED
    BY <1>2, <1>12, <2>1
<1>14. QED
  BY <1>2, <1>4, <1>8, <1>12, <1>13 DEF GroupRight, o

\* The payload of all layers.
Bytes == [i \in LayerIds |-> model.layers[i].bytes]

\* The payload of the layers of the groups gs, each layer at its place.
BytesIn(gs) == [i \in LayerIds |-> IF model.layers[i].parts \in gs THEN model.layers[i].bytes ELSE 0]

\* Payloads are numbers.
LEMMA BytesType ==
  ASSUME model \in Models, NEW gs
  PROVE  /\ BytesIn(gs) \in Seq(Nat) /\ Len(BytesIn(gs)) = Len(model.layers)
         /\ SumOf(BytesIn(gs)) \in Nat
<1>1. ModelRight
  BY ModelIsRight
<1>2. BytesIn(gs) \in Seq(Nat) /\ Len(BytesIn(gs)) = Len(model.layers)
  BY <1>1 DEF ModelRight, BytesIn
<1>3. QED
  BY <1>2, SumType

\* A group's payload is that of its slots' bytes for each of its layers.
LEMMA BytesOfGroup ==
  ASSUME model \in Models, NEW g \in Groups
  PROVE  SumOf(BytesIn({g})) = Len(OfGroup(g)) * slot_bytes(g)
<1> DEFINE s == model.layers
           K == {layer \in ToSet(s) : layer.parts = g}
           w == slot_bytes(g)
<1>1. ModelRight /\ GroupRight(g)
  BY ModelIsRight, GroupIsRight
<1>2. s \in Seq(Geometries) /\ w \in Nat /\ LayerIds = 1 .. Len(s)
  BY <1>1 DEF ModelRight, GroupRight
<1>3. SumOf(Weights(s, K, w)) = Len(Keep(s, K)) * w
  <2> HIDE DEF s, K, w
  <2>1. QED
    BY <1>2, WeightOfKept
<1>4. BytesIn({g}) = Weights(s, K, w)
  <2>1. \A i \in 1 .. Len(s) : s[i] \in K <=> s[i].parts = g
    BY <1>2 DEF ToSet
  <2>2. \A i \in 1 .. Len(s) : s[i].parts = g => s[i].bytes = w
    BY <1>1, <1>2 DEF GroupRight
  <2>3. QED
    BY <1>2, <2>1, <2>2 DEF BytesIn, Weights
<1>5. QED
  BY <1>3, <1>4 DEF OfGroup

\* One more group adds its payload.
LEMMA BytesOfMore ==
  ASSUME model \in Models, NEW gs, NEW g \in Groups, g \notin gs
  PROVE  SumOf(BytesIn(gs \cup {g})) = SumOf(BytesIn(gs)) + SumOf(BytesIn({g}))
<1> DEFINE a == BytesIn(gs)
           b == BytesIn({g})
           c == BytesIn(gs \cup {g})
<1>1. a \in Seq(Nat) /\ b \in Seq(Nat) /\ c \in Seq(Nat) /\ Len(a) = Len(c) /\ Len(b) = Len(c)
  BY BytesType
<1>2. ModelRight /\ Len(c) = Len(model.layers)
  BY ModelIsRight, BytesType
<1>3. \A i \in 1 .. Len(c) : c[i] = a[i] + b[i]
  <2>1. LayerIds = 1 .. Len(c) /\ \A i \in LayerIds : model.layers[i].bytes \in Nat
    BY <1>2 DEF ModelRight
  <2>2. QED
    BY <2>1 DEF BytesIn
<1> HIDE DEF a, b, c
<1>4. SumOf(c) = SumOf(a) + SumOf(b)
  BY <1>1, <1>3, SumAdds
<1>5. QED
  BY <1>4 DEF a, b, c

-----------------------------------------------------------------------------
(* The split of the budget.                                                *)

\* The sum of the payloads is positive, and that of all groups.
LEMMA BytesOfAll ==
  ASSUME model \in Models
  PROVE  SumOf(Bytes) \in Nat \ {0} /\ BytesIn(Groups) = Bytes
<1>1. ModelRight
  BY ModelIsRight
<1>2. BytesIn(Groups) = Bytes
  BY DEF BytesIn, Bytes, Groups
<1>3. 1 \in LayerIds
  BY <1>1 DEF ModelRight
<1> DEFINE g == model.layers[1].parts
           a == BytesIn({g})
           b == BytesIn(Groups)
<1>4. g \in Groups
  BY <1>3 DEF Groups
<1>5. SumOf(a) = Len(OfGroup(g)) * slot_bytes(g) /\ GroupRight(g)
  <2> HIDE DEF g
  <2>1. QED
    BY <1>4, BytesOfGroup, GroupIsRight
<1>6. SumOf(a) > 0
  BY <1>5 DEF GroupRight
<1>7. /\ a \in Seq(Nat) /\ b \in Seq(Nat) /\ Len(a) = Len(b) /\ Len(a) = Len(model.layers)
      /\ SumOf(a) \in Nat /\ SumOf(b) \in Nat
  BY BytesType
<1>8. \A i \in 1 .. Len(a) : a[i] <= b[i]
  <2>1. LayerIds = 1 .. Len(a) /\ \A i \in LayerIds : model.layers[i].bytes \in Nat
    BY <1>1, <1>7 DEF ModelRight
  <2>2. \A i \in LayerIds : b[i] = model.layers[i].bytes
    BY <1>2 DEF Bytes
  <2>3. \A i \in LayerIds : a[i] = model.layers[i].bytes \/ a[i] = 0
    BY DEF BytesIn
  <2> HIDE DEF a, b
  <2>4. QED
    BY <2>1, <2>2, <2>3
<1> HIDE DEF a, b
<1>9. SumOf(a) <= SumOf(b)
  BY <1>7, <1>8, SumMonotone
<1>10. SumOf(b) \in Nat \ {0}
  BY <1>6, <1>7, <1>9
<1>11. QED
  BY <1>2, <1>10 DEF b

\* The slots that are paid for cost at most the group's share of the budget.
LEMMA PaidWithinShare ==
  ASSUME model \in Models, NEW g \in Groups, cache_bytes \in Nat
  PROVE  /\ Paid(g) \in Nat
         /\ (Paid(g) * slot_bytes(g)) * SumOf(Bytes)
              <= cache_bytes * (Len(OfGroup(g)) * slot_bytes(g))
<1> DEFINE C == cache_bytes
           n == Len(OfGroup(g))
           w == slot_bytes(g)
           T == SumOf(Bytes)
           E == model.n_expert
<1>1. C \in Nat /\ n \in Nat \ {0} /\ w \in Nat \ {0} /\ T \in Nat \ {0} /\ E \in Nat \ {0}
  BY ModelIsRight, GroupIsRight, BytesOfAll DEF ModelRight, GroupRight
<1> DEFINE x == (C * ((n * w) * E)) \div (T * E)
<1>2. Paid(g) = x \div w
  BY DEF Paid, group_paged, total_paged, Bytes
<1> HIDE DEF C, n, w, T, E
<1> DEFINE D == n * w
<1>3. D \in Nat \ {0} /\ T * E \in Nat \ {0} /\ C * (D * E) \in Nat
  <2>1. n * w > 0 /\ n * w \in Nat /\ T * E > 0 /\ T * E \in Nat
    BY <1>1
  <2>2. D \in Nat /\ D * E \in Nat
    BY <1>1, <2>1
  <2>3. QED
    BY <1>1, <2>1, <2>2
<1>4. x \in Nat /\ x * (T * E) <= C * (D * E)
  <2> DEFINE k == C * (D * E)
             d == T * E
  <2>1. k \in Nat /\ d \in Nat \ {0} /\ x = k \div d
    BY <1>3
  <2> HIDE DEF k, d
  <2>2. k \div d \in Nat /\ (k \div d) * d <= k
    BY <2>1, DivBelow
  <2>3. QED
    BY <2>1, <2>2 DEF k, d
<1> HIDE DEF x, D
<1>5. x * T <= C * D
  <2>1. x * (T * E) = (x * T) * E /\ C * (D * E) = (C * D) * E
    BY <1>1, <1>3, <1>4
  <2>2. x * T \in Int /\ C * D \in Int /\ (x * T) * E <= (C * D) * E
    BY <1>1, <1>3, <1>4, <2>1
  <2>3. QED
    BY <1>1, <2>2, Cancel
<1>6. x \div w \in Nat /\ (x \div w) * w <= x
  BY <1>1, <1>4, DivBelow
<1> DEFINE p == x \div w
<1>7. p \in Nat /\ p * w <= x /\ p * w \in Nat
  BY <1>1, <1>6
<1> HIDE DEF p
<1>8. (p * w) * T <= x * T
  BY <1>1, <1>4, <1>7
<1>9. (p * w) * T <= C * D
  <2>1. (p * w) * T \in Int /\ x * T \in Int /\ C * D \in Int
    BY <1>1, <1>3, <1>4, <1>7
  <2>2. QED
    BY <1>5, <1>8, <2>1
<1>10. QED
  BY <1>2, <1>7, <1>9 DEF C, n, w, T, D, p

\* std::min, std::max and Python's max.
LEMMA MinOfTwo ==
  ASSUME NEW a \in Int, NEW b \in Int
  PROVE  Min({a, b}) = IF a <= b THEN a ELSE b
<1>1. \E x \in {a, b} : \A y \in {a, b} : x <= y
  <2>1. CASE a <= b
    BY <2>1
  <2>2. CASE b <= a
    BY <2>2
  <2>3. QED
    BY <2>1, <2>2
<1>2. Min({a, b}) \in {a, b} /\ \A y \in {a, b} : Min({a, b}) <= y
  BY <1>1 DEF Min
<1>3. QED
  BY <1>2

LEMMA MaxOfTwo ==
  ASSUME NEW a \in Int, NEW b \in Int
  PROVE  Max({a, b}) = IF a <= b THEN b ELSE a
<1>1. \E x \in {a, b} : \A y \in {a, b} : x >= y
  <2>1. CASE a <= b
    BY <2>1
  <2>2. CASE b <= a
    BY <2>2
  <2>3. QED
    BY <2>1, <2>2
<1>2. Max({a, b}) \in {a, b} /\ \A y \in {a, b} : Max({a, b}) >= y
  BY <1>1 DEF Max
<1>3. QED
  BY <1>2

\* The slots of a group: the floor and all it could use bound what is paid for.
LEMMA SlotsAre ==
  ASSUME model \in Models, NEW g \in Groups, cache_bytes \in Nat
  PROVE  /\ Slots(g) \in model.n_expert .. all_slots(g)
         /\ cache_bytes > 0 /\ g \notin Raised => Slots(g) <= Paid(g)
         /\ Slots(g) >= all_slots(g) \/ Slots(g) >= Paid(g)
<1> DEFINE E == model.n_expert
           A == all_slots(g)
           P == Paid(g)
<1>1. E \in Nat \ {0} /\ P \in Nat /\ Len(OfGroup(g)) \in Nat \ {0}
  BY ModelIsRight, GroupIsRight, PaidWithinShare DEF ModelRight, GroupRight
<1>2. A \in Nat /\ E <= A
  BY <1>1 DEF all_slots
<1>3. Max({E, P}) = IF E <= P THEN P ELSE E
  BY <1>1, MaxOfTwo
<1> DEFINE M == Max({E, P})
<1>4. M \in Nat /\ E <= M /\ P <= M /\ (E <= P => M = P)
  BY <1>1, <1>3
<1>5. Min({A, M}) = IF A <= M THEN A ELSE M
  <2> HIDE DEF A, M
  <2>1. QED
    BY <1>2, <1>4, MinOfTwo
<1>6. Slots(g) = IF cache_bytes > 0 THEN Min({A, M}) ELSE A
  BY DEF Slots
<1>7. g \notin Raised => E <= P
  BY <1>1 DEF Raised
<1> HIDE DEF E, A, P, M
<1>8. QED
  BY <1>1, <1>2, <1>4, <1>5, <1>6, <1>7 DEF E, A, P

\* What the pool of the group that layer i starts costs, if the floor has not raised it.
Costs == [i \in LayerIds |->
            LET g == model.layers[i].parts
            IN  IF StartsGroup(i) /\ g \in Groups \ Raised THEN n_slots[g] * slot_bytes(g) ELSE 0]

\* The groups of the first n layers.
Seen(n) == {model.layers[i].parts : i \in 1 .. n}

\* A layer costs nothing, or at most the share of its group, which it starts.
CostRight(i) ==
  /\ Costs[i] \in Nat
  /\ Costs[i] # 0 => StartsGroup(i)
  /\ LET g == model.layers[i].parts
     IN  Costs[i] * SumOf(Bytes) <= cache_bytes * (Len(OfGroup(g)) * slot_bytes(g))

\* Each layer costs what it should.
LEMMA CostIsRight ==
  ASSUME model \in Models, cache_bytes \in Nat \ {0}, n_slots = [g \in Groups |-> Slots(g)],
         NEW i \in LayerIds
  PROVE  CostRight(i)
<1> DEFINE g == model.layers[i].parts
           T == SumOf(Bytes)
           w == slot_bytes(g)
           D == Len(OfGroup(g)) * w
           c == Costs[i]
<1>1. g \in Groups
  BY DEF Groups
<1>2. n_slots[g] = Slots(g)
  BY <1>1
<1> HIDE DEF g
<1>3. T \in Nat \ {0} /\ w \in Nat \ {0} /\ D \in Nat /\ cache_bytes \in Nat
  BY <1>1, GroupIsRight, BytesOfAll DEF GroupRight
<1>4. /\ Slots(g) \in model.n_expert .. all_slots(g)
      /\ g \notin Raised => Slots(g) <= Paid(g)
      /\ Paid(g) \in Nat /\ (Paid(g) * w) * T <= cache_bytes * D
  BY <1>1, SlotsAre, PaidWithinShare
<1>5. Slots(g) \in Nat
  <2>1. model.n_expert \in Nat
    BY ModelIsRight DEF ModelRight
  <2>2. Slots(g) \in Int /\ model.n_expert <= Slots(g)
    BY <1>4
  <2>3. QED
    BY <2>1, <2>2
<1>6. c = IF StartsGroup(i) /\ g \in Groups \ Raised THEN Slots(g) * w ELSE 0
  BY <1>2 DEF Costs, g
<1> DEFINE n == Slots(g)
           p == Paid(g)
<1>7. cache_bytes * D \in Nat
  BY <1>3
<1> HIDE DEF T, w, D, c, n, p
<1>8. CASE StartsGroup(i) /\ g \in Groups \ Raised
  <2>1. c = n * w /\ n \in Nat /\ p \in Nat /\ n <= p /\ (p * w) * T <= cache_bytes * D
    BY <1>4, <1>5, <1>6, <1>8 DEF n, p
  <2>2. n * w \in Nat /\ p * w \in Nat /\ n * w <= p * w
    BY <1>3, <2>1
  <2>3. (n * w) * T <= (p * w) * T /\ (n * w) * T \in Int /\ (p * w) * T \in Int
    BY <1>3, <2>2
  <2>4. (n * w) * T <= cache_bytes * D
    BY <1>7, <2>1, <2>3
  <2>5. QED
    BY <1>8, <2>1, <2>2, <2>4 DEF CostRight, T, w, D, c, g
<1>9. CASE ~(StartsGroup(i) /\ g \in Groups \ Raised)
  <2>1. c = 0
    BY <1>6, <1>9
  <2>2. c * T <= cache_bytes * D
    BY <1>3, <1>7, <2>1
  <2>3. QED
    BY <2>1, <2>2 DEF CostRight, T, w, D, c, g
<1>10. QED
  BY <1>8, <1>9

\* The pools that the floor has not raised fit the budget: groups that start among the
\* first n layers cost at most the share of those groups.
LEMMA CostsWithinBudget ==
  ASSUME model \in Models, cache_bytes \in Nat \ {0}, n_slots = [g \in Groups |-> Slots(g)]
  PROVE  PoolBytes(Groups \ Raised) \in Nat /\ PoolBytes(Groups \ Raised) <= cache_bytes
<1> DEFINE N == Len(model.layers)
           C == cache_bytes
           T == SumOf(Bytes)
           a == Costs
<1>1. ModelRight /\ T \in Nat \ {0} /\ C \in Nat
  BY ModelIsRight, BytesOfAll
<1>2. N \in Nat /\ LayerIds = 1 .. N
  BY <1>1 DEF ModelRight
<1>3. \A i \in 1 .. N : CostRight(i)
  BY <1>2, CostIsRight
<1>4. a \in Seq(Nat) /\ Len(a) = N
  <2>1. a = [i \in 1 .. N |-> a[i]]
    BY <1>2 DEF Costs
  <2>2. \A i \in 1 .. N : a[i] \in Nat
    BY <1>3 DEF CostRight
  <2> HIDE DEF a, N
  <2>3. a \in [1 .. N -> Nat]
    BY <2>1, <2>2
  <2>4. QED
    BY <1>2, <2>3
<1>5. PoolBytes(Groups \ Raised) = SumOf(a)
  BY DEF PoolBytes, Costs
<1>6. PICK f : Sums(f, a)
  BY <1>4, SumIsRecursion
<1>7. /\ f \in [0 .. N -> Nat] /\ f[0] = 0 /\ SumOf(a) = f[N]
      /\ \A i \in 1 .. N : f[i] = f[i - 1] + a[i]
  BY <1>4, <1>6 DEF Sums
<1> DEFINE W(n) == SumOf(BytesIn(Seen(n)))
           P == {n \in Nat : n <= N => f[n] * T <= C * W(n)}
<1>8. \A n \in Nat : W(n) \in Nat
  BY BytesType
<1>9. 0 \in P
  <2>1. W(0) \in Nat /\ f[0] * T = 0
    BY <1>1, <1>7, <1>8
  <2> HIDE DEF W, C
  <2>2. C * W(0) \in Nat
    BY <1>1, <2>1
  <2>3. QED
    BY <2>1, <2>2
<1>10. ASSUME NEW n \in P PROVE n + 1 \in P
  <2>1. n \in Nat /\ n + 1 \in Nat
    OBVIOUS
  <2>2. SUFFICES ASSUME n + 1 <= N PROVE f[n + 1] * T <= C * W(n + 1)
    BY <2>1
  <2>3. n + 1 \in 1 .. N /\ n \in 0 .. N /\ (n + 1) - 1 = n /\ n <= N
    BY <1>2, <2>1, <2>2
  <2> DEFINE g == model.layers[n + 1].parts
             D == Len(OfGroup(g)) * slot_bytes(g)
             x == f[n]
             y == a[n + 1]
  <2>4. x * T <= C * W(n) /\ x \in Nat /\ f[n + 1] = x + y /\ CostRight(n + 1)
    BY <1>3, <1>7, <2>1, <2>3
  <2>5. y \in Nat /\ y * T <= C * D /\ (y # 0 => StartsGroup(n + 1))
    BY <2>4 DEF CostRight
  <2>6. Seen(n + 1) = Seen(n) \cup {g}
    <3>1. 1 .. (n + 1) = (1 .. n) \cup {n + 1}
      BY <2>1
    <3>2. QED
      BY <3>1 DEF Seen
  <2>7. g \in Groups
    BY <1>2, <2>3 DEF Groups
  <2>8. D = SumOf(BytesIn({g})) /\ D \in Nat
    <3> HIDE DEF g
    <3>1. QED
      BY <2>7, BytesOfGroup, BytesType
  <2>9. CASE g \in Seen(n)
    <3>1. Seen(n + 1) = Seen(n)
      BY <2>6, <2>9
    <3>2. ~StartsGroup(n + 1)
      <4>1. PICK j \in 1 .. n : g = model.layers[j].parts
        BY <2>9 DEF Seen
      <4>2. j \in 1 .. (n + 1) - 1
        BY <2>3
      <4>3. QED
        BY <4>1, <4>2 DEF StartsGroup
    <3>3. f[n + 1] = x
      BY <2>4, <2>5, <3>2
    <3>4. QED
      BY <2>4, <3>1, <3>3
  <2>10. CASE g \notin Seen(n)
    <3>1. W(n + 1) = W(n) + D
      <4> DEFINE gs == Seen(n)
      <4> HIDE DEF g, gs
      <4>1. SumOf(BytesIn(gs \cup {g})) = SumOf(BytesIn(gs)) + SumOf(BytesIn({g}))
        BY <2>7, <2>10, BytesOfMore DEF gs
      <4>2. QED
        BY <2>6, <2>8, <4>1 DEF gs
    <3> DEFINE v == W(n)
    <3>2. v \in Nat /\ x * T <= C * v /\ W(n + 1) = v + D
      BY <1>8, <2>1, <2>4, <3>1
    <3> HIDE DEF v, D, x, y, C, T
    <3>3. (x + y) * T = (x * T) + (y * T) /\ C * (v + D) = (C * v) + (C * D)
      BY <1>1, <2>4, <2>5, <2>8, <3>2
    <3>4. x * T \in Nat /\ y * T \in Nat /\ C * v \in Nat /\ C * D \in Nat
      BY <1>1, <2>4, <2>5, <2>8, <3>2
    <3>5. (x * T) + (y * T) <= (C * v) + (C * D)
      BY <2>5, <3>2, <3>4
    <3>6. QED
      BY <2>4, <3>2, <3>3, <3>5
  <2>11. QED
    BY <2>9, <2>10
<1>11. Nat \subseteq P
  <2> HIDE DEF P
  <2>1. QED
    BY <1>9, <1>10, SetInduction
<1>12. f[N] * T <= C * W(N)
  BY <1>2, <1>11
<1>13. W(N) = T
  <2>1. Seen(N) = Groups
    BY <1>2 DEF Seen, Groups
  <2>2. QED
    BY <2>1, BytesOfAll
<1>14. f[N] \in Nat
  BY <1>2, <1>7
<1> DEFINE z == f[N]
<1>15. z * T <= C * T /\ z \in Nat
  BY <1>12, <1>13, <1>14
<1> HIDE DEF z, C, T
<1>16. z <= C
  BY <1>1, <1>15, Cancel
<1>17. QED
  BY <1>5, <1>7, <1>15, <1>16 DEF z, C

\* A budget of k experts for each layer, in payload, pays for k slots of each layer.
LEMMA PaidIsEnough ==
  ASSUME model \in Models, NEW g \in Groups, cache_bytes \in Nat, NEW k \in Nat,
         k * SumOf(Bytes) <= cache_bytes
  PROVE  Len(OfGroup(g)) * k <= Paid(g)
<1> DEFINE C == cache_bytes
           n == Len(OfGroup(g))
           w == slot_bytes(g)
           T == SumOf(Bytes)
           E == model.n_expert
           D == n * w
           F == D * E
           d == T * E
           x == (C * F) \div d
<1>1. /\ C \in Nat /\ n \in Nat \ {0} /\ w \in Nat \ {0} /\ T \in Nat \ {0}
      /\ E \in Nat \ {0} /\ k * T <= C
  BY ModelIsRight, GroupIsRight, BytesOfAll DEF ModelRight, GroupRight
<1>2. Paid(g) = x \div w
  BY DEF Paid, group_paged, total_paged, Bytes
<1> HIDE DEF C, n, w, T, E
<1>3. D \in Nat \ {0} /\ d \in Nat \ {0}
  <2>1. n * w > 0 /\ n * w \in Nat /\ T * E > 0 /\ T * E \in Nat
    BY <1>1
  <2>2. QED
    BY <2>1
<1>4. (k * D) * d = F * (k * T)
  <2> HIDE DEF D
  <2>1. QED
    BY <1>1, <1>3
<1> HIDE DEF D
<1>5. F \in Nat /\ k * D \in Nat /\ k * T \in Nat
  BY <1>1, <1>3
<1> HIDE DEF F, d
<1>6. F * (k * T) <= C * F /\ C * F \in Nat
  <2> DEFINE y == k * T
  <2>1. y \in Nat /\ y <= C
    BY <1>1, <1>5
  <2> HIDE DEF y
  <2>2. F * y <= C * F /\ C * F \in Nat
    BY <1>1, <1>5, <2>1
  <2>3. QED
    BY <2>2 DEF y
<1>7. k * D <= x /\ x \in Nat
  <2> DEFINE m == C * F
             z == k * D
  <2>1. m \in Nat /\ z \in Nat /\ z * d <= m /\ x = m \div d
    BY <1>4, <1>5, <1>6
  <2> HIDE DEF m, z
  <2>2. z <= m \div d /\ m \div d \in Nat
    BY <1>3, <2>1, DivAbove, DivBelow
  <2>3. QED
    BY <2>1, <2>2 DEF z
<1> HIDE DEF x
<1>8. n * k \in Nat /\ (n * k) * w = k * D
  BY <1>1 DEF D
<1>9. n * k <= x \div w
  <2> DEFINE z == n * k
  <2>1. z \in Nat /\ z * w <= x
    BY <1>7, <1>8
  <2> HIDE DEF z
  <2>2. z <= x \div w
    BY <1>1, <1>7, <2>1, DivAbove
  <2>3. QED
    BY <2>2 DEF z
<1>10. QED
  BY <1>2, <1>9 DEF n

\* Extents are not smaller than their payload.
LEMMA PagedCoversBytes ==
  ASSUME model \in Models
  PROVE  \E t \in Nat : t >= SumOf(Bytes) /\ paged_bytes = t * model.n_expert
<1> DEFINE a == Bytes
           b == [i \in LayerIds |-> model.layers[i].stride]
<1>1. ModelRight
  BY ModelIsRight
<1>2. /\ a \in Seq(Nat) /\ b \in Seq(Nat) /\ Len(a) = Len(b)
      /\ \A i \in 1 .. Len(a) : a[i] <= b[i]
  BY <1>1 DEF ModelRight, Bytes
<1>3. paged_bytes = SumOf(b) * model.n_expert
  BY DEF paged_bytes
<1> HIDE DEF a, b
<1>4. SumOf(a) <= SumOf(b) /\ SumOf(a) \in Nat /\ SumOf(b) \in Nat
  BY <1>2, SumMonotone, SumType
<1>5. QED
  BY <1>3, <1>4 DEF a

-----------------------------------------------------------------------------
(* The invariant and the theorems.                                         *)

\* What is left of the memory, in units and rounded down, is not more than was left.
LEMMA RoundingDown ==
  ASSUME NEW n \in Nat, n > 0
  PROVE  /\ RoundDown(n \div MIB) \in Nat
         /\ RoundDown(n \div MIB) * MIB <= n
<1>1. MIB \in Nat \ {0} /\ ROUND \in Nat \ {0}
  BY BudgetAssumption
<1> DEFINE q == n \div MIB
           r == q \div ROUND
<1>2. q \in Nat /\ q * MIB <= n
  BY <1>1, DivBelow
<1> HIDE DEF q
<1>3. r \in Nat /\ r * ROUND <= q
  BY <1>1, <1>2, DivBelow
<1>4. RoundDown(q) = r * ROUND
  BY DEF RoundDown
<1> HIDE DEF r
<1> DEFINE m == r * ROUND
<1>5. m \in Nat /\ m <= q
  BY <1>1, <1>3
<1> HIDE DEF m
<1>6. m * MIB <= q * MIB /\ m * MIB \in Int /\ q * MIB \in Int
  BY <1>1, <1>2, <1>5
<1>7. m * MIB <= n
  BY <1>2, <1>6
<1>8. QED
  BY <1>4, <1>5, <1>7 DEF m, q

LEMMA BudgetInit == Init => BudgetInv
  BY BudgetAssumption DEF Init, BudgetInv, Planned, Served

\* What depends on the model only stays as it is.
LEMMA ModelStays ==
  ASSUME model' = model
  PROVE  fixed' = fixed /\ paged_bytes' = paged_bytes /\ Groups' = Groups
  BY DEF fixed, paged_bytes, Groups, LayerIds

LEMMA BudgetStep == BudgetInv /\ [Next]_vars => BudgetInv'
<1> SUFFICES ASSUME BudgetInv, [Next]_vars PROVE BudgetInv'
  OBVIOUS
<1>1. model \in Models /\ vram \in Vrams /\ vram \in Nat /\ fixed \in Nat /\ ModelRight
  BY BudgetAssumption, ModelIsRight DEF BudgetInv, ModelRight
<1>2. CASE EmitStock
  BY <1>2, BudgetAssumption DEF EmitStock, Decide, BudgetInv, Planned, Served
<1>3. CASE EmitNoRoom
  BY <1>3, BudgetAssumption DEF EmitNoRoom, Decide, BudgetInv, Planned, Served
<1>4. CASE EmitPlan
  <2> DEFINE d == vram - fixed
             mb == RoundDown(d \div MIB)
  <2>1. /\ d \in Nat /\ d > 0 /\ cache_mb' = mb /\ stage' = "configured" /\ author' = "planner"
        /\ model' = model /\ vram' = vram
    BY <1>1, <1>4 DEF EmitPlan, Decide
  <2> HIDE DEF d
  <2>2. mb \in Nat /\ mb * MIB <= d
    BY <2>1, RoundingDown
  <2> HIDE DEF mb
  <2>3. mb * MIB \in Int
    BY <2>2, BudgetAssumption
  <2>4. fixed + mb * MIB <= vram
    BY <1>1, <2>2, <2>3 DEF d
  <2>5. fixed' = fixed
    BY <2>1, ModelStays
  <2>6. QED
    BY <1>1, <2>1, <2>2, <2>4, <2>5 DEF BudgetInv, Planned, Served
<1>5. CASE ServeConfig
  <2> DEFINE r == RoundDown((vram - fixed) \div MIB)
             mb == Max({r, LEAST})
  <2>1. /\ cache_mb' = mb /\ stage' = "configured" /\ author' = "launcher"
        /\ model' = model /\ vram' = vram
        /\ warned' = (mb * MIB * model.n_expert < model.top_k * paged_bytes)
    BY <1>5 DEF ServeConfig, Decide
  <2>2. r \in Int
    <3>1. MIB \in Nat \ {0} /\ ROUND \in Nat \ {0}
      BY BudgetAssumption
    <3> DEFINE q == (vram - fixed) \div MIB
    <3>2. q \in Int
      BY <1>1, <3>1
    <3> HIDE DEF q
    <3>3. q \div ROUND \in Int
      BY <3>1, <3>2
    <3>4. RoundDown(q) \in Int
      BY <3>1, <3>3 DEF RoundDown
    <3>5. QED
      BY <3>4 DEF q
  <2>3. LEAST \in Nat \ {0}
    BY BudgetAssumption
  <2> HIDE DEF r
  <2>4. mb \in Nat \ {0}
    <3>1. mb = IF r <= LEAST THEN LEAST ELSE r
      BY <2>2, <2>3, MaxOfTwo
    <3>2. QED
      BY <2>2, <2>3, <3>1
  <2> HIDE DEF mb
  <2>5. paged_bytes' = paged_bytes
    BY <2>1, ModelStays
  <2>6. QED
    BY <1>1, <2>1, <2>4, <2>5 DEF BudgetInv, Planned, Served
<1>6. CASE ServeOnCPU
  BY <1>6, BudgetAssumption DEF ServeOnCPU, Decide, BudgetInv, Planned, Served
<1>7. CASE Load
  <2>1. /\ model' = model /\ vram' = vram /\ author' = author /\ cache_mb' = cache_mb
        /\ warned' = warned /\ stage = "configured" /\ stage' = "loaded"
        /\ n_slots' = [g \in Groups |-> Slots(g)]
    BY <1>7 DEF Load
  <2>2. fixed' = fixed /\ paged_bytes' = paged_bytes /\ Groups' = Groups
    BY <2>1, ModelStays
  <2>3. \A g : Slots(g)' = Slots(g)
    BY <2>1 DEF Slots, all_slots, Paid, cache_bytes, group_paged, total_paged, slot_bytes, OfGroup,
         LayerIds
  <2>4. n_slots' = [g \in Groups' |-> Slots(g)']
    BY <2>1, <2>2, <2>3
  <2>5. QED
    BY <2>1, <2>2, <2>4 DEF BudgetInv, Planned, Served
<1>8. CASE UNCHANGED vars
  <2>1. /\ model' = model /\ vram' = vram /\ author' = author /\ cache_mb' = cache_mb
        /\ warned' = warned /\ stage' = stage /\ n_slots' = n_slots
    BY <1>8 DEF vars
  <2>2. fixed' = fixed /\ paged_bytes' = paged_bytes /\ Groups' = Groups
    BY <2>1, ModelStays
  <2>3. \A g : Slots(g)' = Slots(g)
    BY <2>1 DEF Slots, all_slots, Paid, cache_bytes, group_paged, total_paged, slot_bytes, OfGroup,
         LayerIds
  <2>4. QED
    BY <2>1, <2>2, <2>3 DEF BudgetInv, Planned, Served
<1>9. QED
  BY <1>2, <1>3, <1>4, <1>5, <1>6, <1>7, <1>8 DEF Next

\* What a budget is, and what the slots of a loaded model were made from.
THEOREM BudgetCorrect == Spec => []BudgetInv
  BY BudgetInit, BudgetStep, PTL DEF Spec

\* The parts of the theorems that are about a state.
LEMMA PlannedFits == BudgetInv => PlannedFitsUnlessRaised
<1> SUFFICES ASSUME BudgetInv, Loaded("planner"), cache_mb > 0
             PROVE  fixed + PoolBytes(Groups \ Raised) <= vram
  BY DEF PlannedFitsUnlessRaised
<1>1. /\ model \in Models /\ cache_mb \in Nat /\ fixed + cache_mb * MIB <= vram
      /\ n_slots = [g \in Groups |-> Slots(g)]
  BY DEF BudgetInv, Planned, Loaded
<1>2. fixed \in Nat /\ vram \in Nat /\ MIB \in Nat \ {0}
  BY <1>1, BudgetAssumption, ModelIsRight DEF ModelRight, BudgetInv
<1>3. cache_bytes = cache_mb * MIB /\ cache_bytes \in Nat \ {0}
  <2>1. cache_mb # Unset
    BY <1>1 DEF Unset
  <2>2. cache_mb * MIB \in Nat /\ cache_mb * MIB > 0
    BY <1>1, <1>2
  <2>3. QED
    BY <2>1, <2>2 DEF cache_bytes
<1>4. PoolBytes(Groups \ Raised) \in Nat /\ PoolBytes(Groups \ Raised) <= cache_bytes
  BY <1>1, <1>3, CostsWithinBudget
<1>5. QED
  BY <1>1, <1>2, <1>3, <1>4

LEMMA SlotsDoSuffice == BudgetInv => SlotsSuffice
<1> SUFFICES ASSUME BudgetInv, stage = "loaded", NEW g \in Groups
             PROVE  /\ n_slots[g] \in model.n_expert .. all_slots(g)
                    /\ Loaded("launcher") /\ ~warned => n_slots[g] >= Len(OfGroup(g)) * model.top_k
  BY DEF SlotsSuffice
<1>1. model \in Models /\ n_slots[g] = Slots(g) /\ cache_mb \in Nat \cup {Unset}
  BY DEF BudgetInv
<1>2. MIB \in Nat \ {0}
  BY BudgetAssumption
<1>3. cache_bytes \in Nat
  BY <1>1, <1>2 DEF cache_bytes
<1>4. Slots(g) \in model.n_expert .. all_slots(g)
  BY <1>1, <1>3, SlotsAre
<1>5. ASSUME Loaded("launcher"), ~warned
      PROVE  Slots(g) >= Len(OfGroup(g)) * model.top_k
  <2> DEFINE C == cache_bytes
             E == model.n_expert
             k == model.top_k
             T == SumOf(Bytes)
             n == Len(OfGroup(g))
  <2>1. cache_mb \in Nat \ {0} /\ ~(cache_mb * MIB * E < k * paged_bytes)
    BY <1>5 DEF BudgetInv, Served, Loaded
  <2>2. cache_bytes = cache_mb * MIB
    BY <2>1 DEF cache_bytes, Unset
  <2>3. PICK t \in Nat : t >= T /\ paged_bytes = t * E
    BY <1>1, PagedCoversBytes
  <2>4. /\ E \in Nat \ {0} /\ k \in Nat \ {0} /\ k <= E /\ T \in Nat /\ n \in Nat /\ C \in Nat
    BY <1>1, <1>3, ModelIsRight, GroupIsRight, BytesOfAll DEF ModelRight, GroupRight
  <2>5. ~(C * E < k * (t * E))
    BY <2>1, <2>2, <2>3
  <2> HIDE DEF C, E, k, T, n
  <2>6. (k * t) * E <= C * E
    <3>1. k * (t * E) = (k * t) * E /\ k * (t * E) \in Int /\ C * E \in Int
      BY <2>3, <2>4
    <3>2. QED
      BY <2>5, <3>1
  <2>7. k * t <= C
    <3>1. k * t \in Int
      BY <2>3, <2>4
    <3>2. QED
      BY <2>4, <2>6, <3>1, Cancel
  <2>8. k * T <= C
    <3>1. k * T <= k * t /\ k * T \in Int /\ k * t \in Int
      BY <2>3, <2>4
    <3>2. QED
      BY <2>4, <2>7, <3>1
  <2>9. n * k <= Paid(g)
    <3>1. model.top_k \in Nat /\ model.top_k * SumOf(Bytes) <= cache_bytes
      BY <2>4, <2>8 DEF k, T, C
    <3>2. QED
      BY <1>1, <1>3, <3>1, PaidIsEnough DEF n, k
  <2>10. n * k <= all_slots(g)
    BY <2>4 DEF all_slots, n, E
  <2>11. Slots(g) >= all_slots(g) \/ Slots(g) >= Paid(g)
    BY <1>1, <1>3, SlotsAre
  <2>12. Slots(g) \in Int /\ all_slots(g) \in Int /\ Paid(g) \in Int /\ n * k \in Int
    <3>1. all_slots(g) \in Int /\ n * k \in Int
      BY <2>4 DEF all_slots, n, E
    <3>2. Paid(g) \in Int
      BY <1>1, <1>3, PaidWithinShare
    <3>3. QED
      BY <1>4, <3>1, <3>2
  <2>13. Slots(g) >= n * k
    BY ONLY <2>9, <2>10, <2>11, <2>12
  <2>14. QED
    BY <2>13 DEF n, k
<1>6. QED
  BY <1>1, <1>4, <1>5

\* The planner's budget is kept: beside the resident weights, the KV cache and the headroom,
\* the pools that the floor has not raised fit the GPU (plan.py 344, P1 697-703).
THEOREM PlannedCorrect == Spec => []PlannedFitsUnlessRaised
<1>1. QED
  BY BudgetCorrect, PlannedFits, PTL

\* A loaded model can run, and where the launcher has not warned, an LRU may hit in every
\* group (nvmoe 291, P1 697-703).
THEOREM SlotsCorrect == Spec => []SlotsSuffice
<1>1. QED
  BY BudgetCorrect, SlotsDoSuffice, PTL
=============================================================================
