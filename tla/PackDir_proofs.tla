--------------------------- MODULE PackDir_proofs ---------------------------
(***************************************************************************)
(* What the repacker computes from a file it lets through, for every file, *)
(* type table and alignment: the layers and the kinds it finds, the        *)
(* geometry of a layer's extents, and the bytes of an extent.  Then proofs *)
(* about a pack directory, for every source file, type table, alignment    *)
(* and number of faults: the plan and every manifest are sound, a manifest *)
(* means a finished pack, and a verification that passes means that the    *)
(* runtime gets the bytes of the source.                                   *)
(***************************************************************************)
EXTENDS PackDir, SeqFolds_proofs, SequenceTheorems

\* Rounding up gives the next multiple (gguf_lite.align_up).
LEMMA AlignUp ==
  ASSUME NEW x \in Nat, NEW a \in Nat \ {0}
  PROVE  align_up(x, a) \in Nat /\ align_up(x, a) >= x /\ align_up(x, a) % a = 0
<1> DEFINE n == x + a - 1
           q == n \div a
           r == n % a
<1>1. n \in Nat
  OBVIOUS
<1>2. q \in Int /\ r \in 0 .. a - 1 /\ n = (a * q) + r
  BY <1>1, Division
<1>3. align_up(x, a) = a * q
  BY <1>2 DEF align_up
<1> HIDE DEF q, r
<1>4. a * q >= x
  BY <1>2
<1>5. (a * q) % a = 0
  BY <1>2, Multiple
<1>6. a * q \in Int
  BY <1>2
<1>7. QED
  BY <1>3, <1>4, <1>5, <1>6

\* Aligned offsets and strides add up to aligned offsets.
LEMMA AlignedSum ==
  ASSUME NEW x \in Nat, NEW y \in Nat, NEW a \in Nat \ {0}, x % a = 0, y % a = 0
  PROVE  (x + y) % a = 0
<1> DEFINE p == x \div a
           q == y \div a
<1>1. p \in Int /\ x = a * p
  BY Division
<1>2. q \in Int /\ y = a * q
  BY Division
<1> HIDE DEF p, q
<1>3. x + y = a * (p + q)
  BY <1>1, <1>2
<1>4. (a * (p + q)) % a = 0
  BY <1>1, <1>2, Multiple
<1>5. QED
  BY <1>3, <1>4

-----------------------------------------------------------------------------
(* Sequences of bytes and of tensors.                                      *)

\* Bytes cut out of a file.
LEMMA RangeIs ==
  ASSUME NEW S, NEW b, b \in Seq(S), NEW from \in Nat, NEW n \in Nat, InRange(b, from, n)
  PROVE  /\ Range0(b, from, n) \in Seq(S)
         /\ Len(Range0(b, from, n)) = n
         /\ \A k \in 1 .. n : Range0(b, from, n)[k] = b[from + k]
<1>1. Len(b) \in Nat /\ from + n <= Len(b)
  BY DEF InRange
<1> DEFINE i == from + 1
           j == from + n
<1>2. i \in Nat /\ j \in Nat /\ i >= 1 /\ j <= Len(b) /\ (j - i) + 1 = n /\ (1 + j) - i = n
  BY <1>1
<1> HIDE DEF i, j
<1>3. SubSeq(b, i, j) \in Seq(S) /\ Len(SubSeq(b, i, j)) = n
  BY <1>1, <1>2
<1>4. ASSUME NEW k \in 1 .. n PROVE SubSeq(b, i, j)[k] = b[(i + k) - 1]
  BY <1>1, <1>2
<1>5. \A k \in 1 .. n : (i + k) - 1 = from + k
  BY DEF i
<1>6. QED
  BY <1>3, <1>4, <1>5 DEF Range0, i, j

\* A run of zero bytes.
LEMMA ZerosAre ==
  ASSUME NEW n \in Nat
  PROVE  Zeros(n) \in Seq(Int) /\ Len(Zeros(n)) = n /\ \A k \in 1 .. n : Zeros(n)[k] = 0
  BY DEF Zeros

-----------------------------------------------------------------------------
(* Tensors (tools/gguf_lite.py).                                           *)

\* A tensor is found by its name.
LEMMA NamedIs ==
  ASSUME NEW f, f.tensors \in Seq(TensorInfo), NEW name \in TensorNames(f)
  PROVE  Named(f, name) \in ToSet(f.tensors) /\ Named(f, name).name = name
<1> DEFINE ts == f.tensors
           I == {i \in 1 .. Len(ts) : ts[i].name = name}
<1>1. PICK t \in ToSet(ts) : t.name = name
  BY DEF TensorNames
<1>2. PICK i \in 1 .. Len(ts) : ts[i] = t
  BY Elements
<1>3. I \in SUBSET Nat /\ I # {}
  BY <1>1, <1>2
<1>4. tensor(f, name) = Min(I)
  BY <1>3, Zenon DEF tensor, SelectInSeq
<1> HIDE DEF I
<1>5. Min(I) \in I
  BY <1>3, MinIs
<1>6. tensor(f, name) \in 1 .. Len(ts) /\ ts[tensor(f, name)].name = name
  BY <1>4, <1>5 DEF I
<1>7. QED
  BY <1>6, Elements DEF Named

\* And it is the one of that name.
LEMMA NamedIsIt ==
  ASSUME NEW f, f.tensors \in Seq(TensorInfo), NamesDiffer(f), NEW t \in ToSet(f.tensors)
  PROVE  Named(f, t.name) = t
<1> DEFINE u == Named(f, t.name)
<1>1. t.name \in TensorNames(f)
  BY DEF TensorNames
<1>2. u \in ToSet(f.tensors) /\ u.name = t.name
  BY <1>1, NamedIs
<1>3. PICK i \in 1 .. Len(f.tensors) : f.tensors[i] = t
  BY Elements
<1>4. PICK j \in 1 .. Len(f.tensors) : f.tensors[j] = u
  BY <1>2, Elements
<1>5. DOMAIN f.tensors = 1 .. Len(f.tensors)
  BY Elements
<1>6. i = j
  BY <1>2, <1>3, <1>4, <1>5 DEF NamesDiffer
<1>7. QED
  BY <1>3, <1>4, <1>6

\* The size of a tensor.
RowBytes(t) == (t.ne[1] \div GGML_TYPES[t.type].blk) * GGML_TYPES[t.type].bytes

\* A tensor is so many rows of whole blocks.
LEMMA RowBytesNat ==
  ASSUME NEW t \in TensorInfo, Sizeable(t)
  PROVE  RowBytes(t) \in Nat /\ tensor_nbytes(t) = RowBytes(t) * ProductOf(Tail(t.ne))
<1>1. t.ne \in Seq(Nat \ {0}) /\ t.ne # <<>>
  BY DEF TensorInfo
<1>2. t.ne[1] \in Nat
  BY <1>1
<1>3. GGML_TYPES[t.type].blk \in Nat \ {0} /\ GGML_TYPES[t.type].bytes \in Nat
  BY GgufAssumption DEF Sizeable
<1>4. t.ne[1] \div GGML_TYPES[t.type].blk \in Nat
  BY <1>2, <1>3, NatDivision
<1>5. QED
  BY <1>3, <1>4 DEF RowBytes, tensor_nbytes

\* The size of a tensor the reader accepts is a number.
LEMMA SizeNat ==
  ASSUME NEW t \in TensorInfo, Sizeable(t)
  PROVE  tensor_nbytes(t) \in Nat
<1> DEFINE s == Tail(t.ne)
<1>1. t.ne \in Seq(Nat \ {0}) /\ t.ne # <<>>
  BY DEF TensorInfo
<1>2. s \in Seq(Nat)
  BY <1>1
<1> HIDE DEF s
<1>3. PICK f : Products(f, s)
  BY <1>2, ProductIsRecursion
<1>4. Len(s) \in Nat
  BY <1>2
<1>5. ProductOf(s) \in Nat
  BY <1>3, <1>4 DEF Products
<1>6. QED
  BY <1>5, RowBytesNat DEF s

\* Each expert has an equal share of the tensor, row after row.
LEMMA SliceIs ==
  ASSUME NEW t \in TensorInfo, Sizeable(t), Len(t.ne) = 3
  PROVE  /\ t.ne[3] \in Nat \ {0}
         /\ SliceBytes(t) \in Nat
         /\ SliceBytes(t) = RowBytes(t) * t.ne[2]
         /\ tensor_nbytes(t) = SliceBytes(t) * t.ne[3]
<1> DEFINE s == Tail(t.ne)
           a == t.ne[2]
           b == t.ne[3]
           row == RowBytes(t)
<1>1. t.ne \in Seq(Nat \ {0}) /\ t.ne # <<>>
  BY DEF TensorInfo
<1>2. s \in Seq(Nat) /\ Len(s) = 2 /\ s[1] = a /\ s[2] = b /\ a \in Nat /\ b \in Nat \ {0}
  BY <1>1
<1>3. row \in Nat /\ tensor_nbytes(t) = row * ProductOf(s)
  BY RowBytesNat
<1> HIDE DEF s, a, b, row
<1>4. PICK f : Products(f, s)
  BY <1>2, ProductIsRecursion
<1>5. f[0] = 1 /\ f[1] = f[0] * a /\ f[2] = f[1] * b /\ ProductOf(s) = f[2]
  BY <1>2, <1>4 DEF Products
<1>6. ProductOf(s) = a * b
  BY <1>2, <1>5
<1>7. tensor_nbytes(t) = b * (row * a)
  BY <1>2, <1>3, <1>6
<1>8. row * a \in Nat
  BY <1>2, <1>3
<1>9. SliceBytes(t) = row * a
  BY <1>2, <1>7, <1>8, ExactDivision DEF SliceBytes, b
<1>10. tensor_nbytes(t) = SliceBytes(t) * b
  BY <1>2, <1>7, <1>8, <1>9
<1>11. QED
  BY <1>2, <1>8, <1>9, <1>10 DEF a, b, row

-----------------------------------------------------------------------------
(* The two parts of a file, its layers and its kinds (tools/repack_gguf.py). *)

KindSet == ToSet(KIND_ORDER)

\* The two lists have the tensors of the file, each in one of them.
LEMMA PartsOfFile ==
  ASSUME NEW f, f.tensors \in Seq(TensorInfo)
  PROVE  /\ Paged(f) \in Seq(TensorInfo)
         /\ ToSet(Paged(f)) = {t \in ToSet(f.tensors) : IsExpert(t)}
         /\ Resident(f) \in Seq(TensorInfo)
         /\ ToSet(Resident(f)) = {t \in ToSet(f.tensors) : ~IsExpert(t)}
<1> DEFINE P == {t \in ToSet(f.tensors) : IsExpert(t)}
           R == {t \in ToSet(f.tensors) : ~IsExpert(t)}
<1>1. Paged(f) = Keep(f.tensors, P) /\ Resident(f) = Keep(f.tensors, R)
  BY DEF Paged, Resident
<1>2. P \subseteq ToSet(f.tensors) /\ R \subseteq ToSet(f.tensors)
  OBVIOUS
<1> HIDE DEF P, R
<1>3. Keep(f.tensors, P) \in Seq(TensorInfo) /\ ToSet(Keep(f.tensors, P)) = P
  BY <1>2, KeepSubset
<1>4. Keep(f.tensors, R) \in Seq(TensorInfo) /\ ToSet(Keep(f.tensors, R)) = R
  BY <1>2, KeepSubset
<1>5. QED
  BY <1>1, <1>3, <1>4 DEF P, R

\* Python's sorted(paged): each layer with experts once, going up.
LEMMA MoeLayersAre ==
  ASSUME NEW f, f.tensors \in Seq(TensorInfo)
  PROVE  /\ MoeLayers(f) \in Seq(Nat)
         /\ ToSet(MoeLayers(f)) = {t.name.layer : t \in ToSet(Paged(f))}
         /\ \A i, j \in 1 .. Len(MoeLayers(f)) : i < j => MoeLayers(f)[i] < MoeLayers(f)[j]
<1> DEFINE ts == Paged(f)
           S == {t.name.layer : t \in ToSet(ts)}
           n == Len(ts)
           g == [i \in 1 .. n |-> ts[i].name.layer]
<1>1. ts \in Seq(TensorInfo)
  BY PartsOfFile
<1> HIDE DEF ts
<1>2. n \in Nat /\ \A i \in 1 .. n : ts[i] \in ToSet(ts) /\ ts[i] \in TensorInfo
  BY <1>1, Elements
<1>3. S \in SUBSET Nat
  <2>1. \A t \in ToSet(ts) : t \in TensorInfo
    BY <1>1, Elements
  <2>2. \A t \in TensorInfo : t.name.layer \in Nat
    BY DEF TensorInfo
  <2>3. QED
    BY <2>1, <2>2
<1>4. g \in Surjection(1 .. n, S)
  <2>1. g \in [1 .. n -> S]
    BY <1>2
  <2>2. ASSUME NEW l \in S PROVE \E i \in 1 .. n : g[i] = l
    <3>1. PICK t \in ToSet(ts) : t.name.layer = l
      OBVIOUS
    <3>2. PICK i \in 1 .. n : ts[i] = t
      BY <1>1, Elements
    <3>3. g[i] = l
      BY <3>1, <3>2
    <3>4. QED
      BY <3>3
  <2> HIDE DEF g, S, n
  <2>3. QED
    BY <2>1, <2>2 DEF Surjection
<1>5. IsFiniteSet(1 .. n)
  BY <1>2, FS_Interval
<1>6. IsFiniteSet(S)
  <2> HIDE DEF g, S, n
  <2>1. QED
    BY <1>4, <1>5, FS_Surjection
<1>7. MoeLayers(f) = Sorted(S)
  BY DEF MoeLayers, ts
<1> HIDE DEF S
<1>8. QED
  BY <1>3, <1>6, <1>7, SortedIs DEF S, ts

\* The kinds a layer has.
LEMMA HaveIs ==
  ASSUME NEW f, NEW layer
  PROVE  /\ Have(f, layer) \in Seq(KindSet)
         /\ ToSet(Have(f, layer)) =
              {k \in KindSet : [layer |-> layer, what |-> k] \in TensorNames(f)}
<1> DEFINE K == {k \in KindSet : [layer |-> layer, what |-> k] \in TensorNames(f)}
<1>1. KIND_ORDER \in Seq(KindSet)
  BY DEF KIND_ORDER, KindSet, ToSet
<1>2. Have(f, layer) = Keep(KIND_ORDER, K)
  BY DEF Have, KindSet
<1>3. K \subseteq ToSet(KIND_ORDER)
  BY DEF KindSet
<1> HIDE DEF K
<1>4. Keep(KIND_ORDER, K) \in Seq(KindSet) /\ ToSet(Keep(KIND_ORDER, K)) = K
  BY <1>1, <1>3, KeepSubset
<1>5. QED
  BY <1>2, <1>4 DEF K

\* A name is its layer and what it is.
LEMMA NameIs ==
  ASSUME NEW t \in TensorInfo
  PROVE  t.name = [layer |-> t.name.layer, what |-> t.name.what]
  BY DEF TensorInfo

\* A file the repacker lets through.
Plannable(f) == IsGguf(f) /\ NamesDiffer(f) /\ read_gguf(f) /\ ~Refuses(f)

\* What the header of a file gives is typed.
LEMMA TensorsTyped ==
  ASSUME NEW f, IsFile(f)
  PROVE  /\ f.tensors \in Seq(TensorInfo)
         /\ f.data \in Seq(Int)
         /\ Len(f.kv) \in Nat
         /\ \A t \in ToSet(f.tensors) : t \in TensorInfo
<1>1. f.tensors \in Seq(TensorInfo) /\ f.data \in Seq(Int)
  BY DEF IsFile
<1>2. f.kv \in Seq(ToSet(f.kv))
  BY DEF IsFile
<1>3. Len(f.kv) \in Nat
  BY <1>2
<1>4. QED
  BY <1>1, <1>3, Elements

\* Every tensor to page is a stack of as many matrices as there are experts.
LEMMA PagedTensors ==
  ASSUME NEW f, Plannable(f), NEW t \in ToSet(Paged(f))
  PROVE  /\ t \in ToSet(f.tensors) /\ t \in TensorInfo /\ IsExpert(t) /\ Sizeable(t)
         /\ Len(t.ne) = 3 /\ t.ne[3] = NExpert(f)
         /\ t.name.layer \in ToSet(MoeLayers(f))
<1>1. f.tensors \in Seq(TensorInfo) /\ \A u \in ToSet(f.tensors) : u \in TensorInfo
  BY TensorsTyped DEF Plannable, IsGguf
<1>2. t \in ToSet(f.tensors) /\ IsExpert(t)
  BY <1>1, PartsOfFile
<1>3. t.name.layer \in ToSet(MoeLayers(f))
  BY <1>1, MoeLayersAre
<1>4. QED
  BY <1>1, <1>2, <1>3 DEF Plannable, Refuses, read_gguf

\* Each layer with experts has a tensor of each kind.
LEMMA KindsAre ==
  ASSUME NEW f, Plannable(f), NEW layer \in ToSet(MoeLayers(f)), NEW kind
  PROVE  /\ kind \in ToSet(Kinds(f)) => /\ PagedTensor(f, layer, kind) \in ToSet(Paged(f))
                                        /\ PagedTensor(f, layer, kind).name = [layer |-> layer, what |-> kind]
         /\ (kind \in KindSet /\ [layer |-> layer, what |-> kind] \in TensorNames(f)) => kind \in ToSet(Kinds(f))
<1>1. f.tensors \in Seq(TensorInfo) /\ \A u \in ToSet(f.tensors) : u \in TensorInfo
  BY TensorsTyped DEF Plannable, IsGguf
<1>2. Have(f, layer) = Kinds(f)
  BY DEF Plannable, Refuses
<1>3. ToSet(Kinds(f)) = {k \in KindSet : [layer |-> layer, what |-> k] \in TensorNames(f)}
  BY <1>2, HaveIs
<1> DEFINE name == [layer |-> layer, what |-> kind]
           t == PagedTensor(f, layer, kind)
<1>4. ASSUME kind \in ToSet(Kinds(f))
      PROVE  t \in ToSet(Paged(f)) /\ t.name = name
  <2>1. kind \in KindSet /\ name \in TensorNames(f)
    BY <1>3, <1>4
  <2>2. t = Named(f, name)
    BY DEF PagedTensor
  <2>3. name.what = kind
    OBVIOUS
  <2> HIDE DEF t, name
  <2>4. t \in ToSet(f.tensors) /\ t.name = name
    BY <1>1, <2>1, <2>2, NamedIs
  <2>5. IsExpert(t)
    BY <2>1, <2>3, <2>4 DEF IsExpert, KindSet
  <2>6. QED
    BY <1>1, <2>4, <2>5, PartsOfFile
<1>5. QED
  BY <1>3, <1>4

\* There is a layer with experts, it has a kind, and there is an expert.
LEMMA SomeExpert ==
  ASSUME NEW f, Plannable(f)
  PROVE  /\ MoeLayers(f) # <<>> /\ MoeLayers(f)[1] \in ToSet(MoeLayers(f))
         /\ Kinds(f) \in Seq(KindSet) /\ Kinds(f) # <<>>
         /\ NExpert(f) \in Nat \ {0}
<1>1. f.tensors \in Seq(TensorInfo) /\ \A u \in ToSet(f.tensors) : u \in TensorInfo
  BY TensorsTyped DEF Plannable, IsGguf
<1>2. Paged(f) # <<>> /\ Paged(f) \in Seq(TensorInfo)
  BY <1>1, PartsOfFile DEF Plannable, Refuses
<1>3. PICK t : t \in ToSet(Paged(f))
  <2>1. 1 \in 1 .. Len(Paged(f))
    BY <1>2
  <2>2. QED
    BY <1>2, <2>1, Elements
<1> DEFINE layers == MoeLayers(f)
<1>4. layers \in Seq(Nat) /\ t.name.layer \in ToSet(layers)
  BY <1>1, <1>3, MoeLayersAre
<1> HIDE DEF layers
<1>5. layers # <<>> /\ layers[1] \in ToSet(layers)
  <2>1. PICK i \in 1 .. Len(layers) : layers[i] = t.name.layer
    BY <1>4, Elements
  <2>2. 1 \in 1 .. Len(layers)
    BY <1>4, <2>1
  <2>3. QED
    BY <1>4, <2>1, <2>2, Elements
<1>6. PICK u \in ToSet(Paged(f)) : u.name.layer = layers[1]
  BY <1>1, <1>5, MoeLayersAre DEF layers
<1>7. u \in ToSet(f.tensors) /\ u \in TensorInfo /\ IsExpert(u)
  BY <1>6, PagedTensors
<1> DEFINE kinds == Kinds(f)
           kind == u.name.what
<1>8. kind \in KindSet /\ [layer |-> layers[1], what |-> kind] \in TensorNames(f)
  <2>1. u.name = [layer |-> layers[1], what |-> kind]
    BY <1>6, <1>7, NameIs
  <2>2. u.name \in TensorNames(f)
    BY <1>7 DEF TensorNames
  <2>3. QED
    BY <1>7, <2>1, <2>2 DEF IsExpert, KindSet
<1> HIDE DEF kind
<1>9. kind \in ToSet(kinds)
  BY <1>5, <1>8, KindsAre DEF layers
<1>10. kinds \in Seq(KindSet)
  BY HaveIs DEF Kinds
<1> HIDE DEF kinds
<1>11. kinds # <<>> /\ kinds[1] \in ToSet(kinds)
  <2>1. PICK i \in 1 .. Len(kinds) : kinds[i] = kind
    BY <1>9, <1>10, Elements
  <2>2. 1 \in 1 .. Len(kinds)
    BY <1>10, <2>1
  <2>3. QED
    BY <1>10, <2>1, <2>2, Elements
<1>12. NExpert(f) \in Nat \ {0}
  <2> DEFINE v == PagedTensor(f, layers[1], kinds[1])
  <2>1. v \in ToSet(Paged(f))
    BY <1>5, <1>11, KindsAre DEF layers, kinds
  <2>2. NExpert(f) = v.ne[3]
    BY DEF NExpert, layers, kinds
  <2> HIDE DEF v
  <2>3. v \in TensorInfo /\ Len(v.ne) = 3 /\ Sizeable(v)
    BY <2>1, PagedTensors
  <2>4. QED
    BY <2>2, <2>3, SliceIs
<1>13. QED
  BY <1>5, <1>10, <1>11, <1>12 DEF layers, kinds

-----------------------------------------------------------------------------
(* The geometry of a layer's extents.                                      *)

\* Blocks packed one behind the other, each padded.
LEMMA OffsetsAre ==
  ASSUME NEW sizes, sizes \in Seq(Nat), NEW a \in Nat \ {0}
  PROVE  /\ Offsets(sizes, a) \in [1 .. Len(sizes) -> Nat]
         /\ sizes # <<>> => Offsets(sizes, a)[1] = 0
         /\ \A i \in 2 .. Len(sizes) :
              Offsets(sizes, a)[i] = align_up(Offsets(sizes, a)[i - 1] + sizes[i - 1], a)
<1> DEFINE n == Len(sizes)
           Z == 0
           T == Nat
           step == [i \in 1 .. n - 1 |-> [v \in T |-> align_up(v + sizes[i], a)]]
           Body(g, i) == IF i = 1 THEN Z ELSE align_up(g[i - 1] + sizes[i - 1], a)
           Rec(g) == g = [i \in 1 .. n |-> Body(g, i)]
           rec == CHOOSE g : Rec(g)
<1>1. n \in Nat /\ \A i \in 1 .. n : sizes[i] \in Nat
  OBVIOUS
<1>2. Offsets(sizes, a) = rec
  BY Zenon DEF Offsets
<1>3. CASE n = 0
  <2>1. Rec([i \in 1 .. 0 |-> 0])
    BY <1>3
  <2>2. Rec(rec)
    BY <2>1, Zenon
  <2>3. sizes = <<>>
    BY <1>3
  <2>4. rec \in [1 .. n -> Nat]
    <3> DEFINE again == [j \in 1 .. n |-> Body(rec, j)]
    <3>1. rec = again
      BY <2>2, Zenon
    <3> HIDE DEF rec
    <3>2. again \in [1 .. n -> Nat]
      BY <1>3
    <3> HIDE DEF again
    <3>3. QED
      BY <3>1, <3>2
  <2> HIDE DEF rec
  <2>5. QED
    BY <1>2, <1>3, <2>3, <2>4
<1>4. CASE n # 0
  <2> DEFINE m == n - 1
  <2>1. m \in Nat /\ n = m + 1
    BY <1>1, <1>4
  <2>2. \A i \in 1 .. m : \A v \in T : step[i][v] = align_up(v + sizes[i], a) /\ step[i][v] \in T
    <3>1. SUFFICES ASSUME NEW i \in 1 .. m, NEW v \in T PROVE align_up(v + sizes[i], a) \in T
      OBVIOUS
    <3>2. sizes[i] \in Nat
      BY <1>1, <2>1
    <3>3. v + sizes[i] \in Nat
      BY <3>2
    <3>4. QED
      BY <3>3, AlignUp
  <2>3. step \in [1 .. m -> [T -> T]]
    BY <2>2
  <2>4. Z \in T
    OBVIOUS
  <2>5. \E f : IsRecursion(f, T, Z, m, step)
    <3> HIDE DEF T, Z, m, step
    <3>1. QED
      BY ONLY <2>1, <2>3, <2>4, Recursion
  <2>6. PICK f : IsRecursion(f, T, Z, m, step)
    BY <2>5
  <2>7. f \in [0 .. m -> T] /\ f[0] = Z /\ \A i \in 1 .. m : f[i] = step[i][f[i - 1]]
    BY <2>6, Zenon DEF IsRecursion
  <2> HIDE DEF step
  <2>8. ASSUME NEW i \in 1 .. m PROVE f[i] = align_up(f[i - 1] + sizes[i], a)
    <3>1. i - 1 \in 0 .. m /\ f[i - 1] \in T
      <4>1. i - 1 \in 0 .. m
        BY <2>1
      <4>2. QED
        BY ONLY <2>7, <4>1
    <3>2. QED
      BY <2>2, <2>7, <3>1
  <2> DEFINE at == [i \in 1 .. n |-> f[i - 1]]
  <2>9. \A i \in 1 .. n : at[i] = f[i - 1]
    OBVIOUS
  <2>10. ASSUME NEW i \in 1 .. n PROVE at[i] = Body(at, i)
    <3>1. CASE i = 1
      BY <2>7, <3>1
    <3>2. CASE i # 1
      <4>1. i - 1 \in 1 .. m /\ i - 1 \in 1 .. n
        BY <2>1, <3>2
      <4>2. f[i - 1] = align_up(f[(i - 1) - 1] + sizes[i - 1], a)
        BY <2>8, <4>1
      <4>3. at[i - 1] = f[(i - 1) - 1]
        BY <4>1
      <4>4. QED
        BY <3>2, <4>2, <4>3
    <3>3. QED
      BY <3>1, <3>2
  <2>11. Rec(at)
    <3>1. DOMAIN at = 1 .. n /\ at = [i \in 1 .. n |-> at[i]]
      OBVIOUS
    <3> HIDE DEF Body, at
    <3>2. QED
      BY <2>10, <3>1
  <2>12. Rec(rec)
    BY <2>11, Zenon
  <2>13. ASSUME NEW i \in 1 .. n PROVE rec[i] = Body(rec, i)
    <3> DEFINE again == [j \in 1 .. n |-> Body(rec, j)]
    <3>1. rec = again
      BY <2>12, Zenon
    <3>2. again[i] = Body(rec, i)
      BY Zenon
    <3>3. QED
      BY <3>1, <3>2, Zenon
  <2>14. rec = [i \in 1 .. n |-> rec[i]]
    <3> DEFINE again == [j \in 1 .. n |-> Body(rec, j)]
    <3>1. rec = again
      BY <2>12, Zenon
    <3>2. again = [i \in 1 .. n |-> again[i]]
      OBVIOUS
    <3> HIDE DEF again, rec
    <3>3. QED
      BY <3>1, <3>2
  <2> HIDE DEF rec
  <2> DEFINE g == [i \in 0 .. m |-> rec[i + 1]]
  <2>15. \A i \in 0 .. m : g[i] = rec[i + 1]
    OBVIOUS
  <2> HIDE DEF g
  <2>16. Follows(g, f, m, step)
    <3>1. g[0] = f[0]
      <4>1. 1 \in 1 .. n /\ 0 \in 0 .. m
        BY <2>1
      <4>2. QED
        BY <2>7, <2>13, <2>15, <4>1
    <3>2. ASSUME NEW i \in 1 .. m, g[i - 1] = f[i - 1] PROVE g[i] = step[i][g[i - 1]]
      <4>1. i \in 0 .. m /\ i - 1 \in 0 .. m /\ i + 1 \in 1 .. n /\ i + 1 # 1 /\ (i + 1) - 1 = i /\ (i - 1) + 1 = i
        BY <2>1
      <4>2. g[i] = align_up(rec[i] + sizes[i], a)
        BY <2>13, <2>15, <4>1
      <4>3. g[i - 1] = rec[i]
        BY <2>15, <4>1
      <4>4. g[i - 1] \in T
        BY <2>7, <3>2, <4>1
      <4>5. QED
        BY <2>2, <4>2, <4>3, <4>4
    <3>3. QED
      BY <3>1, <3>2 DEF Follows
  <2>17. \A i \in 0 .. m : g[i] = f[i]
    <3> HIDE DEF m
    <3>1. QED
      BY ONLY <2>1, <2>6, <2>16, RecursionUnique
  <2>18. ASSUME NEW i \in 1 .. n PROVE rec[i] \in Nat
    <3>1. i - 1 \in 0 .. m /\ (i - 1) + 1 = i
      BY <2>1
    <3>2. rec[i] = f[i - 1]
      BY <2>15, <2>17, <3>1
    <3>3. QED
      BY <2>7, <3>1, <3>2
  <2>19. rec \in [1 .. n -> Nat]
    BY <2>14, <2>18
  <2>20. rec[1] = 0
    <3>1. 1 \in 1 .. n
      BY <2>1
    <3>2. QED
      BY <2>13, <3>1
  <2>21. ASSUME NEW i \in 2 .. n PROVE rec[i] = align_up(rec[i - 1] + sizes[i - 1], a)
    <3>1. i \in 1 .. n /\ i # 1
      BY <1>1
    <3>2. QED
      BY <2>13, <3>1
  <2>22. QED
    BY <1>2, <2>19, <2>20, <2>21
<1>5. QED
  BY <1>3, <1>4

\* Rounding up to a multiple of 1 changes nothing.
LEMMA AlignUpByOne ==
  ASSUME NEW x \in Nat
  PROVE  align_up(x, 1) = x
<1>1. (1 * x) \div 1 = x
  BY ExactDivision
<1>2. (x + 1) - 1 = x /\ 1 * x = x /\ x * 1 = x
  OBVIOUS
<1>3. QED
  BY <1>1, <1>2 DEF align_up

\* The parts of an extent: each is the share of one expert in a tensor, and begins where
\* the one before it ends.
PartInfo == [kind : KindSet, type : STRING, ne : Seq(Nat), slice_bytes : Nat, rel_off : Nat]

\* The matrices of an expert, in the order of their kinds, back to back.
LEMMA PartsAre ==
  ASSUME NEW f, Plannable(f), NEW layer \in ToSet(MoeLayers(f))
  PROVE  /\ Parts(f, layer) \in Seq(PartInfo)
         /\ Len(Parts(f, layer)) = Len(Kinds(f))
         /\ Len(Kinds(f)) \in Nat \ {0}
         /\ \A i \in 1 .. Len(Kinds(f)) :
              LET t == PagedTensor(f, layer, Kinds(f)[i])
              IN  /\ Parts(f, layer)[i].kind = Kinds(f)[i]
                  /\ Parts(f, layer)[i].type = t.type
                  /\ Parts(f, layer)[i].ne = SubSeq(t.ne, 1, 2)
                  /\ Parts(f, layer)[i].slice_bytes = SliceBytes(t)
         /\ Parts(f, layer)[1].rel_off = 0
         /\ \A i \in 2 .. Len(Kinds(f)) :
              Parts(f, layer)[i].rel_off = Parts(f, layer)[i - 1].rel_off + Parts(f, layer)[i - 1].slice_bytes
<1> DEFINE kinds == Kinds(f)
           n == Len(kinds)
           t(i) == PagedTensor(f, layer, kinds[i])
           slices == [i \in DOMAIN kinds |-> SliceBytes(t(i))]
           rel == Offsets(slices, 1)
           ps == Parts(f, layer)
<1>1. kinds \in Seq(KindSet) /\ kinds # <<>>
  BY SomeExpert
<1>2. n \in Nat \ {0} /\ DOMAIN kinds = 1 .. n /\ \A i \in 1 .. n : kinds[i] \in ToSet(kinds) /\ kinds[i] \in KindSet
  <2> HIDE DEF kinds
  <2>1. QED
    BY <1>1, Elements
<1>3. ASSUME NEW i \in 1 .. n
      PROVE  /\ t(i) \in TensorInfo /\ SliceBytes(t(i)) \in Nat
             /\ t(i).type \in STRING /\ SubSeq(t(i).ne, 1, 2) \in Seq(Nat)
  <2>1. t(i) \in ToSet(Paged(f))
    BY <1>2, KindsAre
  <2>2. t(i) \in TensorInfo /\ Len(t(i).ne) = 3 /\ Sizeable(t(i))
    BY <2>1, PagedTensors
  <2> HIDE DEF t
  <2>3. t(i).type \in STRING /\ t(i).ne \in Seq(Nat \ {0})
    BY <2>2 DEF TensorInfo
  <2>4. SubSeq(t(i).ne, 1, 2) \in Seq(Nat)
    <3> DEFINE s == t(i).ne
    <3>1. s \in Seq(Nat \ {0}) /\ Len(s) = 3
      BY <2>2, <2>3
    <3> HIDE DEF s
    <3>2. s[1] \in Nat \ {0} /\ s[2] \in Nat \ {0}
      <4>1. 1 \in 1 .. Len(s) /\ 2 \in 1 .. Len(s)
        BY <3>1
      <4>2. QED
        BY <3>1, <4>1, Elements
    <3>3. \A j \in 1 .. 2 : s[j] \in Nat
      BY <3>2
    <3>4. SubSeq(s, 1, 2) \in Seq(Nat)
      BY <3>3, SubSeqProperties
    <3>5. QED
      BY <3>4 DEF s
  <2>5. SliceBytes(t(i)) \in Nat
    BY <2>2, SliceIs
  <2>6. QED
    BY <2>2, <2>3, <2>4, <2>5
<1> HIDE DEF t
<1>4. slices \in Seq(Nat) /\ Len(slices) = n /\ \A i \in 1 .. n : slices[i] = SliceBytes(t(i))
  <2>1. slices = [i \in 1 .. n |-> SliceBytes(t(i))]
    BY <1>2
  <2>2. \A i \in 1 .. n : SliceBytes(t(i)) \in Nat
    BY <1>3
  <2> HIDE DEF slices, n
  <2>3. QED
    BY <1>2, <2>1, <2>2
<1>5. /\ rel \in [1 .. n -> Nat]
      /\ rel[1] = 0
      /\ \A i \in 2 .. n : rel[i] = rel[i - 1] + slices[i - 1]
  <2> HIDE DEF slices, n
  <2>1. slices # <<>>
    BY <1>2, <1>4
  <2>2. 1 \in Nat \ {0}
    OBVIOUS
  <2>3. rel \in [1 .. n -> Nat] /\ rel[1] = 0 /\ \A i \in 2 .. n : rel[i] = align_up(rel[i - 1] + slices[i - 1], 1)
    BY <1>4, <2>1, <2>2, OffsetsAre
  <2> HIDE DEF rel
  <2>4. ASSUME NEW i \in 2 .. n PROVE rel[i] = rel[i - 1] + slices[i - 1]
    <3>1. i - 1 \in 1 .. n
      BY <1>2
    <3>2. rel[i - 1] \in Nat /\ slices[i - 1] \in Nat
      BY <1>4, <2>3, <3>1, Elements
    <3>3. rel[i - 1] + slices[i - 1] \in Nat
      BY <3>2
    <3>4. QED
      BY <2>3, <3>3, AlignUpByOne
  <2>5. QED
    BY <2>3, <2>4
<1> DEFINE part(i) == [kind |-> kinds[i], type |-> t(i).type, ne |-> SubSeq(t(i).ne, 1, 2),
                       slice_bytes |-> SliceBytes(t(i)), rel_off |-> rel[i]]
<1>6. ps = [i \in 1 .. n |-> part(i)]
  BY <1>2, Zenon DEF Parts, t
<1> HIDE DEF ps
<1>7. ASSUME NEW i \in 1 .. n PROVE part(i) \in PartInfo
  BY <1>2, <1>3, <1>5 DEF PartInfo
<1>8. ps \in Seq(PartInfo) /\ Len(ps) = n
  <2> HIDE DEF part, n
  <2>1. QED
    BY <1>2, <1>6, <1>7
<1>9. ASSUME NEW i \in 1 .. n
      PROVE  /\ ps[i].kind = kinds[i] /\ ps[i].type = t(i).type /\ ps[i].ne = SubSeq(t(i).ne, 1, 2)
             /\ ps[i].slice_bytes = SliceBytes(t(i)) /\ ps[i].rel_off = rel[i]
  <2>1. ps[i] = part(i)
    BY <1>6
  <2>2. QED
    BY <2>1
<1> HIDE DEF part
<1>10. ps[1].rel_off = 0
  BY <1>2, <1>5, <1>9
<1>11. ASSUME NEW i \in 2 .. n
       PROVE  ps[i].rel_off = ps[i - 1].rel_off + ps[i - 1].slice_bytes
  <2>1. i \in 1 .. n /\ i - 1 \in 1 .. n
    BY <1>2
  <2> HIDE DEF rel, slices
  <2>2. QED
    BY <1>4, <1>5, <1>9, <2>1
<1>12. \A i \in 1 .. n : /\ ps[i].kind = kinds[i] /\ ps[i].type = t(i).type
                         /\ ps[i].ne = SubSeq(t(i).ne, 1, 2) /\ ps[i].slice_bytes = SliceBytes(t(i))
  BY <1>9
<1>13. QED
  <2>1. \A i \in 1 .. Len(Kinds(f)) :
           LET u == PagedTensor(f, layer, Kinds(f)[i])
           IN  /\ Parts(f, layer)[i].kind = Kinds(f)[i]
               /\ Parts(f, layer)[i].type = u.type
               /\ Parts(f, layer)[i].ne = SubSeq(u.ne, 1, 2)
               /\ Parts(f, layer)[i].slice_bytes = SliceBytes(u)
    BY <1>12 DEF ps, t
  <2>2. QED
    BY <1>2, <1>8, <1>10, <1>11, <2>1 DEF ps

\* Where a part ends, and that no part reaches behind the last one's end.
PartEnd(part) == part.rel_off + part.slice_bytes

\* Parts that lie back to back end in their order.
LEMMA PartEnds ==
  ASSUME NEW ps, ps \in Seq(PartInfo), ps # <<>>,
         \A i \in 2 .. Len(ps) : ps[i].rel_off = PartEnd(ps[i - 1])
  PROVE  \A i \in 1 .. Len(ps) : PartEnd(ps[i]) \in Nat /\ PartEnd(ps[i]) <= PartEnd(ps[Len(ps)])
<1> DEFINE n == Len(ps)
<1>1. n \in Nat \ {0}
  BY Elements
<1>2. \A i \in 1 .. n : ps[i].rel_off \in Nat /\ ps[i].slice_bytes \in Nat
  <2>1. \A i \in 1 .. n : ps[i] \in PartInfo
    BY Elements
  <2>2. QED
    BY <2>1 DEF PartInfo
<1>3. \A i \in 1 .. n : PartEnd(ps[i]) \in Nat
  BY <1>2 DEF PartEnd
<1> HIDE DEF n
<1> DEFINE P == {j \in Nat : j \in 1 .. n => \A i \in 1 .. j : PartEnd(ps[i]) <= PartEnd(ps[j])}
<1>4. 0 \in P
  OBVIOUS
<1>5. ASSUME NEW j \in Nat, j \in P PROVE j + 1 \in P
  <2>1. SUFFICES ASSUME j + 1 \in 1 .. n, NEW i \in 1 .. j + 1
                 PROVE  PartEnd(ps[i]) <= PartEnd(ps[j + 1])
    OBVIOUS
  <2>2. CASE i = j + 1
    <3>1. PartEnd(ps[j + 1]) \in Nat
      BY <1>3, <2>1
    <3>2. QED
      BY <2>2, <3>1
  <2>3. CASE i # j + 1
    <3>1. i \in 1 .. j /\ j \in 1 .. n /\ j + 1 \in 2 .. n /\ (j + 1) - 1 = j /\ i \in 1 .. n
      BY <1>1, <2>1, <2>3
    <3>2. PartEnd(ps[i]) <= PartEnd(ps[j])
      BY <1>5, <3>1
    <3>3. ps[j + 1].rel_off = PartEnd(ps[j])
      BY <3>1 DEF n
    <3>4. PartEnd(ps[j + 1]) = PartEnd(ps[j]) + ps[j + 1].slice_bytes
      BY <3>3 DEF PartEnd
    <3>5. PartEnd(ps[i]) \in Nat /\ PartEnd(ps[j]) \in Nat /\ ps[j + 1].slice_bytes \in Nat
      BY <1>2, <1>3, <2>1, <3>1
    <3>6. QED
      BY <3>2, <3>4, <3>5
  <2>4. QED
    BY <2>2, <2>3
<1>6. Nat \subseteq P
  <2> HIDE DEF P
  <2>1. QED
    BY <1>4, <1>5, SetInduction
<1>7. n \in P /\ n \in 1 .. n
  BY <1>1, <1>6
<1>8. QED
  BY <1>3, <1>7 DEF n

\* An extent has room for its parts, and the next one begins aligned.
LEMMA GeometryIs ==
  ASSUME NEW f, Plannable(f), NEW layer \in ToSet(MoeLayers(f))
  PROVE  /\ Layers(f)[layer] = LayerGeometry(f, layer)
         /\ Layers(f)[layer].parts = Parts(f, layer)
         /\ Layers(f)[layer].group_bytes \in Nat
         /\ Layers(f)[layer].group_bytes = PartEnd(Parts(f, layer)[Len(Kinds(f))])
         /\ \A i \in 1 .. Len(Kinds(f)) :
              PartEnd(Parts(f, layer)[i]) \in Nat /\ PartEnd(Parts(f, layer)[i]) <= Layers(f)[layer].group_bytes
         /\ Layers(f)[layer].group_stride \in Nat
         /\ Layers(f)[layer].group_stride >= Layers(f)[layer].group_bytes
         /\ Layers(f)[layer].group_stride % EXTENT_ALIGN = 0
         /\ Layers(f)[layer].group_stride = align_up(Layers(f)[layer].group_bytes, EXTENT_ALIGN)
<1> DEFINE ps == Parts(f, layer)
           n == Len(Kinds(f))
           lay == LayerGeometry(f, layer)
<1>1. /\ ps \in Seq(PartInfo) /\ Len(ps) = n /\ n \in Nat \ {0}
      /\ \A i \in 2 .. n : ps[i].rel_off = PartEnd(ps[i - 1])
  BY PartsAre DEF PartEnd
<1>2. lay.parts = ps /\ lay.group_bytes = PartEnd(Last(ps)) /\ lay.group_stride = align_up(lay.group_bytes, EXTENT_ALIGN)
  BY DEF LayerGeometry, PartEnd
<1>3. Layers(f)[layer] = lay
  BY DEF Layers
<1> HIDE DEF ps, n, lay
<1>4. ps # <<>> /\ Last(ps) = ps[n]
  BY <1>1 DEF Last
<1>5. \A i \in 1 .. n : PartEnd(ps[i]) \in Nat /\ PartEnd(ps[i]) <= PartEnd(ps[n])
  <2>1. \A i \in 2 .. Len(ps) : ps[i].rel_off = PartEnd(ps[i - 1])
    BY <1>1
  <2>2. QED
    BY <1>1, <1>4, <2>1, PartEnds
<1>6. lay.group_bytes \in Nat /\ lay.group_bytes = PartEnd(ps[n])
  BY <1>1, <1>2, <1>4, <1>5
<1>7. lay.group_stride \in Nat /\ lay.group_stride >= lay.group_bytes /\ lay.group_stride % EXTENT_ALIGN = 0
  BY <1>2, <1>6, AlignUp, RepackAssumption
<1>8. QED
  BY <1>2, <1>3, <1>5, <1>6, <1>7 DEF ps, n, lay

-----------------------------------------------------------------------------
(* The bytes of files and of extents.                                      *)

\* A file is its header and its data.
LEMMA FileBytesAre ==
  ASSUME NEW b, IsFile(b)
  PROVE  /\ data_start(b) \in Nat
         /\ FileBytes(b) \in Seq(Int)
         /\ Len(FileBytes(b)) = data_start(b) + Len(b.data)
         /\ \A k \in 1 .. Len(b.data) : FileBytes(b)[data_start(b) + k] = b.data[k]
<1> DEFINE h == [i \in 1 .. data_start(b) |-> HeaderByte]
<1>1. Len(b.tensors) \in Nat /\ Len(b.kv) \in Nat /\ b.data \in Seq(Int)
  BY TensorsTyped
<1>2. data_start(b) \in Nat
  <2> DEFINE x == Len(b.kv)
             y == Len(b.tensors)
  <2>1. data_start(b) = x + y
    BY DEF data_start
  <2>2. x \in Nat /\ y \in Nat
    BY <1>1
  <2> HIDE DEF x, y
  <2>3. QED
    BY <2>1, <2>2
<1>3. HeaderByte \in Int
  BY DEF HeaderByte
<1> DEFINE d == data_start(b)
<1> HIDE DEF d
<1>4. [i \in 1 .. d |-> HeaderByte] \in Seq(Int) /\ Len([i \in 1 .. d |-> HeaderByte]) = d
  BY <1>2, <1>3 DEF d
<1>5. FileBytes(b) = h \o b.data
  BY DEF FileBytes
<1>6. h \in Seq(Int) /\ Len(h) = data_start(b)
  BY <1>4 DEF d
<1> HIDE DEF h
<1>7. b.data \in Seq(Int) /\ h \in Seq(Int)
  BY <1>1, <1>6
<1>8. /\ h \o b.data \in Seq(Int) /\ Len(h \o b.data) = Len(h) + Len(b.data)
      /\ \A k \in 1 .. Len(b.data) : (h \o b.data)[Len(h) + k] = b.data[k]
  BY ONLY <1>7, ConcatIs
<1>9. QED
  BY <1>2, <1>5, <1>6, <1>8

\* What is in the data is in the file, behind the header.
LEMMA DataRange ==
  ASSUME NEW b, IsFile(b), NEW o \in Nat, NEW n \in Nat
  PROVE  /\ InRange(FileBytes(b), data_start(b) + o, n) <=> InRange(b.data, o, n)
         /\ InRange(b.data, o, n) => Range0(FileBytes(b), data_start(b) + o, n) = Range0(b.data, o, n)
<1> DEFINE fb == FileBytes(b)
           d == data_start(b)
<1>1. /\ d \in Nat /\ fb \in Seq(Int) /\ Len(fb) = d + Len(b.data)
      /\ \A k \in 1 .. Len(b.data) : fb[d + k] = b.data[k]
  BY FileBytesAre
<1>2. b.data \in Seq(Int) /\ Len(b.data) \in Nat
  BY TensorsTyped
<1> HIDE DEF fb, d
<1>3. InRange(fb, d + o, n) <=> InRange(b.data, o, n)
  BY <1>1, <1>2 DEF InRange
<1>4. ASSUME InRange(b.data, o, n) PROVE Range0(fb, d + o, n) = Range0(b.data, o, n)
  <2> DEFINE x == Range0(fb, d + o, n)
             y == Range0(b.data, o, n)
  <2>1. d + o \in Nat /\ InRange(fb, d + o, n)
    BY <1>1, <1>3, <1>4
  <2>2. x \in Seq(Int) /\ Len(x) = n /\ \A k \in 1 .. n : x[k] = fb[(d + o) + k]
    BY <1>1, <2>1, RangeIs
  <2>3. y \in Seq(Int) /\ Len(y) = n /\ \A k \in 1 .. n : y[k] = b.data[o + k]
    BY <1>2, <1>4, RangeIs
  <2>4. ASSUME NEW k \in 1 .. n PROVE fb[(d + o) + k] = b.data[o + k]
    <3>1. o + n <= Len(b.data) /\ d \in Nat /\ Len(b.data) \in Nat
      BY <1>1, <1>2, <1>4 DEF InRange
    <3>2. o + k \in 1 .. Len(b.data) /\ (d + o) + k = d + (o + k)
      BY <3>1
    <3>3. QED
      BY <1>1, <3>2
  <2> HIDE DEF x, y
  <2>5. \A k \in 1 .. n : x[k] = y[k]
    BY <2>2, <2>3, <2>4
  <2>6. x = y
    BY <2>2, <2>3, <2>5
  <2>7. QED
    BY <2>6 DEF x, y
<1>5. QED
  BY <1>3, <1>4 DEF fb, d

\* Where a share of a tensor begins in the source.
LEMMA SourceOffsetNat ==
  ASSUME NEW f, Plannable(f), NEW layer \in ToSet(MoeLayers(f)), NEW e \in Nat,
         NEW g, g.layer = layer, g.expert = e, NEW i \in 1 .. Len(Kinds(f))
  PROVE  SourceOffset(f, g, Parts(f, layer)[i]) \in Nat
<1> DEFINE part == Parts(f, layer)[i]
           t == PagedTensor(f, layer, part.kind)
<1>1. part.kind = Kinds(f)[i] /\ part.slice_bytes = SliceBytes(PagedTensor(f, layer, Kinds(f)[i]))
  BY PartsAre
<1>2. Kinds(f)[i] \in ToSet(Kinds(f))
  BY SomeExpert, Elements
<1>3. t \in ToSet(Paged(f))
  BY <1>1, <1>2, KindsAre
<1>4. t \in TensorInfo /\ Sizeable(t) /\ Len(t.ne) = 3
  BY <1>3, PagedTensors
<1>5. part.slice_bytes = SliceBytes(t)
  BY <1>1
<1> HIDE DEF t, part
<1>6. part.slice_bytes \in Nat
  BY <1>4, <1>5, SliceIs
<1>7. t.offset \in Nat
  BY <1>4 DEF TensorInfo
<1>8. data_start(f) \in Nat
  BY FileBytesAre DEF Plannable, IsGguf
<1>9. SourceOffset(f, g, part) = (data_start(f) + t.offset) + e * part.slice_bytes
  BY DEF SourceOffset, abs_offset, t
<1>10. e * part.slice_bytes \in Nat
  BY <1>6
<1>11. QED
  BY <1>7, <1>8, <1>9, <1>10 DEF part

\* An extent as it is written: as long as its stride, and each part where the geometry says.
LEMMA ExtentIs ==
  ASSUME NEW f, Plannable(f), NEW b, IsFile(b), NEW g,
         g.layer \in ToSet(MoeLayers(f)), g.expert \in Nat, ExtentCopyable(f, b, g)
  PROVE  /\ Extent(f, b, g) \in Seq(Int)
         /\ Len(Extent(f, b, g)) = Layers(f)[g.layer].group_stride
         /\ \A i \in 1 .. Len(Kinds(f)) :
              LET part == Parts(f, g.layer)[i]
              IN  /\ InRange(FileBytes(b), SourceOffset(f, g, part), part.slice_bytes)
                  /\ \A k \in 1 .. part.slice_bytes :
                       Extent(f, b, g)[part.rel_off + k] = FileBytes(b)[SourceOffset(f, g, part) + k]
<1> DEFINE fb == FileBytes(b)
           lay == Layers(f)[g.layer]
           ps == Parts(f, g.layer)
           n == Len(Kinds(f))
           so(i) == SourceOffset(f, g, ps[i])
           slices == [i \in 1 .. n |-> Range0(fb, so(i), ps[i].slice_bytes)]
           pad == Zeros(lay.group_stride - lay.group_bytes)
           at == [i \in 0 .. n |-> IF i = 0 THEN 0 ELSE PartEnd(ps[i])]
<1>1. fb \in Seq(Int)
  BY FileBytesAre
<1>2. /\ ps \in Seq(PartInfo) /\ Len(ps) = n /\ n \in Nat \ {0} /\ ps[1].rel_off = 0
      /\ \A i \in 2 .. n : ps[i].rel_off = PartEnd(ps[i - 1])
  <2>1. /\ ps \in Seq(PartInfo) /\ Len(ps) = n /\ n \in Nat \ {0} /\ ps[1].rel_off = 0
        /\ \A i \in 2 .. n : ps[i].rel_off = ps[i - 1].rel_off + ps[i - 1].slice_bytes
    BY PartsAre
  <2>2. QED
    BY <2>1, Zenon DEF PartEnd
<1>3. /\ lay.parts = ps /\ lay.group_bytes \in Nat /\ lay.group_bytes = PartEnd(ps[n])
      /\ \A i \in 1 .. n : PartEnd(ps[i]) \in Nat /\ PartEnd(ps[i]) <= lay.group_bytes
      /\ lay.group_stride \in Nat /\ lay.group_stride >= lay.group_bytes
  BY GeometryIs
<1>4. \A i \in 1 .. n : so(i) \in Nat
  BY SourceOffsetNat
<1> HIDE DEF fb, lay, ps, n
<1>5. \A i \in 1 .. n : ps[i] \in ToSet(ps) /\ ps[i] \in PartInfo
  BY <1>2, Elements
<1>6. \A i \in 1 .. n : ps[i].slice_bytes \in Nat /\ ps[i].rel_off \in Nat
  BY <1>5 DEF PartInfo
<1>7. \A i \in 1 .. n : InRange(fb, so(i), ps[i].slice_bytes)
  BY <1>3, <1>5 DEF ExtentCopyable, fb, lay
<1> HIDE DEF so
<1>8. ASSUME NEW i \in 1 .. n
      PROVE  /\ slices[i] \in Seq(Int) /\ Len(slices[i]) = ps[i].slice_bytes
             /\ \A k \in 1 .. ps[i].slice_bytes : slices[i][k] = fb[so(i) + k]
  <2> DEFINE m == ps[i].slice_bytes
             o == so(i)
             x == Range0(fb, o, m)
  <2>1. m \in Nat /\ o \in Nat /\ InRange(fb, o, m)
    BY <1>4, <1>6, <1>7
  <2>2. slices[i] = x
    OBVIOUS
  <2> HIDE DEF m, o
  <2>3. x \in Seq(Int) /\ Len(x) = m /\ \A k \in 1 .. m : x[k] = fb[o + k]
    BY <1>1, <2>1, RangeIs
  <2> HIDE DEF x
  <2>4. QED
    BY <2>2, <2>3 DEF m, o
<1>9. slices \in Seq(Seq(Int)) /\ Len(slices) = n
  <2>1. \A i \in 1 .. n : slices[i] \in Seq(Int)
    BY <1>8
  <2>2. DOMAIN slices = 1 .. n /\ slices = [i \in 1 .. n |-> slices[i]]
    OBVIOUS
  <2> HIDE DEF slices
  <2>3. slices \in [1 .. n -> Seq(Int)]
    BY ONLY <2>1, <2>2
  <2>4. n \in Nat
    BY <1>2
  <2> DEFINE T == Seq(Int)
  <2> HIDE DEF T
  <2>5. slices \in [1 .. n -> T]
    BY <2>3 DEF T
  <2>6. slices \in Seq(T) /\ Len(slices) = n
    BY ONLY <2>4, <2>5
  <2>7. QED
    BY <2>6 DEF T
<1> HIDE DEF slices
<1>10. Places(at, slices)
  <2>1. at \in [0 .. n -> Nat]
    BY <1>2, <1>3
  <2>2. at[0] = 0
    BY <1>2
  <2>3. ASSUME NEW i \in 1 .. n PROVE at[i] = at[i - 1] + Len(slices[i])
    <3>1. at[i] = ps[i].rel_off + ps[i].slice_bytes /\ Len(slices[i]) = ps[i].slice_bytes
      BY <1>2, <1>8 DEF PartEnd
    <3>2. CASE i = 1
      <4>1. at[i - 1] = 0
        BY <2>2, <3>2
      <4>2. QED
        BY <1>2, <1>6, <3>1, <3>2, <4>1
    <3>3. CASE i # 1
      <4>1. i \in 2 .. n /\ i - 1 \in 0 .. n /\ i - 1 # 0
        BY <1>2, <3>3
      <4>2. at[i - 1] = ps[i].rel_off
        BY <1>2, <4>1
      <4>3. QED
        BY <3>1, <4>2
    <3>4. QED
      BY <3>2, <3>3
  <2> HIDE DEF at
  <2>4. QED
    BY <1>9, <2>1, <2>2, <2>3 DEF Places
<1> DEFINE flat == FlattenSeq(slices)
<1>11. /\ flat \in Seq(Int) /\ Len(flat) = at[n]
       /\ \A i \in 1 .. n : \A k \in 1 .. Len(slices[i]) :
            at[i - 1] + k \in 1 .. Len(flat) /\ flat[at[i - 1] + k] = slices[i][k]
  <2> HIDE DEF at
  <2>1. slices \in Seq(Seq(Int)) /\ Len(slices) = n
    BY <1>9
  <2>2. /\ flat \in Seq(Int)
        /\ Len(flat) = at[Len(slices)]
        /\ \A i \in 1 .. Len(slices) : \A k \in 1 .. Len(slices[i]) :
             at[i - 1] + k \in 1 .. Len(flat) /\ flat[at[i - 1] + k] = slices[i][k]
    <3> HIDE DEF slices, flat
    <3>1. /\ FlattenSeq(slices) \in Seq(Int)
          /\ Len(FlattenSeq(slices)) = at[Len(slices)]
          /\ \A i \in 1 .. Len(slices) : \A k \in 1 .. Len(slices[i]) :
               /\ at[i - 1] + k \in 1 .. Len(FlattenSeq(slices))
               /\ FlattenSeq(slices)[at[i - 1] + k] = slices[i][k]
      BY ONLY <2>1, <1>10, FlattenParts, SMTT(30)
    <3>2. flat = FlattenSeq(slices)
      BY DEF flat
    <3>3. QED
      BY ONLY <3>1, <3>2
  <2> HIDE DEF flat
  <2>3. QED
    BY ONLY <2>1, <2>2
<1>12. ASSUME NEW i \in 1 .. n PROVE at[i - 1] = ps[i].rel_off
  <2>1. CASE i = 1
    BY <1>2, <2>1
  <2>2. CASE i # 1
    <3>1. i \in 2 .. n /\ i - 1 \in 0 .. n /\ i - 1 # 0
      BY <1>2, <2>2
    <3>2. QED
      BY <1>2, <3>1
  <2>3. QED
    BY <2>1, <2>2
<1>13. at[n] = lay.group_bytes
  BY <1>2, <1>3
<1> HIDE DEF at
<1>14. Extent(f, b, g) = flat \o pad
  <2>1. slices = [i \in DOMAIN lay.parts |-> Range0(fb, SourceOffset(f, g, lay.parts[i]), lay.parts[i].slice_bytes)]
    <3>1. DOMAIN lay.parts = 1 .. n
      BY <1>2, <1>3, Elements
    <3>2. QED
      BY <1>3, <3>1 DEF slices, so
  <2>2. QED
    BY <2>1, Zenon DEF Extent, lay, fb
<1>15. pad \in Seq(Int) /\ Len(pad) = lay.group_stride - lay.group_bytes
  <2>1. lay.group_stride - lay.group_bytes \in Nat
    BY <1>3
  <2>2. QED
    BY <2>1, ZerosAre
<1> HIDE DEF pad, flat
<1>16. /\ flat \o pad \in Seq(Int) /\ Len(flat \o pad) = Len(flat) + Len(pad)
       /\ \A p \in 1 .. Len(flat) : (flat \o pad)[p] = flat[p]
  <2>1. flat \in Seq(Int) /\ pad \in Seq(Int)
    BY <1>11, <1>15
  <2>2. QED
    BY ONLY <2>1, ConcatIs
<1>17. Len(flat \o pad) = lay.group_stride
  BY <1>3, <1>11, <1>13, <1>15, <1>16
<1>18. ASSUME NEW i \in 1 .. n, NEW k \in 1 .. ps[i].slice_bytes
       PROVE  (flat \o pad)[ps[i].rel_off + k] = fb[so(i) + k]
  <2>1. k \in 1 .. Len(slices[i]) /\ slices[i][k] = fb[so(i) + k]
    BY <1>8
  <2>2. at[i - 1] + k \in 1 .. Len(flat) /\ flat[at[i - 1] + k] = slices[i][k]
    BY <1>11, <2>1
  <2>3. QED
    BY <1>12, <1>16, <2>1, <2>2
<1>19. QED
  BY <1>7, <1>14, <1>16, <1>17, <1>18 DEF fb, lay, ps, n, so

\* The data of one tensor as it is written: its bytes, and zeros up to the alignment.
LEMMA PaddedIs ==
  ASSUME NEW f, IsGguf(f), NEW b, IsFile(b), NEW t \in TensorInfo, Sizeable(t),
         InRange(FileBytes(b), abs_offset(f, t), tensor_nbytes(t))
  PROVE  /\ Padded(f, b, t) \in Seq(Int)
         /\ Len(Padded(f, b, t)) = align_up(tensor_nbytes(t), Alignment(f))
         /\ \A k \in 1 .. tensor_nbytes(t) :
              Padded(f, b, t)[k] = FileBytes(b)[abs_offset(f, t) + k]
<1> DEFINE n == tensor_nbytes(t)
           a == align_up(n, Alignment(f))
           o == abs_offset(f, t)
           fb == FileBytes(b)
           bytes == Range0(fb, o, n)
           pad == Zeros(a - n)
<1>1. n \in Nat
  BY SizeNat
<1>2. a \in Nat /\ a >= n
  BY <1>1, AlignUp DEF IsGguf
<1>3. o \in Nat
  <2>1. IsFile(f)
    BY DEF IsGguf
  <2>2. data_start(f) \in Nat
    BY <2>1, FileBytesAre
  <2>3. t.offset \in Nat
    BY DEF TensorInfo
  <2>4. QED
    BY <2>2, <2>3 DEF abs_offset
<1>4. fb \in Seq(Int)
  BY FileBytesAre
<1>5. Padded(f, b, t) = bytes \o pad
  BY DEF Padded
<1>6. InRange(fb, o, n)
  OBVIOUS
<1> HIDE DEF n, a, o, fb
<1>7. /\ bytes \in Seq(Int) /\ Len(bytes) = n
      /\ \A k \in 1 .. n : bytes[k] = fb[o + k]
  BY ONLY <1>1, <1>3, <1>4, <1>6, RangeIs
<1>8. pad \in Seq(Int) /\ Len(pad) = a - n
  <2>1. a - n \in Nat
    BY <1>1, <1>2
  <2>2. QED
    BY ONLY <2>1, ZerosAre
<1> HIDE DEF bytes, pad
<1>9. /\ bytes \o pad \in Seq(Int)
      /\ Len(bytes \o pad) = Len(bytes) + Len(pad)
      /\ \A k \in 1 .. Len(bytes) : (bytes \o pad)[k] = bytes[k]
  <2>1. bytes \in Seq(Int) /\ pad \in Seq(Int)
    BY ONLY <1>7, <1>8
  <2>2. QED
    BY ONLY <2>1, ConcatIs
<1>10. Len(bytes) + Len(pad) = a
  BY ONLY <1>1, <1>2, <1>7, <1>8
<1>11. QED
  BY ONLY <1>5, <1>7, <1>9, <1>10 DEF n, a, o, fb

\* Each tensor kept, with the place it has in the file that is written.
Moved(f, keep) ==
  LET offsets == Offsets([i \in 1 .. Len(keep) |-> tensor_nbytes(keep[i])], Alignment(f))
  IN  [i \in 1 .. Len(keep) |-> [keep[i] EXCEPT !.offset = offsets[i]]]

\* A tensor that is written keeps its name, its shape and its type.
LEMMA MovedAre ==
  ASSUME NEW f, IsGguf(f), NEW keep, keep \in Seq(TensorInfo),
         \A t \in ToSet(keep) : Sizeable(t)
  PROVE  /\ Moved(f, keep) \in Seq(TensorInfo)
         /\ Len(Moved(f, keep)) = Len(keep)
         /\ \A i \in 1 .. Len(keep) : /\ Moved(f, keep)[i].name = keep[i].name
                                      /\ Moved(f, keep)[i].ne = keep[i].ne
                                      /\ Moved(f, keep)[i].type = keep[i].type
<1> DEFINE n == Len(keep)
           sizes == [i \in 1 .. n |-> tensor_nbytes(keep[i])]
           offsets == Offsets(sizes, Alignment(f))
<1>1. n \in Nat /\ \A i \in 1 .. n : keep[i] \in ToSet(keep) /\ keep[i] \in TensorInfo
  BY Elements
<1>2. \A i \in 1 .. n : tensor_nbytes(keep[i]) \in Nat
  BY <1>1, SizeNat
<1>3. sizes \in Seq(Nat) /\ Len(sizes) = n
  BY <1>1, <1>2
<1>4. offsets \in [1 .. Len(sizes) -> Nat]
  <2> HIDE DEF sizes
  <2>1. QED
    BY <1>3, OffsetsAre DEF IsGguf
<1>5. Moved(f, keep) = [i \in 1 .. n |-> [keep[i] EXCEPT !.offset = offsets[i]]]
  BY DEF Moved
<1> HIDE DEF sizes, offsets, n
<1>6. \A i \in 1 .. n : offsets[i] \in Nat
  BY <1>3, <1>4
<1>7. ASSUME NEW i \in 1 .. n
      PROVE  /\ [keep[i] EXCEPT !.offset = offsets[i]] \in TensorInfo
             /\ [keep[i] EXCEPT !.offset = offsets[i]].name = keep[i].name
             /\ [keep[i] EXCEPT !.offset = offsets[i]].ne = keep[i].ne
             /\ [keep[i] EXCEPT !.offset = offsets[i]].type = keep[i].type
  BY <1>1, <1>6 DEF TensorInfo
<1>8. n \in Nat /\ n = Len(keep)
  BY <1>1 DEF n
<1>9. Moved(f, keep) \in Seq(TensorInfo) /\ Len(Moved(f, keep)) = n
  BY ONLY <1>5, <1>7, <1>8
<1>10. QED
  BY ONLY <1>5, <1>7, <1>8, <1>9

\* What write_subset_gguf writes.
Subset(res, f, keep) ==
  /\ IsFile(res)
  /\ res.version = f.version
  /\ res.tensors = Moved(f, keep)

\* What write_subset_gguf returns: the tensors kept, with their bytes.
LEMMA SubsetIs ==
  ASSUME NEW f, IsGguf(f), NEW b, IsFile(b), NEW keep, keep \in Seq(TensorInfo),
         \A t \in ToSet(keep) : Sizeable(t), Copyable(f, b, keep),
         NEW E, NEW extra, extra \in Seq(E)
  PROVE  Subset(write_subset_gguf(f, b, keep, extra), f, keep)
<1> DEFINE res == write_subset_gguf(f, b, keep, extra)
           n == Len(keep)
           blocks == [i \in 1 .. n |-> Padded(f, b, keep[i])]
           kept == SubSeq(b.kv, 1, Min({Len(b.kv), Len(f.kv)}))
           kv == kept \o extra
<1>1. res = [whole |-> Len(b.kv) >= Len(f.kv), version |-> f.version, kv |-> kv,
             tensors |-> Moved(f, keep), data |-> FlattenSeq(blocks)]
  BY Zenon DEF write_subset_gguf, Moved
<1>2. IsFile(f) /\ f.version \in Nat
  BY DEF IsGguf, IsFile
<1>3. kv \in Seq(ToSet(kv))
  <2>1. Len(b.kv) \in Nat /\ Len(f.kv) \in Nat
    BY <1>2, TensorsTyped
  <2>2. b.kv \in Seq(ToSet(b.kv))
    BY DEF IsFile
  <2>3. Min({Len(b.kv), Len(f.kv)}) \in 0 .. Len(b.kv)
    <3> DEFINE x == Len(b.kv)
               y == Len(f.kv)
    <3>1. x \in Nat /\ y \in Nat
      BY <2>1
    <3> HIDE DEF x, y
    <3>2. {x, y} \in SUBSET Nat /\ {x, y} # {} /\ x \in {x, y}
      BY <3>1
    <3>3. Min({x, y}) \in {x, y} /\ Min({x, y}) <= x
      BY ONLY <3>2, MinIs
    <3>4. QED
      BY <3>1, <3>3 DEF x, y
  <2> DEFINE m == Min({Len(b.kv), Len(f.kv)})
             U == ToSet(b.kv) \cup E
  <2> HIDE DEF m
  <2>4. b.kv \in Seq(U) /\ extra \in Seq(U)
    BY <2>2
  <2> HIDE DEF U
  <2>5. SubSeq(b.kv, 1, m) \in Seq(U)
    <3>1. m \in 0 .. Len(b.kv)
      BY <2>3 DEF m
    <3>2. Range0(b.kv, 0, m) \in Seq(U)
      <4>1. InRange(b.kv, 0, m) /\ m \in Nat
        BY <2>1, <3>1 DEF InRange
      <4>2. QED
        BY ONLY <2>4, <4>1, RangeIs
    <3>3. QED
      BY ONLY <3>1, <3>2, <2>1 DEF Range0
  <2>6. kv \in Seq(U)
    <3>1. kept = SubSeq(b.kv, 1, m)
      BY DEF m
    <3>2. kept \in Seq(U) /\ extra \in Seq(U)
      BY <2>4, <2>5, <3>1
    <3> HIDE DEF kept
    <3>3. kept \o extra \in Seq(U)
      BY ONLY <3>2, ConcatIs
    <3>4. QED
      BY <3>3
  <2> HIDE DEF kv
  <2>7. \A i \in 1 .. Len(kv) : kv[i] \in ToSet(kv)
    BY ONLY <2>6, Elements
  <2>8. QED
    BY <2>6, <2>7
<1>4. Moved(f, keep) \in Seq(TensorInfo)
  BY MovedAre
<1>5. FlattenSeq(blocks) \in Seq(Int)
  <2>1. n \in Nat /\ \A i \in 1 .. n : keep[i] \in ToSet(keep) /\ keep[i] \in TensorInfo
    BY Elements
  <2>2. \A i \in 1 .. n : Padded(f, b, keep[i]) \in Seq(Int)
    BY <2>1, PaddedIs DEF Copyable
  <2>3. blocks \in Seq(Seq(Int)) /\ Len(blocks) \in 0 .. Len(blocks)
    BY <2>1, <2>2
  <2> HIDE DEF blocks
  <2>4. PICK at \in [0 .. Len(blocks) -> Seq(Int)] : FlattenSeq(blocks) = at[Len(blocks)]
    BY <2>3, Flatten
  <2>5. QED
    BY <2>3, <2>4
<1> HIDE DEF kv, blocks, res
<1>6. (Len(b.kv) >= Len(f.kv)) \in BOOLEAN
  OBVIOUS
<1>7. res \in [whole : BOOLEAN, version : Nat, kv : Seq(ToSet(kv)), tensors : Seq(TensorInfo), data : Seq(Int)]
      /\ res.kv = kv /\ res.version = f.version /\ res.tensors = Moved(f, keep)
  BY <1>1, <1>2, <1>3, <1>4, <1>5
<1>8. QED
  BY <1>7 DEF Subset, IsFile, res

-----------------------------------------------------------------------------
(* The planner's reading of the file comes to the repacker's.              *)

\* No two of the tensors to page have one name.
LEMMA PagedDiffer ==
  ASSUME NEW f, f.tensors \in Seq(TensorInfo), NamesDiffer(f),
         NEW i \in 1 .. Len(Paged(f)), NEW j \in 1 .. Len(Paged(f)),
         Paged(f)[i].name = Paged(f)[j].name
  PROVE  i = j
<1> DEFINE ts == f.tensors
           K == {t \in ToSet(ts) : IsExpert(t)}
           paged == Paged(f)
<1>1. paged = Keep(ts, K)
  BY DEF Paged
<1>2. ts \in Seq(TensorInfo)
  OBVIOUS
<1> HIDE DEF ts, K, paged
<1>3. Keep(ts, K) \in Seq(TensorInfo) /\ \E e : IsSelection(e, ts, K, Keep(ts, K))
  BY ONLY <1>2, KeepIs
<1>4. PICK e : IsSelection(e, ts, K, paged)
  BY <1>1, <1>3
<1>5. /\ \A k \in 1 .. Len(paged) : e[k] \in 1 .. Len(ts) /\ paged[k] = ts[e[k]]
      /\ \A k, l \in 1 .. Len(paged) : k < l => e[k] < e[l]
  BY <1>4 DEF IsSelection
<1>6. i \in 1 .. Len(paged) /\ j \in 1 .. Len(paged) /\ paged[i].name = paged[j].name
      /\ Len(paged) \in Nat /\ Len(ts) \in Nat
  BY <1>1, <1>2, <1>3 DEF paged
<1>7. e[i] = e[j]
  <2>1. DOMAIN ts = 1 .. Len(ts)
    BY <1>2
  <2>2. e[i] \in DOMAIN ts /\ e[j] \in DOMAIN ts /\ ts[e[i]].name = ts[e[j]].name
    BY <1>5, <1>6, <2>1
  <2>3. QED
    BY <2>2 DEF NamesDiffer, ts
<1>8. QED
  BY <1>5, <1>6, <1>7

\* The share of one expert in the tensor of that layer and kind, if there is one.
Share(f, layer, kind) ==
  IF kind \in ToSet(Kinds(f)) THEN SliceBytes(PagedTensor(f, layer, kind)) ELSE 0

\* What a kind contributes to an extent is a number.
LEMMA ShareNat ==
  ASSUME NEW f, Plannable(f), NEW layer \in ToSet(MoeLayers(f)), NEW kind
  PROVE  Share(f, layer, kind) \in Nat
<1>1. CASE kind \in ToSet(Kinds(f))
  <2>1. PagedTensor(f, layer, kind) \in ToSet(Paged(f))
    BY <1>1, KindsAre
  <2>2. SliceBytes(PagedTensor(f, layer, kind)) \in Nat
    BY <2>1, PagedTensors, SliceIs
  <2>3. QED
    BY <1>1, <2>2 DEF Share
<1>2. QED
  BY <1>1 DEF Share

AllShares(f, layer) == Share(f, layer, "gate") + Share(f, layer, "up") + Share(f, layer, "down")

\* The kinds of a file: those that it has, in their order.
KindsCase(kinds) ==
  LET has(k) == k \in ToSet(kinds)
  IN  \/ /\ has("gate") /\ has("up") /\ has("down")
         /\ Len(kinds) = 3 /\ kinds[1] = "gate" /\ kinds[2] = "up" /\ kinds[3] = "down"
      \/ /\ has("gate") /\ has("up") /\ ~has("down")
         /\ Len(kinds) = 2 /\ kinds[1] = "gate" /\ kinds[2] = "up"
      \/ /\ has("gate") /\ ~has("up") /\ has("down")
         /\ Len(kinds) = 2 /\ kinds[1] = "gate" /\ kinds[2] = "down"
      \/ /\ ~has("gate") /\ has("up") /\ has("down")
         /\ Len(kinds) = 2 /\ kinds[1] = "up" /\ kinds[2] = "down"
      \/ has("gate") /\ ~has("up") /\ ~has("down") /\ Len(kinds) = 1 /\ kinds[1] = "gate"
      \/ ~has("gate") /\ has("up") /\ ~has("down") /\ Len(kinds) = 1 /\ kinds[1] = "up"
      \/ ~has("gate") /\ ~has("up") /\ has("down") /\ Len(kinds) = 1 /\ kinds[1] = "down"
      \/ ~has("gate") /\ ~has("up") /\ ~has("down") /\ Len(kinds) = 0

\* The kinds of a file are the known ones in their order, some left out.
LEMMA KindsCases ==
  ASSUME NEW f
  PROVE  KindsCase(Kinds(f))
<1> DEFINE layer == MoeLayers(f)[1]
           K == {k \in ToSet(KIND_ORDER) : [layer |-> layer, what |-> k] \in TensorNames(f)}
           kinds == Kinds(f)
<1>1. KIND_ORDER \in Seq(KindSet) /\ Len(KIND_ORDER) = 3
      /\ KIND_ORDER[1] = "gate" /\ KIND_ORDER[2] = "up" /\ KIND_ORDER[3] = "down"
  BY DEF KIND_ORDER, KindSet, ToSet
<1>2. kinds = Keep(KIND_ORDER, K)
  BY Zenon DEF Kinds, Have
<1>3. ToSet(kinds) = K /\ K \subseteq KindSet
  BY HaveIs DEF Kinds, KindSet
<1> HIDE DEF kinds, K
<1>4. PICK at : Keeps(at, KindSet, KIND_ORDER, K)
  BY <1>1, KeepIsRecursion
<1>5. /\ at[0] = <<>>
      /\ at[1] = IF "gate" \in K THEN Append(at[0], "gate") ELSE at[0]
      /\ at[2] = IF "up" \in K THEN Append(at[1], "up") ELSE at[1]
      /\ at[3] = IF "down" \in K THEN Append(at[2], "down") ELSE at[2]
      /\ kinds = at[3]
  <2>1. /\ at[0] = <<>>
        /\ \A i \in 1 .. 3 : at[i] = IF KIND_ORDER[i] \in K THEN Append(at[i - 1], KIND_ORDER[i]) ELSE at[i - 1]
        /\ kinds = at[3]
    BY <1>1, <1>2, <1>4 DEF Keeps
  <2>2. 1 \in 1 .. 3 /\ 2 \in 1 .. 3 /\ 3 \in 1 .. 3 /\ 1 - 1 = 0 /\ 2 - 1 = 1 /\ 3 - 1 = 2
    OBVIOUS
  <2>3. QED
    BY ONLY <1>1, <2>1, <2>2
<1>6. \A i \in 0 .. 3 : at[i] \in Seq(KindSet)
  BY <1>1, <1>4 DEF Keeps
<1> DEFINE a1 == at[1]
           a2 == at[2]
           g == "gate" \in K
           u == "up" \in K
           d == "down" \in K
<1>7. /\ g => Len(a1) = 1 /\ a1[1] = "gate"
      /\ ~g => Len(a1) = 0
      /\ a1 \in Seq(KindSet)
  <2>1. at[0] = <<>> /\ at[1] = IF "gate" \in K THEN Append(at[0], "gate") ELSE at[0]
    BY ONLY <1>5
  <2>2. 1 \in 0 .. 3
    OBVIOUS
  <2>3. at[1] \in Seq(KindSet)
    BY ONLY <1>6, <2>2
  <2>4. Len(<<>>) = 0 /\ Append(<<>>, "gate") = <<"gate">>
    OBVIOUS
  <2>5. QED
    BY ONLY <2>1, <2>3, <2>4
<1>8. a2 = (IF u THEN Append(a1, "up") ELSE a1) /\ a2 \in Seq(KindSet)
  <2>1. at[2] \in Seq(KindSet)
    BY <1>6
  <2>2. at[2] = IF "up" \in K THEN Append(at[1], "up") ELSE at[1]
    BY ONLY <1>5
  <2>3. QED
    BY <2>1, <2>2
<1>9. kinds = (IF d THEN Append(a2, "down") ELSE a2)
  BY <1>5
<1>10. "gate" \in KindSet /\ "up" \in KindSet /\ "down" \in KindSet
  BY <1>1, Elements
<1> HIDE DEF a1, a2, g, u, d
<1>11. /\ u => Len(a2) = Len(a1) + 1 /\ a2[Len(a1) + 1] = "up"
       /\ \A i \in 1 .. Len(a1) : a2[i] = a1[i]
       /\ ~u => Len(a2) = Len(a1)
  BY ONLY <1>7, <1>8, <1>10
<1>12. /\ d => Len(kinds) = Len(a2) + 1 /\ kinds[Len(a2) + 1] = "down"
       /\ \A i \in 1 .. Len(a2) : kinds[i] = a2[i]
       /\ ~d => Len(kinds) = Len(a2)
  BY ONLY <1>8, <1>9, <1>10
<1>13. ToSet(kinds) = K
  BY <1>3
<1>14. KindsCase(kinds)
  <2>1. /\ "gate" \in ToSet(kinds) <=> g
        /\ "up" \in ToSet(kinds) <=> u
        /\ "down" \in ToSet(kinds) <=> d
    BY <1>13 DEF g, u, d
  <2>2. Len(a1) \in 0 .. 1 /\ Len(a2) \in Len(a1) .. Len(a1) + 1
    BY ONLY <1>7, <1>11
  <2>3. CASE g /\ u
    <3>1. Len(a1) = 1 /\ Len(a2) = 2 /\ a2[1] = "gate" /\ a2[2] = "up"
      <4>1. Len(a1) = 1 /\ a1[1] = "gate"
        BY ONLY <2>3, <1>7
      <4>2. a2[1] = a1[1] /\ Len(a2) = Len(a1) + 1 /\ a2[Len(a1) + 1] = "up"
        BY ONLY <2>3, <1>11, <4>1
      <4>3. QED
        BY ONLY <4>1, <4>2
    <3>2. QED
      BY ONLY <2>1, <2>3, <3>1, <1>12 DEF KindsCase
  <2>4. CASE g /\ ~u
    <3>1. Len(a2) = 1 /\ a2[1] = "gate"
      BY ONLY <2>4, <1>7, <1>11
    <3>2. QED
      BY ONLY <2>1, <2>4, <3>1, <1>12 DEF KindsCase
  <2>5. CASE ~g /\ u
    <3>1. Len(a2) = 1 /\ a2[1] = "up"
      BY ONLY <2>5, <1>7, <1>11
    <3>2. QED
      BY ONLY <2>1, <2>5, <3>1, <1>12 DEF KindsCase
  <2>6. CASE ~g /\ ~u
    <3>1. Len(a2) = 0
      BY ONLY <2>6, <1>7, <1>11
    <3>2. QED
      BY ONLY <2>1, <2>6, <3>1, <1>12 DEF KindsCase
  <2>7. QED
    BY <2>3, <2>4, <2>5, <2>6
<1>15. QED
  BY <1>14 DEF kinds

\* The parts of an extent are the shares of all three kinds.
LEMMA GroupIsShares ==
  ASSUME NEW f, Plannable(f), NEW layer \in ToSet(MoeLayers(f))
  PROVE  Layers(f)[layer].group_bytes = AllShares(f, layer)
<1> DEFINE kinds == Kinds(f)
           n == Len(kinds)
           ps == Parts(f, layer)
           s(k) == SliceBytes(PagedTensor(f, layer, k))
<1>1. /\ ps \in Seq(PartInfo)
      /\ Len(ps) = n /\ n \in Nat \ {0}
      /\ \A i \in 1 .. n : ps[i].slice_bytes = s(kinds[i])
      /\ ps[1].rel_off = 0
      /\ \A i \in 2 .. n : ps[i].rel_off = ps[i - 1].rel_off + ps[i - 1].slice_bytes
  BY PartsAre
<1>2. Layers(f)[layer].group_bytes = ps[n].rel_off + ps[n].slice_bytes
  BY GeometryIs DEF PartEnd
<1>3. \A k : Share(f, layer, k) = IF k \in ToSet(kinds) THEN s(k) ELSE 0
  BY DEF Share
<1>4. \A k \in ToSet(kinds) : s(k) \in Nat
  BY <1>3, ShareNat
<1>5. KindsCase(kinds)
  BY KindsCases
<1>6. kinds # <<>>
  BY SomeExpert
<1> DEFINE a == ps[n].rel_off + ps[n].slice_bytes
           sum == AllShares(f, layer)
           g == "gate" \in ToSet(kinds)
           u == "up" \in ToSet(kinds)
           d == "down" \in ToSet(kinds)
           sg == s("gate")
           su == s("up")
           sd == s("down")
<1>7. sum = (IF g THEN sg ELSE 0) + (IF u THEN su ELSE 0) + (IF d THEN sd ELSE 0)
  BY <1>3 DEF AllShares
<1>8. (g => sg \in Nat) /\ (u => su \in Nat) /\ (d => sd \in Nat)
  BY <1>4
<1>9. \/ n = 3 /\ g /\ u /\ d /\ s(kinds[1]) = sg /\ s(kinds[2]) = su /\ s(kinds[3]) = sd
      \/ n = 2 /\ g /\ u /\ ~d /\ s(kinds[1]) = sg /\ s(kinds[2]) = su
      \/ n = 2 /\ g /\ ~u /\ d /\ s(kinds[1]) = sg /\ s(kinds[2]) = sd
      \/ n = 2 /\ ~g /\ u /\ d /\ s(kinds[1]) = su /\ s(kinds[2]) = sd
      \/ n = 1 /\ g /\ ~u /\ ~d /\ s(kinds[1]) = sg
      \/ n = 1 /\ ~g /\ u /\ ~d /\ s(kinds[1]) = su
      \/ n = 1 /\ ~g /\ ~u /\ d /\ s(kinds[1]) = sd
  <2>1. n # 0
    BY <1>1
  <2> HIDE DEF kinds
  <2>2. QED
    BY ONLY <1>5, <2>1 DEF KindsCase
<1> DEFINE x(i) == ps[i].slice_bytes
           o(i) == ps[i].rel_off
<1>10. /\ n >= 1 => x(1) = s(kinds[1]) /\ o(1) = 0
       /\ n >= 2 => x(2) = s(kinds[2]) /\ o(2) = o(1) + x(1)
       /\ n >= 3 => x(3) = s(kinds[3]) /\ o(3) = o(2) + x(2)
  <2>1. n \in Nat
    BY <1>1
  <2>2. QED
    BY <1>1, <2>1
<1>11. a = o(n) + x(n)
  OBVIOUS
<1> HIDE DEF kinds, ps, s, a, sum, g, u, d, sg, su, sd, n, x, o
<1>12. a = sum
  BY ONLY <1>7, <1>8, <1>9, <1>10, <1>11
<1>13. QED
  BY <1>2, <1>12 DEF a, sum

\* The planner adds up, over all the expert tensors of the file, what those of the layer
\* give one expert: it comes to the shares of the three kinds.
InLayer(f, layer) ==
  LET paged == Paged(f)
      in_layer(t) == IF t.name.layer = layer THEN SliceBytes(t) ELSE 0
  IN  [i \in DOMAIN paged |-> in_layer(paged[i])]

\* The planner's sum over the tensors of a layer is the sum over the layer's kinds.
LEMMA InLayerIsShares ==
  ASSUME NEW f, Plannable(f), NEW layer \in ToSet(MoeLayers(f))
  PROVE  SumOf(InLayer(f, layer)) = AllShares(f, layer)
<1> DEFINE paged == Paged(f)
           n == Len(paged)
           list == InLayer(f, layer)
           name(kind) == [layer |-> layer, what |-> kind]
           s(kind) == SliceBytes(PagedTensor(f, layer, kind))
           seen(i, kind) == \E k \in 1 .. i : paged[k].name = name(kind)
           part(i, kind) == IF seen(i, kind) THEN s(kind) ELSE 0
           G == "gate"
           U == "up"
           D == "down"
<1>1. f.tensors \in Seq(TensorInfo) /\ NamesDiffer(f)
  BY TensorsTyped DEF Plannable, IsGguf
<1>2. /\ paged \in Seq(TensorInfo) /\ n \in Nat /\ DOMAIN paged = 1 .. n
      /\ \A i \in 1 .. n : paged[i] \in ToSet(paged)
  BY <1>1, PartsOfFile, Elements
<1>3. ASSUME NEW i \in 1 .. n
      PROVE  /\ paged[i] \in TensorInfo
             /\ paged[i] \in ToSet(f.tensors)
             /\ SliceBytes(paged[i]) \in Nat
             /\ paged[i].name.what \in {G, U, D}
             /\ paged[i].name = [layer |-> paged[i].name.layer, what |-> paged[i].name.what]
  <2>1. paged[i] \in ToSet(paged)
    BY <1>2
  <2>2. /\ paged[i] \in ToSet(f.tensors) /\ paged[i] \in TensorInfo /\ IsExpert(paged[i])
        /\ Sizeable(paged[i]) /\ Len(paged[i].ne) = 3
    BY <2>1, PagedTensors
  <2>3. SliceBytes(paged[i]) \in Nat
    BY <2>2, SliceIs
  <2>4. paged[i].name.what \in {G, U, D}
    BY <2>2 DEF IsExpert, KIND_ORDER, ToSet
  <2>5. QED
    BY <2>2, <2>3, <2>4, NameIs
<1>4. list = [i \in 1 .. n |-> IF paged[i].name.layer = layer THEN SliceBytes(paged[i]) ELSE 0]
  BY <1>2 DEF InLayer
<1>5. list \in Seq(Nat) /\ Len(list) = n
  <2>1. \A i \in 1 .. n : (IF paged[i].name.layer = layer THEN SliceBytes(paged[i]) ELSE 0) \in Nat
    BY <1>3
  <2> HIDE DEF paged
  <2>2. QED
    BY <1>2, <1>4, <2>1
<1> HIDE DEF list
<1>6. PICK sum : Sums(sum, list)
  BY <1>5, SumIsRecursion
<1>7. /\ sum[0] = 0
      /\ \A i \in 1 .. n : sum[i] = sum[i - 1] + list[i]
      /\ SumOf(list) = sum[n]
  BY <1>5, <1>6 DEF Sums
<1>8. \A i \in 1 .. n : paged[i].name.layer = layer => paged[i].name = name(paged[i].name.what)
                                                    /\ SliceBytes(paged[i]) = s(paged[i].name.what)
  <2>1. ASSUME NEW i \in 1 .. n, paged[i].name.layer = layer
        PROVE  paged[i].name = name(paged[i].name.what) /\ SliceBytes(paged[i]) = s(paged[i].name.what)
    <3>1. paged[i].name = name(paged[i].name.what)
      BY <1>3, <2>1
    <3>2. Named(f, paged[i].name) = paged[i]
      BY <1>1, <1>3, NamedIsIt
    <3>3. QED
      BY <3>1, <3>2 DEF PagedTensor
  <2>2. QED
    BY <2>1
<1>9. \A i \in 1 .. n : \A kind : paged[i].name = name(kind) => paged[i].name.layer = layer /\ paged[i].name.what = kind
  OBVIOUS
<1>10. ASSUME NEW i \in 1 .. n, NEW kind
       PROVE  /\ paged[i].name = name(kind) => ~seen(i - 1, kind) /\ seen(i, kind)
              /\ paged[i].name # name(kind) => (seen(i, kind) <=> seen(i - 1, kind))
  <2>1. CASE paged[i].name = name(kind)
    <3>1. ASSUME NEW k \in 1 .. i - 1, paged[k].name = name(kind)
          PROVE  FALSE
      <4>1. k \in 1 .. n /\ k # i
        BY <1>2
      <4>2. k = i
        BY <1>1, <2>1, <3>1, <4>1, PagedDiffer
      <4>3. QED
        BY <4>1, <4>2
    <3>2. i \in 1 .. i
      BY <1>2
    <3>3. QED
      BY <2>1, <3>1, <3>2
  <2>2. CASE paged[i].name # name(kind)
    <3>1. \A k \in 1 .. i : k \in 1 .. i - 1 \/ k = i
      BY <1>2
    <3>2. \A k \in 1 .. i - 1 : k \in 1 .. i
      BY <1>2
    <3>3. QED
      BY <2>2, <3>1, <3>2
  <2>3. QED
    BY <2>1, <2>2
<1>11. ASSUME NEW i \in 0 .. n, NEW kind
       PROVE  part(i, kind) \in Nat
  <2>1. CASE seen(i, kind)
    <3>1. PICK k \in 1 .. n : paged[k].name = name(kind)
      BY <1>2, <2>1
    <3>2. s(kind) = SliceBytes(paged[k]) /\ SliceBytes(paged[k]) \in Nat
      BY <1>3, <1>8, <1>9, <3>1
    <3>3. QED
      BY <2>1, <3>2
  <2>2. QED
    BY <2>1
<1>12. ASSUME NEW i \in 1 .. n, paged[i].name.layer = layer, NEW kind
       PROVE  /\ kind = paged[i].name.what => part(i - 1, kind) = 0 /\ part(i, kind) = SliceBytes(paged[i])
              /\ kind # paged[i].name.what => part(i, kind) = part(i - 1, kind)
  <2>1. CASE kind = paged[i].name.what
    <3>1. paged[i].name = name(kind) /\ SliceBytes(paged[i]) = s(kind)
      BY <1>8, <1>12, <2>1
    <3>2. ~seen(i - 1, kind) /\ seen(i, kind)
      BY <1>10, <3>1
    <3> HIDE DEF seen
    <3>3. QED
      BY <2>1, <3>1, <3>2
  <2>2. CASE kind # paged[i].name.what
    <3>1. paged[i].name # name(kind)
      BY <1>9, <2>2
    <3>2. QED
      BY <1>10, <2>2, <3>1
  <2>3. QED
    BY <2>1, <2>2
<1>13. ASSUME NEW i \in 1 .. n, paged[i].name.layer # layer, NEW kind
       PROVE  part(i, kind) = part(i - 1, kind)
  <2>1. paged[i].name # name(kind)
    BY <1>9, <1>13
  <2>2. QED
    BY <1>10, <2>1
<1> DEFINE total(i) == part(i, G) + part(i, U) + part(i, D)
           P == {i \in Nat : i <= n => sum[i] = total(i)}
<1>14. 0 \in P
  <2>1. \A kind : ~seen(0, kind)
    OBVIOUS
  <2>2. total(0) = 0
    BY <2>1
  <2>3. QED
    BY <1>7, <2>2
<1>15. ASSUME NEW m \in Nat, m \in P
       PROVE  m + 1 \in P
  <2>1. SUFFICES ASSUME m + 1 <= n PROVE sum[m + 1] = total(m + 1)
    <3> HIDE DEF total
    <3>1. m + 1 \in Nat
      OBVIOUS
    <3>2. QED
      BY <3>1
  <2>2. m + 1 \in 1 .. n /\ (m + 1) - 1 = m /\ m \in 0 .. n
    BY <1>2, <2>1
  <2>3. sum[m] = total(m)
    <3> HIDE DEF total
    <3>1. m <= n
      BY <2>2, <1>2
    <3>2. QED
      BY <1>15, <3>1
  <2>4. sum[m + 1] = total(m) + list[m + 1]
    BY <1>7, <2>2, <2>3
  <2> DEFINE i == m + 1
             t == paged[i]
             g1 == part(m, G)
             u1 == part(m, U)
             d1 == part(m, D)
             g2 == part(i, G)
             u2 == part(i, U)
             d2 == part(i, D)
             b == SliceBytes(t)
             w == t.name.what
  <2>5. g1 \in Nat /\ u1 \in Nat /\ d1 \in Nat /\ b \in Nat /\ w \in {G, U, D}
    BY <1>3, <1>11, <2>2
  <2>6. CASE t.name.layer = layer
    <3>1. list[i] = b
      BY <1>4, <2>2, <2>6
    <3>2. /\ w = G => g1 = 0 /\ g2 = b
          /\ w # G => g2 = g1
          /\ w = U => u1 = 0 /\ u2 = b
          /\ w # U => u2 = u1
          /\ w = D => d1 = 0 /\ d2 = b
          /\ w # D => d2 = d1
      BY <1>12, <2>2, <2>6
    <3>3. G # U /\ U # D /\ G # D
      OBVIOUS
    <3> HIDE DEF g1, u1, d1, g2, u2, d2, b, w, G, U, D
    <3>4. g2 + u2 + d2 = g1 + u1 + d1 + b
      BY ONLY <2>5, <3>2, <3>3
    <3>5. QED
      BY <2>4, <3>1, <3>4 DEF g1, u1, d1, g2, u2, d2
  <2>7. CASE t.name.layer # layer
    <3>1. list[i] = 0
      BY <1>4, <2>2, <2>7
    <3>2. g2 = g1 /\ u2 = u1 /\ d2 = d1
      BY <1>13, <2>2, <2>7
    <3>3. QED
      <4> HIDE DEF g1, u1, d1, g2, u2, d2
      <4>1. g2 + u2 + d2 = g1 + u1 + d1 + 0
        BY ONLY <2>5, <3>2
      <4>2. QED
        BY <2>4, <3>1, <4>1 DEF g1, u1, d1, g2, u2, d2
  <2>8. QED
    BY <2>6, <2>7
<1>16. sum[n] = total(n)
  <2> HIDE DEF P
  <2>1. Nat \subseteq P
    BY ONLY <1>14, <1>15, SetInduction
  <2>2. n \in P
    BY <1>2, <2>1
  <2>3. QED
    BY <1>2, <2>2 DEF P
<1>17. \A kind : kind \in ToSet(Kinds(f)) =>
          PagedTensor(f, layer, kind) \in ToSet(paged) /\ PagedTensor(f, layer, kind).name = name(kind)
  BY KindsAre
<1>18. ASSUME NEW kind \in {G, U, D}
       PROVE  part(n, kind) = Share(f, layer, kind)
  <2>0. kind \in KindSet
    BY DEF KindSet, KIND_ORDER, ToSet
  <2>1. seen(n, kind) <=> kind \in ToSet(Kinds(f))
    <3>1. ASSUME seen(n, kind)
          PROVE  kind \in ToSet(Kinds(f))
      <4>1. PICK k \in 1 .. n : paged[k].name = name(kind)
        BY <3>1
      <4>2. name(kind) \in TensorNames(f)
        BY <1>3, <4>1 DEF TensorNames
      <4>3. QED
        BY <2>0, <4>2, KindsAre
    <3>2. ASSUME kind \in ToSet(Kinds(f))
          PROVE  seen(n, kind)
      <4>1. PagedTensor(f, layer, kind) \in ToSet(paged) /\ PagedTensor(f, layer, kind).name = name(kind)
        BY <1>17, <3>2
      <4>2. PICK k \in 1 .. n : paged[k] = PagedTensor(f, layer, kind)
        BY <1>2, <4>1, Elements
      <4>3. QED
        BY <4>1, <4>2
    <3>3. QED
      BY <3>1, <3>2
  <2>2. QED
    BY <2>1 DEF Share
<1>19. QED
  BY <1>7, <1>16, <1>18 DEF AllShares, list

\* Quotient and remainder are the only ones that fit.
LEMMA QuotientIs ==
  ASSUME NEW i \in Nat, NEW n \in Nat \ {0}, NEW q \in Nat, NEW r \in 0 .. n - 1, i = (n * q) + r
  PROVE  i \div n = q /\ i % n = r
<1> DEFINE q1 == i \div n
           r1 == i % n
<1>1. q1 \in Nat /\ r1 \in 0 .. n - 1 /\ i = (n * q1) + r1
  <2>1. i \div n \in Nat
    BY ONLY i \in Nat, n \in Nat \ {0}, NatDivision
  <2>2. i % n \in 0 .. n - 1 /\ i = (n * (i \div n)) + (i % n)
    BY ONLY i \in Nat, n \in Nat \ {0}, Division
  <2>3. QED
    BY ONLY <2>1, <2>2
<1> HIDE DEF q1, r1
<1>2. CASE q1 = q
  BY <1>1, <1>2 DEF q1, r1
<1>3. CASE q1 < q
  <2>1. PICK d \in Nat : q = q1 + 1 + d
    <3>1. q - q1 - 1 \in Nat
      BY <1>1, <1>3
    <3>2. q = q1 + 1 + (q - q1 - 1)
      BY <1>1
    <3>3. QED
      BY <3>1, <3>2
  <2>2. n * q = (n * q1) + n + (n * d)
    BY <1>1, <2>1
  <2>3. n * d \in Nat
    OBVIOUS
  <2>4. (n * q1) \in Nat
    BY <1>1
  <2>5. QED
    BY <1>1, <2>2, <2>3, <2>4
<1>4. CASE q < q1
  <2>1. PICK d \in Nat : q1 = q + 1 + d
    <3>1. q1 - q - 1 \in Nat
      BY <1>1, <1>4
    <3>2. q1 = q + 1 + (q1 - q - 1)
      BY <1>1
    <3>3. QED
      BY <3>1, <3>2
  <2>2. n * q1 = (n * q) + n + (n * d)
    BY <1>1, <2>1
  <2>3. n * d \in Nat
    OBVIOUS
  <2>4. (n * q) \in Nat
    OBVIOUS
  <2>5. QED
    BY <1>1, <2>2, <2>3, <2>4
<1>5. QED
  BY <1>1, <1>2, <1>3, <1>4

\* The planner's stride of a layer is the repacker's.
LEMMA PlannerStrideIs ==
  ASSUME NEW f, Plannable(f), NEW layer \in ToSet(MoeLayers(f))
  PROVE  PlannerStride(f, layer) = Layers(f)[layer].group_stride
<1>1. PlannerStride(f, layer) = align_up(SumOf(InLayer(f, layer)), EXTENT_ALIGN)
  BY Zenon DEF PlannerStride, InLayer
<1>2. SumOf(InLayer(f, layer)) = Layers(f)[layer].group_bytes
  BY InLayerIsShares, GroupIsShares
<1>3. QED
  BY <1>1, <1>2, GeometryIs

\* So is its number of experts.
LEMMA PlannerNExpertIs ==
  ASSUME NEW f, Plannable(f)
  PROVE  PlannerNExpert(f) = NExpert(f)
<1>1. f.tensors \in Seq(TensorInfo)
  BY TensorsTyped DEF Plannable, IsGguf
<1>2. Paged(f) \in Seq(TensorInfo) /\ Paged(f) # <<>>
  BY <1>1, PartsOfFile DEF Plannable, Refuses
<1>3. Last(Paged(f)) \in ToSet(Paged(f))
  <2>1. Len(Paged(f)) \in 1 .. Len(Paged(f))
    BY <1>2
  <2>2. QED
    BY <1>2, <2>1, Elements DEF Last
<1>4. QED
  BY <1>3, PagedTensors DEF PlannerNExpert

\* What the planner takes for the store: the strides of the layers, for every expert.
Strides(f) == [j \in 1 .. Len(MoeLayers(f)) |-> Layers(f)[MoeLayers(f)[j]].group_stride]

\* The planner's size of the store, in terms of the repacker's strides.
LEMMA PagedBytesAre ==
  ASSUME NEW f, Plannable(f)
  PROVE  Strides(f) \in Seq(Nat) /\ paged_bytes(f) = SumOf(Strides(f)) * NExpert(f)
<1> DEFINE layers == MoeLayers(f)
<1>1. /\ layers \in Seq(Nat) /\ DOMAIN layers = 1 .. Len(layers) /\ Len(layers) \in Nat
      /\ \A j \in 1 .. Len(layers) : layers[j] \in ToSet(layers)
  BY TensorsTyped, MoeLayersAre, Elements DEF Plannable, IsGguf
<1>2. \A j \in 1 .. Len(layers) : /\ PlannerStride(f, layers[j]) = Layers(f)[layers[j]].group_stride
                                  /\ Layers(f)[layers[j]].group_stride \in Nat
  BY <1>1, PlannerStrideIs, GeometryIs
<1>3. [j \in DOMAIN layers |-> PlannerStride(f, layers[j])] = Strides(f)
  BY <1>1, <1>2 DEF Strides
<1>4. paged_bytes(f) = SumOf([j \in DOMAIN layers |-> PlannerStride(f, layers[j])]) * PlannerNExpert(f)
  BY Zenon DEF paged_bytes
<1>5. Strides(f) \in Seq(Nat)
  BY <1>1, <1>2 DEF Strides
<1>6. QED
  BY <1>3, <1>4, <1>5, PlannerNExpertIs

\* One more in a row of n.
LEMMA NextInRow ==
  ASSUME NEW i \in Nat, NEW n \in Nat \ {0}
  PROVE  /\ (i % n) + 1 < n => (i + 1) \div n = i \div n /\ (i + 1) % n = (i % n) + 1
         /\ (i % n) + 1 >= n => (i + 1) \div n = i \div n + 1 /\ (i + 1) % n = 0 /\ (i % n) + 1 = n
<1> DEFINE q == i \div n
           r == i % n
<1>1. q \in Nat /\ r \in 0 .. n - 1 /\ i = (n * q) + r
  <2>1. i \div n \in Nat
    BY NatDivision
  <2>2. i % n \in 0 .. n - 1 /\ i = (n * (i \div n)) + (i % n)
    BY Division
  <2>3. QED
    BY ONLY <2>1, <2>2
<1>2. CASE r + 1 < n
  <2>1. i + 1 = (n * q) + (r + 1) /\ r + 1 \in 0 .. n - 1
    BY <1>1, <1>2
  <2> HIDE DEF q, r
  <2>2. (i + 1) \div n = q /\ (i + 1) % n = r + 1
    BY ONLY <1>1, <2>1, QuotientIs
  <2>3. QED
    BY <1>2, <2>2 DEF q, r
<1>3. CASE r + 1 >= n
  <2>1. r + 1 = n
    BY <1>1, <1>3
  <2>2. i + 1 = (n * (q + 1)) + 0
    <3>1. n * (q + 1) = (n * q) + n
      BY <1>1
    <3>2. QED
      BY <1>1, <2>1, <3>1
  <2> HIDE DEF q, r
  <2>3. 0 \in 0 .. n - 1 /\ q + 1 \in Nat
    BY <1>1
  <2>4. (i + 1) \div n = q + 1 /\ (i + 1) % n = 0
    BY ONLY <2>2, <2>3, QuotientIs
  <2>5. QED
    BY <1>3, <2>1, <2>4 DEF q, r
<1>4. QED
  BY <1>1, <1>2, <1>3


-----------------------------------------------------------------------------
(* A file that can be read holds its tensors.                              *)

\* A part of what was cut out.
LEMMA RangeOfRange ==
  ASSUME NEW S, NEW b, b \in Seq(S), NEW from \in Nat, NEW len \in Nat, InRange(b, from, len),
         NEW rel \in Nat, NEW n \in Nat, rel + n <= len
  PROVE  /\ InRange(Range0(b, from, len), rel, n)
         /\ InRange(b, from + rel, n)
         /\ Range0(Range0(b, from, len), rel, n) = Range0(b, from + rel, n)
<1> DEFINE c == Range0(b, from, len)
           l == c
<1>1. /\ c \in Seq(S) /\ Len(c) = len
      /\ \A k \in 1 .. len : c[k] = b[from + k]
  BY RangeIs
<1>2. InRange(b, from + rel, n)
  BY DEF InRange
<1> HIDE DEF c
<1>3. InRange(c, rel, n)
  BY <1>1 DEF InRange
<1> DEFINE x == Range0(c, rel, n)
           y == Range0(b, from + rel, n)
<1>4. x \in Seq(S) /\ Len(x) = n /\ \A k \in 1 .. n : x[k] = c[rel + k]
  BY ONLY <1>1, <1>3, rel \in Nat, n \in Nat, RangeIs
<1>5. y \in Seq(S) /\ Len(y) = n /\ \A k \in 1 .. n : y[k] = b[(from + rel) + k]
  <2>1. from + rel \in Nat
    OBVIOUS
  <2>2. QED
    BY ONLY <1>2, <2>1, b \in Seq(S), n \in Nat, RangeIs
<1> HIDE DEF x, y
<1>6. \A k \in 1 .. n : x[k] = y[k]
  <2>1. TAKE k \in 1 .. n
  <2>2. rel + k \in 1 .. len /\ from + (rel + k) = (from + rel) + k
    OBVIOUS
  <2>3. QED
    BY <1>1, <1>4, <1>5, <2>2
<1>7. x = y
  BY ONLY <1>4, <1>5, <1>6
<1>8. QED
  BY <1>2, <1>3, <1>7 DEF c, x, y

\* One of the tensors comes last, by offset and then by place.
LastOfAll(f, i) ==
  \A j \in 1 .. Len(f.tensors) : \/ f.tensors[j].offset < f.tensors[i].offset
                                 \/ f.tensors[j].offset = f.tensors[i].offset /\ j <= i

\* Some tensor comes last in the order of offsets.
LEMMA SomeLast ==
  ASSUME NEW f, f.tensors \in Seq(TensorInfo), f.tensors # <<>>
  PROVE  \E i \in 1 .. Len(f.tensors) : LastOfAll(f, i)
<1> DEFINE n == Len(f.tensors)
           o(j) == f.tensors[j].offset
           later(j, i) == o(j) < o(i) \/ (o(j) = o(i) /\ j <= i)
           P == {m \in Nat : m + 1 <= n => \E i \in 1 .. m + 1 : \A j \in 1 .. m + 1 : later(j, i)}
<1>1. n \in Nat \ {0} /\ \A j \in 1 .. n : o(j) \in Nat
  <2>1. n \in Nat \ {0}
    OBVIOUS
  <2>2. ASSUME NEW j \in 1 .. n
        PROVE  o(j) \in Nat
    <3>1. f.tensors[j] \in TensorInfo
      BY <2>1
    <3>2. QED
      BY <3>1 DEF TensorInfo
  <2>3. QED
    BY <2>1, <2>2
<1> HIDE DEF n, o
<1>2. 0 \in P
  <2>1. \A j \in 1 .. 0 + 1 : later(j, 1)
    BY <1>1
  <2>2. QED
    BY <2>1
<1>3. ASSUME NEW m \in Nat, m \in P
      PROVE  m + 1 \in P
  <2>1. SUFFICES ASSUME m + 2 <= n PROVE \E i \in 1 .. m + 2 : \A j \in 1 .. m + 2 : later(j, i)
    BY DEF P
  <2>2. PICK i \in 1 .. m + 1 : \A j \in 1 .. m + 1 : later(j, i)
    <3>1. m + 1 <= n
      BY <1>1, <2>1
    <3>2. QED
      BY <1>3, <3>1
  <2>3. o(i) \in Nat /\ o(m + 2) \in Nat
    BY <1>1, <2>1
  <2>4. CASE o(m + 2) >= o(i)
    <3>1. \A j \in 1 .. m + 2 : later(j, m + 2)
      BY <1>1, <2>1, <2>2, <2>3, <2>4
    <3>2. QED
      BY <3>1
  <2>5. CASE o(m + 2) < o(i)
    <3>1. \A j \in 1 .. m + 2 : later(j, i)
      BY <1>1, <2>1, <2>2, <2>3, <2>5
    <3>2. QED
      BY <3>1
  <2>6. QED
    BY <2>3, <2>4, <2>5
<1>4. n - 1 \in P
  <2> HIDE DEF P
  <2>1. Nat \subseteq P
    BY ONLY <1>2, <1>3, SetInduction
  <2>2. QED
    BY <1>1, <2>1
<1>5. PICK i \in 1 .. n : \A j \in 1 .. n : later(j, i)
  <2>1. (n - 1) + 1 = n
    BY <1>1
  <2>2. QED
    BY <1>4, <2>1
<1>6. QED
  BY <1>5 DEF LastOfAll, n, o

\* Where the next tensor starts.
LEMMA ReachIs ==
  ASSUME NEW f, f.tensors \in Seq(TensorInfo), NEW i \in 1 .. Len(f.tensors), Behind(f, i) # {}
  PROVE  /\ \E j \in Behind(f, i) : Reach(f, i) = f.tensors[j].offset
         /\ \A j \in Behind(f, i) : Reach(f, i) <= f.tensors[j].offset
<1> DEFINE T == {f.tensors[j].offset : j \in Behind(f, i)}
<1>1. Behind(f, i) \subseteq 1 .. Len(f.tensors)
  BY DEF Behind
<1>2. \A j \in 1 .. Len(f.tensors) : f.tensors[j].offset \in Nat
  <2>1. TAKE j \in 1 .. Len(f.tensors)
  <2>2. f.tensors[j] \in TensorInfo
    OBVIOUS
  <2>3. QED
    BY <2>2 DEF TensorInfo
<1>3. T \in SUBSET Nat /\ T # {}
  BY <1>1, <1>2
<1> HIDE DEF T
<1>4. \E x \in T : \A y \in T : x <= y
  BY ONLY <1>3, Least
<1>5. \E x \in T : \A j \in Behind(f, i) : x <= f.tensors[j].offset
  BY <1>4 DEF T
<1>6. Reach(f, i) = CHOOSE x \in T : \A j \in Behind(f, i) : x <= f.tensors[j].offset
  BY DEF Reach, T
<1>7. Reach(f, i) \in T /\ \A j \in Behind(f, i) : Reach(f, i) <= f.tensors[j].offset
  BY <1>5, <1>6
<1>8. QED
  BY <1>7 DEF T

\* Every tensor's data ends inside the file.
LEMMA TensorInside ==
  ASSUME NEW f, IsFile(f), read_gguf(f), NEW t \in ToSet(f.tensors)
  PROVE  /\ tensor_nbytes(t) \in Nat /\ t.offset \in Nat
         /\ InRange(f.data, t.offset, tensor_nbytes(t))
<1> DEFINE n == Len(f.tensors)
           d == Len(f.data)
<1>1. /\ f.tensors \in Seq(TensorInfo) /\ d \in Nat
      /\ \A x \in ToSet(f.tensors) : x \in TensorInfo /\ Sizeable(x)
  BY TensorsTyped DEF read_gguf
<1>2. n \in Nat /\ (\A j \in 1 .. n : f.tensors[j] \in ToSet(f.tensors))
      /\ \E i \in 1 .. n : f.tensors[i] = t
  BY <1>1, Elements
<1>3. \A j \in 1 .. n : f.tensors[j].offset \in Nat /\ tensor_nbytes(f.tensors[j]) \in Nat
  <2>1. TAKE j \in 1 .. n
  <2>2. f.tensors[j] \in TensorInfo /\ Sizeable(f.tensors[j])
    BY <1>1, <1>2
  <2>3. QED
    BY <2>2, SizeNat DEF TensorInfo
<1>4. \A j \in 1 .. n : tensor_nbytes(f.tensors[j]) <= Reach(f, j) - f.tensors[j].offset
  BY DEF read_gguf, _validate_layout
<1>5. f.tensors # <<>>
  BY <1>2
<1>6. PICK m \in 1 .. n : LastOfAll(f, m)
  BY <1>1, <1>5, SomeLast
<1>7. f.tensors[m].offset <= d
  <2>1. Behind(f, m) = {}
    <3>1. ASSUME NEW j \in Behind(f, m)
          PROVE  FALSE
      <4>1. j \in 1 .. n /\ (f.tensors[j].offset > f.tensors[m].offset
                             \/ (f.tensors[j].offset = f.tensors[m].offset /\ j > m))
        BY DEF Behind
      <4>2. f.tensors[j].offset < f.tensors[m].offset
            \/ (f.tensors[j].offset = f.tensors[m].offset /\ j <= m)
        BY <1>6, <4>1 DEF LastOfAll
      <4>3. f.tensors[j].offset \in Nat /\ f.tensors[m].offset \in Nat
        BY <1>3, <4>1
      <4>4. QED
        BY <4>1, <4>2, <4>3
    <3>2. QED
      BY <3>1
  <2>2. Reach(f, m) = d
    BY <2>1 DEF Reach
  <2>3. QED
    BY <1>1, <1>3, <1>4, <2>2
<1>8. PICK i \in 1 .. n : f.tensors[i] = t
  BY <1>2
<1>9. Reach(f, i) <= d
  <2>1. CASE Behind(f, i) = {}
    BY <1>1, <2>1 DEF Reach
  <2>2. CASE Behind(f, i) # {}
    <3>1. PICK j \in Behind(f, i) : Reach(f, i) = f.tensors[j].offset
      BY <1>1, <2>2, ReachIs
    <3>2. j \in 1 .. n
      BY DEF Behind
    <3>3. f.tensors[j].offset <= f.tensors[m].offset
      <4>1. /\ f.tensors[j].offset \in Nat /\ f.tensors[m].offset \in Nat
        BY <1>3, <3>2
      <4>2. \/ f.tensors[j].offset < f.tensors[m].offset
            \/ f.tensors[j].offset = f.tensors[m].offset
        BY <1>6, <3>2, Zenon DEF LastOfAll
      <4>3. QED
        BY ONLY <4>1, <4>2
    <3>4. QED
      <4>1. /\ f.tensors[j].offset \in Nat /\ f.tensors[m].offset \in Nat /\ d \in Nat
        BY <1>1, <1>3, <3>2
      <4>2. QED
        BY ONLY <1>7, <3>1, <3>3, <4>1
  <2>3. QED
    BY <2>1, <2>2
<1>10. Reach(f, i) \in Int
  <2>1. CASE Behind(f, i) = {}
    BY <1>1, <2>1 DEF Reach
  <2>2. CASE Behind(f, i) # {}
    <3>1. PICK j \in Behind(f, i) : Reach(f, i) = f.tensors[j].offset
      BY <1>1, <2>2, ReachIs
    <3>2. j \in 1 .. n
      BY DEF Behind
    <3>3. QED
      BY <1>3, <3>1, <3>2
  <2>3. QED
    BY <2>1, <2>2
<1> DEFINE a == t.offset
           b == tensor_nbytes(t)
           r == Reach(f, i)
<1>11. a \in Nat /\ b \in Nat /\ b <= r - a
  BY <1>3, <1>4, <1>8
<1> HIDE DEF a, b, r, d
<1>12. a + b <= d
  BY <1>1, <1>9, <1>10, <1>11 DEF r
<1>13. QED
  BY <1>11, <1>12 DEF InRange, a, b, d

\* What the repacker copies is there, if it copies from the file it has planned.
LEMMA TensorCopyable ==
  ASSUME NEW f, IsFile(f), read_gguf(f), NEW t \in ToSet(f.tensors)
  PROVE  InRange(FileBytes(f), abs_offset(f, t), tensor_nbytes(t))
  BY TensorInside, DataRange DEF abs_offset

\* The slices of a file that was let through lie inside it.
LEMMA SliceInside ==
  ASSUME NEW f, Plannable(f), NEW g, g.layer \in ToSet(MoeLayers(f)),
         g.expert \in 0 .. NExpert(f) - 1, NEW i \in 1 .. Len(Kinds(f))
  PROVE  InRange(FileBytes(f), SourceOffset(f, g, Parts(f, g.layer)[i]),
                 Parts(f, g.layer)[i].slice_bytes)
<1> DEFINE kind == Kinds(f)[i]
           part == Parts(f, g.layer)[i]
           t == PagedTensor(f, g.layer, kind)
           d == Len(FileBytes(f))
           o == abs_offset(f, t)
           s == SliceBytes(t)
           n == NExpert(f)
           e == g.expert
<1>1. IsFile(f) /\ read_gguf(f)
  BY DEF Plannable, IsGguf
<1>2. kind \in ToSet(Kinds(f))
  BY SomeExpert, Elements
<1>3. t \in ToSet(Paged(f))
  BY <1>2, KindsAre
<1>4. t \in ToSet(f.tensors) /\ t \in TensorInfo /\ Sizeable(t) /\ Len(t.ne) = 3 /\ t.ne[3] = n
  BY <1>3, PagedTensors
<1>5. s \in Nat /\ tensor_nbytes(t) = s * n /\ n \in Nat \ {0}
  BY <1>4, SliceIs
<1>6. o + tensor_nbytes(t) <= d
  BY <1>1, <1>4, TensorCopyable DEF InRange
<1>7. o \in Nat /\ d \in Nat
  <2>1. data_start(f) \in Nat /\ FileBytes(f) \in Seq(Int)
    BY <1>1, FileBytesAre
  <2>2. t.offset \in Nat
    BY <1>4 DEF TensorInfo
  <2>3. QED
    BY <2>1, <2>2 DEF abs_offset
<1>8. part.kind = kind /\ part.slice_bytes = s
  BY PartsAre
<1>9. SourceOffset(f, g, part) = o + (e * s)
  BY <1>8 DEF SourceOffset
<1> HIDE DEF o, s, d, e, n, part, t
<1>10. (e * s) + s <= s * n
  <2>1. e \in Nat /\ e + 1 <= n
    BY <1>5 DEF e, n
  <2>2. PICK k \in Nat : n = e + 1 + k
    <3>1. n - (e + 1) \in Nat /\ n = e + 1 + (n - (e + 1))
      BY <1>5, <2>1
    <3>2. QED
      BY <3>1
  <2>3. s * n = (e * s) + s + (s * k)
    BY <1>5, <2>1, <2>2
  <2>4. s * k \in Nat /\ e * s \in Nat
    BY <1>5, <2>1, <2>2
  <2>5. QED
    BY <1>5, <2>3, <2>4
<1>11. e * s \in Nat /\ s * n \in Nat
  BY <1>5 DEF e, n
<1>12. o + (e * s) + s <= d
  BY <1>5, <1>6, <1>7, <1>10, <1>11
<1>13. QED
  BY <1>5, <1>7, <1>8, <1>9, <1>11, <1>12 DEF InRange, part, d

\* An extent can be copied from the file it was planned for.
LEMMA ExtentIsCopyable ==
  ASSUME NEW f, Plannable(f), NEW g, g.layer \in ToSet(MoeLayers(f)),
         g.expert \in 0 .. NExpert(f) - 1
  PROVE  ExtentCopyable(f, f, g)
<1>1. Layers(f)[g.layer].parts = Parts(f, g.layer)
  BY GeometryIs
<1>2. SUFFICES ASSUME NEW part \in ToSet(Parts(f, g.layer))
               PROVE  InRange(FileBytes(f), SourceOffset(f, g, part), part.slice_bytes)
  BY <1>1 DEF ExtentCopyable
<1>3. Parts(f, g.layer) \in Seq(PartInfo) /\ Len(Parts(f, g.layer)) = Len(Kinds(f))
  BY PartsAre
<1>4. PICK i \in 1 .. Len(Kinds(f)) : Parts(f, g.layer)[i] = part
  BY <1>3, Elements
<1>5. QED
  BY <1>4, SliceInside

\* So can the resident tensors.
LEMMA ResidentIsCopyable ==
  ASSUME NEW f, Plannable(f)
  PROVE  Copyable(f, f, Resident(f))
<1>1. IsFile(f) /\ read_gguf(f) /\ f.tensors \in Seq(TensorInfo)
  BY TensorsTyped DEF Plannable, IsGguf
<1>2. ToSet(Resident(f)) \subseteq ToSet(f.tensors)
  BY <1>1, PartsOfFile
<1>3. QED
  BY <1>1, <1>2, TensorCopyable DEF Copyable

-----------------------------------------------------------------------------
(* What write_subset_gguf writes can be read.                              *)

\* Rounding up adds less than the alignment.
LEMMA AlignBound ==
  ASSUME NEW x \in Nat, NEW a \in Nat \ {0}
  PROVE  align_up(x, a) < x + a
<1> DEFINE y == x + a - 1
           q == y \div a
           r == y % a
<1>1. y \in Int
  OBVIOUS
<1>2. q \in Int /\ r \in 0 .. a - 1 /\ y = (a * q) + r
  BY ONLY <1>1, a \in Nat \ {0}, Division
<1>3. align_up(x, a) = q * a
  BY DEF align_up
<1> HIDE DEF q, r
<1>4. q * a = a * q /\ a * q \in Int
  BY <1>2
<1>5. QED
  BY <1>1, <1>2, <1>3, <1>4

\* Rounding up what begins at a multiple rounds up what follows.
LEMMA AlignShift ==
  ASSUME NEW o \in Nat, NEW x \in Nat, NEW a \in Nat \ {0}, o % a = 0
  PROVE  align_up(o + x, a) = o + align_up(x, a)
<1> DEFINE k == o \div a
           y == x + a - 1
           q == y \div a
           r == y % a
           z == o + x + a - 1
<1>1. o = a * k /\ k \in Nat
  <2>1. o \in Int
    OBVIOUS
  <2>2. k \in Int /\ o = (a * k) + (o % a)
    BY ONLY <2>1, a \in Nat \ {0}, Division
  <2>3. k \in Nat
    BY ONLY o \in Nat, a \in Nat \ {0}, NatDivision
  <2> HIDE DEF k
  <2>4. a * k \in Nat
    BY <2>3
  <2>5. QED
    BY <2>2, <2>3, <2>4
<1>2. y \in Nat
  OBVIOUS
<1>3. q \in Nat /\ r \in 0 .. a - 1 /\ y = (a * q) + r
  <2>1. q \in Nat
    BY ONLY <1>2, a \in Nat \ {0}, NatDivision
  <2>2. y \in Int
    BY <1>2
  <2>3. r \in 0 .. a - 1 /\ y = (a * q) + r
    BY ONLY <2>2, a \in Nat \ {0}, Division
  <2>4. QED
    BY <2>1, <2>3
<1>4. align_up(x, a) = q * a
  BY DEF align_up
<1>5. align_up(o + x, a) = (z \div a) * a
  BY DEF align_up
<1> HIDE DEF k, q, r, y, z
<1>6. z = (a * (k + q)) + r /\ z \in Nat /\ k + q \in Nat
  <2>1. z = o + y /\ z \in Nat
    BY <1>2 DEF y, z
  <2>2. a * (k + q) = (a * k) + (a * q)
    BY <1>1, <1>3
  <2>3. a * k \in Nat /\ a * q \in Nat
    BY <1>1, <1>3
  <2>4. QED
    BY <1>1, <1>3, <2>1, <2>2, <2>3
<1>7. z \div a = k + q
  BY ONLY <1>3, <1>6, a \in Nat \ {0}, QuotientIs
<1>8. (k + q) * a = (a * k) + (q * a)
  BY <1>1, <1>3
<1>9. QED
  BY <1>1, <1>4, <1>5, <1>7, <1>8

\* Where the tensors of the file that is written begin, and where they end, padding and all.
Ends(f, keep) ==
  LET sizes == [i \in 1 .. Len(keep) |-> tensor_nbytes(keep[i])]
      offsets == Offsets(sizes, Alignment(f))
  IN  [i \in 0 .. Len(keep) |-> IF i = 0 THEN 0 ELSE offsets[i] + align_up(sizes[i], Alignment(f))]

\* The tensors' bytes as they are written, each padded.
Blocks(f, b, keep) == [i \in 1 .. Len(keep) |-> Padded(f, b, keep[i])]

\* Each tensor begins where the one before it ends, aligned.
LEMMA EndsAre ==
  ASSUME NEW f, IsGguf(f), NEW keep, keep \in Seq(TensorInfo),
         \A t \in ToSet(keep) : Sizeable(t)
  PROVE  /\ Ends(f, keep) \in [0 .. Len(keep) -> Nat]
         /\ Ends(f, keep)[0] = 0
         /\ \A i \in 1 .. Len(keep) :
              /\ Moved(f, keep)[i].offset = Ends(f, keep)[i - 1]
              /\ tensor_nbytes(keep[i]) \in Nat
              /\ Ends(f, keep)[i] = Ends(f, keep)[i - 1] + align_up(tensor_nbytes(keep[i]), Alignment(f))
              /\ Ends(f, keep)[i - 1] % Alignment(f) = 0
<1> DEFINE n == Len(keep)
           a == Alignment(f)
           sizes == [i \in 1 .. n |-> tensor_nbytes(keep[i])]
           o == Offsets(sizes, a)
           at == Ends(f, keep)
<1>1. n \in Nat /\ \A i \in 1 .. n : keep[i] \in ToSet(keep) /\ keep[i] \in TensorInfo
  BY Elements
<1>2. \A i \in 1 .. n : tensor_nbytes(keep[i]) \in Nat
  BY <1>1, SizeNat
<1>3. a \in Nat \ {0}
  BY DEF IsGguf
<1>4. sizes \in Seq(Nat) /\ Len(sizes) = n /\ \A i \in 1 .. n : sizes[i] \in Nat
  BY <1>1, <1>2
<1>5. at = [i \in 0 .. n |-> IF i = 0 THEN 0 ELSE o[i] + align_up(sizes[i], a)]
  BY DEF Ends
<1>6. \A i \in 1 .. n : Moved(f, keep)[i].offset = o[i]
  <2>1. Moved(f, keep) = [i \in 1 .. n |-> [keep[i] EXCEPT !.offset = o[i]]]
    BY DEF Moved
  <2> HIDE DEF o
  <2>2. \A i \in 1 .. n : [keep[i] EXCEPT !.offset = o[i]].offset = o[i]
    BY <1>1 DEF TensorInfo
  <2>3. QED
    BY <2>1, <2>2
<1>7. \A i \in 1 .. n : sizes[i] = tensor_nbytes(keep[i])
  OBVIOUS
<1> HIDE DEF sizes, a
<1>8. /\ o \in [1 .. n -> Nat]
      /\ sizes # <<>> => o[1] = 0
      /\ \A i \in 2 .. n : o[i] = align_up(o[i - 1] + sizes[i - 1], a)
  <2>1. sizes \in Seq(Nat)
    BY <1>4
  <2>2. /\ o \in [1 .. Len(sizes) -> Nat]
        /\ sizes # <<>> => o[1] = 0
        /\ \A i \in 2 .. Len(sizes) : o[i] = align_up(o[i - 1] + sizes[i - 1], a)
    BY ONLY <1>3, <2>1, OffsetsAre
  <2>3. QED
    BY <1>4, <2>2
<1>9. n >= 1 => o[1] = 0
  BY <1>1, <1>4, <1>8
<1> HIDE DEF o, at, n
<1>10. \A i \in 1 .. n : o[i] \in Nat /\ align_up(sizes[i], a) \in Nat
  BY <1>3, <1>4, <1>8, AlignUp
<1>11. at \in [0 .. n -> Nat] /\ at[0] = 0 /\ \A i \in 1 .. n : at[i] = o[i] + align_up(sizes[i], a)
  BY <1>1, <1>5, <1>10
<1>12. \A i \in 1 .. n : o[i] % a = 0
  <2>1. TAKE i \in 1 .. n
  <2>2. CASE i = 1
    BY <1>3, <1>9, <2>2
  <2>3. CASE i # 1
    <3>1. i \in 2 .. n /\ i - 1 \in 1 .. n
      BY <1>1, <2>3
    <3>2. o[i] = align_up(o[i - 1] + sizes[i - 1], a) /\ o[i - 1] + sizes[i - 1] \in Nat
      <4>1. o[i - 1] \in Nat /\ sizes[i - 1] \in Nat
        BY ONLY <1>4, <1>10, <3>1
      <4>2. o[i] = align_up(o[i - 1] + sizes[i - 1], a)
        BY ONLY <1>8, <3>1
      <4>3. QED
        BY ONLY <4>1, <4>2
    <3>3. QED
      BY <1>3, <3>2, AlignUp
  <2>4. QED
    BY <2>2, <2>3
<1>13. \A i \in 1 .. n : at[i - 1] = o[i]
  <2>1. TAKE i \in 1 .. n
  <2>2. CASE i = 1
    BY <1>9, <1>11, <2>2
  <2>3. CASE i # 1
    <3>1. i \in 2 .. n /\ i - 1 \in 1 .. n
      BY <1>1, <2>3
    <3>2. o[i] = o[i - 1] + align_up(sizes[i - 1], a)
      <4>1. o[i - 1] \in Nat /\ sizes[i - 1] \in Nat /\ o[i - 1] % a = 0
        BY <1>4, <1>10, <1>12, <3>1
      <4>2. align_up(o[i - 1] + sizes[i - 1], a) = o[i - 1] + align_up(sizes[i - 1], a)
        BY ONLY <1>3, <4>1, AlignShift
      <4>3. QED
        BY <1>8, <3>1, <4>2
    <3>3. QED
      BY <1>11, <3>1, <3>2
  <2>4. QED
    BY <2>2, <2>3
<1>14. QED
  BY <1>2, <1>6, <1>7, <1>11, <1>12, <1>13 DEF at, n, a

\* What is kept of f can be copied from b.
Copies(f, b, keep) ==
  /\ IsGguf(f) /\ IsFile(b) /\ keep \in Seq(TensorInfo)
  /\ \A t \in ToSet(keep) : Sizeable(t)
  /\ Copyable(f, b, keep)

\* The data that is written has each tensor's bytes where the new offset says.
LEMMA WrittenData ==
  ASSUME NEW f, NEW b, NEW keep, Copies(f, b, keep), NEW data, data = FlattenSeq(Blocks(f, b, keep))
  PROVE  /\ Len(data) = Ends(f, keep)[Len(keep)]
         /\ \A i \in 1 .. Len(keep) : \A k \in 1 .. tensor_nbytes(keep[i]) :
              /\ Ends(f, keep)[i - 1] + k \in 1 .. Len(data)
              /\ data[Ends(f, keep)[i - 1] + k] = FileBytes(b)[abs_offset(f, keep[i]) + k]
<1> DEFINE n == Len(keep)
           ss == Blocks(f, b, keep)
           at == Ends(f, keep)
           size(i) == tensor_nbytes(keep[i])
<1>1. n \in Nat /\ \A i \in 1 .. n : keep[i] \in ToSet(keep) /\ keep[i] \in TensorInfo
  BY Elements DEF Copies
<1>2. ASSUME NEW i \in 1 .. n
      PROVE  /\ ss[i] \in Seq(Int)
             /\ Len(ss[i]) = align_up(size(i), Alignment(f))
             /\ \A k \in 1 .. size(i) : ss[i][k] = FileBytes(b)[abs_offset(f, keep[i]) + k]
             /\ size(i) \in Nat /\ size(i) <= Len(ss[i])
  <2>1. ss[i] = Padded(f, b, keep[i])
    BY DEF Blocks
  <2>2. /\ keep[i] \in TensorInfo /\ Sizeable(keep[i]) /\ IsGguf(f) /\ IsFile(b)
        /\ InRange(FileBytes(b), abs_offset(f, keep[i]), tensor_nbytes(keep[i]))
    BY <1>1 DEF Copies, Copyable
  <2>3. /\ Padded(f, b, keep[i]) \in Seq(Int)
        /\ Len(Padded(f, b, keep[i])) = align_up(tensor_nbytes(keep[i]), Alignment(f))
        /\ \A k \in 1 .. tensor_nbytes(keep[i]) :
             Padded(f, b, keep[i])[k] = FileBytes(b)[abs_offset(f, keep[i]) + k]
    BY <2>2, PaddedIs
  <2>4. tensor_nbytes(keep[i]) \in Nat
    BY <2>2, SizeNat
  <2>5. align_up(tensor_nbytes(keep[i]), Alignment(f)) >= tensor_nbytes(keep[i])
    BY <2>2, <2>4, AlignUp DEF IsGguf
  <2>6. QED
    BY <2>1, <2>3, <2>4, <2>5
<1>3. ss \in Seq(Seq(Int)) /\ Len(ss) = n
  <2>1. ss = [i \in 1 .. n |-> Padded(f, b, keep[i])]
    BY DEF Blocks
  <2>2. \A i \in 1 .. n : Padded(f, b, keep[i]) \in Seq(Int)
    BY <1>2, <2>1
  <2> HIDE DEF n, ss
  <2>3. QED
    BY <1>1, <2>1, <2>2
<1>4. /\ at \in [0 .. n -> Nat]
      /\ at[0] = 0
      /\ \A i \in 1 .. n : at[i] = at[i - 1] + align_up(size(i), Alignment(f))
  BY EndsAre DEF Copies
<1> HIDE DEF ss, at, n, size
<1>5. Places(at, ss)
  BY <1>2, <1>3, <1>4 DEF Places
<1>6. /\ Len(data) = at[n]
      /\ \A i \in 1 .. n : \A k \in 1 .. Len(ss[i]) :
           at[i - 1] + k \in 1 .. Len(data) /\ data[at[i - 1] + k] = ss[i][k]
  <2>1. data = FlattenSeq(ss)
    BY DEF ss
  <2>2. ss \in Seq(Seq(Int))
    BY <1>3
  <2>3. Len(FlattenSeq(ss)) = at[Len(ss)]
    BY ONLY <1>5, <2>2, FlattenParts
  <2>4. ASSUME NEW i \in 1 .. Len(ss), NEW k \in 1 .. Len(ss[i])
        PROVE  /\ at[i - 1] + k \in 1 .. Len(FlattenSeq(ss))
               /\ FlattenSeq(ss)[at[i - 1] + k] = ss[i][k]
    BY ONLY <1>5, <2>2, FlattenParts
  <2>5. QED
    BY ONLY <1>3, <2>1, <2>3, <2>4
<1>7. ASSUME NEW i \in 1 .. n, NEW k \in 1 .. size(i)
      PROVE  /\ at[i - 1] + k \in 1 .. Len(data)
             /\ data[at[i - 1] + k] = FileBytes(b)[abs_offset(f, keep[i]) + k]
  <2>1. k \in 1 .. Len(ss[i])
    <3>1. size(i) \in Nat /\ size(i) <= Len(ss[i]) /\ Len(ss[i]) \in Nat
      BY <1>2
    <3>2. QED
      BY ONLY <3>1, k \in 1 .. size(i)
  <2>2. ss[i][k] = FileBytes(b)[abs_offset(f, keep[i]) + k]
    BY <1>2
  <2>3. QED
    BY <1>6, <2>1, <2>2
<1>8. QED
  BY <1>6, <1>7 DEF n, at, size

\* A tensor ends before the next one begins.
LEMMA EndsGrow ==
  ASSUME NEW n \in Nat, NEW at \in [0 .. n -> Nat], \A i \in 1 .. n : at[i - 1] <= at[i],
         NEW i \in 0 .. n, NEW j \in 0 .. n, i <= j
  PROVE  at[i] <= at[j]
<1> DEFINE P == {d \in Nat : i + d <= n => at[i] <= at[i + d]}
<1>1. 0 \in P
  BY DEF P
<1>2. \A d \in Nat : d \in P => d + 1 \in P
  <2>1. SUFFICES ASSUME NEW d \in Nat, d \in P, i + (d + 1) <= n
                 PROVE  at[i] <= at[i + (d + 1)]
    OBVIOUS
  <2>2. i + d \in 0 .. n /\ i + (d + 1) \in 1 .. n /\ (i + (d + 1)) - 1 = i + d
    BY <2>1
  <2>3. at[i] <= at[i + d] /\ at[i + d] <= at[i + (d + 1)]
    <3>1. at[(i + (d + 1)) - 1] <= at[i + (d + 1)]
      BY <2>2
    <3>2. at[i] <= at[i + d]
      BY <2>1, <2>2
    <3>3. QED
      BY <2>2, <3>1, <3>2
  <2>4. at[i] \in Nat /\ at[i + d] \in Nat /\ at[i + (d + 1)] \in Nat
    BY <2>2
  <2>5. QED
    BY <2>3, <2>4
<1> HIDE DEF P
<1>3. Nat \subseteq P
  BY ONLY <1>1, <1>2, SetInduction
<1>4. j - i \in Nat /\ i + (j - i) = j /\ i + (j - i) <= n
  OBVIOUS
<1>5. j - i \in P
  BY <1>3, <1>4
<1>6. i + (j - i) <= n => at[i] <= at[i + (j - i)]
  BY <1>5 DEF P
<1>7. QED
  BY <1>4, <1>6

\* The tensors written stand in the order of their offsets: one reaches up to the next.
LEMMA WrittenReach ==
  ASSUME NEW f, NEW b, NEW keep, Copies(f, b, keep), NEW res, res.tensors = Moved(f, keep),
         Len(res.data) = Ends(f, keep)[Len(keep)], NEW i \in 1 .. Len(keep)
  PROVE  Reach(res, i) = Ends(f, keep)[i]
<1> DEFINE n == Len(keep)
           at == Ends(f, keep)
           ts == res.tensors
<1>1. n \in Nat
  BY DEF Copies
<1>2. ts \in Seq(TensorInfo) /\ Len(ts) = n
  BY MovedAre DEF Copies
<1>3. /\ at \in [0 .. n -> Nat]
      /\ \A k \in 1 .. n : ts[k].offset = at[k - 1] /\ at[k - 1] <= at[k]
  <2>1. /\ at \in [0 .. n -> Nat]
        /\ \A k \in 1 .. n :
             /\ ts[k].offset = at[k - 1]
             /\ tensor_nbytes(keep[k]) \in Nat
             /\ at[k] = at[k - 1] + align_up(tensor_nbytes(keep[k]), Alignment(f))
    <3>1. IsGguf(f) /\ keep \in Seq(TensorInfo) /\ \A t \in ToSet(keep) : Sizeable(t)
      BY DEF Copies
    <3>2. ts = Moved(f, keep)
      OBVIOUS
    <3> HIDE DEF ts
    <3>3. /\ at \in [0 .. n -> Nat]
          /\ \A k \in 1 .. n :
               /\ Moved(f, keep)[k].offset = at[k - 1]
               /\ tensor_nbytes(keep[k]) \in Nat
               /\ at[k] = at[k - 1] + align_up(tensor_nbytes(keep[k]), Alignment(f))
      BY ONLY <3>1, EndsAre
    <3>4. QED
      BY ONLY <3>2, <3>3
  <2>2. Alignment(f) \in Nat \ {0}
    BY DEF Copies, IsGguf
  <2>3. \A k \in 1 .. n : align_up(tensor_nbytes(keep[k]), Alignment(f)) \in Nat
    BY <2>1, <2>2, AlignUp
  <2> HIDE DEF at, ts, n
  <2>4. \A k \in 1 .. n : at[k - 1] \in Nat
    <3>1. \A k \in 1 .. n : k - 1 \in 0 .. n
      BY <1>1
    <3>2. QED
      BY <2>1, <3>1
  <2>5. QED
    BY <2>1, <2>3, <2>4
<1>4. Len(res.data) = at[n]
  OBVIOUS
<1>5. i \in 1 .. n
  OBVIOUS
<1>6. \A k : k \in Behind(res, i) <=>
              /\ k \in 1 .. Len(ts)
              /\ (ts[k].offset > ts[i].offset \/ (ts[k].offset = ts[i].offset /\ k > i))
  BY DEF Behind
<1> HIDE DEF n, at
<1>7. \A k : k \in Behind(res, i) <=> k \in 1 .. n /\ k > i
  <2>1. ASSUME NEW k \in 1 .. n
        PROVE  (ts[k].offset > ts[i].offset \/ (ts[k].offset = ts[i].offset /\ k > i)) <=> k > i
    <3>1. ts[k].offset = at[k - 1] /\ ts[i].offset = at[i - 1] /\ k - 1 \in 0 .. n /\ i - 1 \in 0 .. n
      BY <1>1, <1>3, <1>5
    <3>2. at[k - 1] \in Nat /\ at[i - 1] \in Nat
      BY <1>3, <3>1
    <3>3. CASE k > i
      <4>1. i - 1 <= k - 1
        BY <1>5, <3>3
      <4>2. \A z \in 1 .. n : at[z - 1] <= at[z]
        BY <1>3
      <4>3. at[i - 1] <= at[k - 1]
        BY ONLY <1>1, <1>3, <3>1, <4>1, <4>2, EndsGrow
      <4>4. QED
        BY <3>1, <3>2, <3>3, <4>3
    <3>4. CASE ~(k > i)
      <4>1. k - 1 <= i - 1
        BY <1>5, <3>4
      <4>2. \A z \in 1 .. n : at[z - 1] <= at[z]
        BY <1>3
      <4>3. at[k - 1] <= at[i - 1]
        BY ONLY <1>1, <1>3, <3>1, <4>1, <4>2, EndsGrow
      <4>4. QED
        BY <3>1, <3>2, <3>4, <4>3
    <3>5. QED
      BY <3>3, <3>4
  <2> HIDE DEF ts
  <2>2. QED
    BY <1>2, <1>6, <2>1 DEF ts
<1>8. CASE i = n
  <2>1. Behind(res, i) = {}
    BY <1>1, <1>7, <1>8
  <2>2. Reach(res, i) = Len(res.data)
    BY <2>1, Zenon DEF Reach
  <2>3. QED
    BY <1>4, <1>8, <2>2 DEF at
<1>9. CASE i # n
  <2>1. i + 1 \in 1 .. n /\ i + 1 \in Behind(res, i) /\ (i + 1) - 1 = i
    BY <1>1, <1>5, <1>7, <1>9
  <2>2. /\ \E k \in Behind(res, i) : Reach(res, i) = res.tensors[k].offset
        /\ \A k \in Behind(res, i) : Reach(res, i) <= res.tensors[k].offset
    <3>1. res.tensors \in Seq(TensorInfo) /\ i \in 1 .. Len(res.tensors) /\ Behind(res, i) # {}
      BY <1>2, <1>5, <2>1
    <3>2. QED
      BY ONLY <3>1, ReachIs
  <2>3. PICK k \in Behind(res, i) : Reach(res, i) = ts[k].offset
    BY <2>2
  <2>4. k \in 1 .. n /\ k > i /\ i <= k - 1 /\ k - 1 \in 0 .. n /\ i \in 0 .. n
    BY <1>1, <1>5, <1>7
  <2>5. at[i] <= at[k - 1]
    <3>1. \A z \in 1 .. n : at[z - 1] <= at[z]
      BY <1>3
    <3>2. QED
      BY ONLY <1>1, <1>3, <2>4, <3>1, EndsGrow
  <2>6. Reach(res, i) <= at[i]
    <3>1. ts[i + 1].offset = at[(i + 1) - 1]
      BY <1>3, <2>1
    <3>2. QED
      BY <2>1, <2>2, <3>1
  <2>7. Reach(res, i) = at[k - 1]
    BY <1>3, <2>3, <2>4
  <2>8. at[i] \in Nat /\ at[k - 1] \in Nat
    BY <1>3, <2>4
  <2>9. QED
    BY <2>5, <2>6, <2>7, <2>8 DEF at
<1>10. QED
  BY <1>8, <1>9

\* What is written can be parsed.
LEMMA WrittenLayout ==
  ASSUME NEW f, NEW b, NEW keep, Copies(f, b, keep), NEW res, res.tensors = Moved(f, keep),
         Len(res.data) = Ends(f, keep)[Len(keep)], Alignment(res) = Alignment(f)
  PROVE  _validate_layout(res) /\ \A t \in ToSet(res.tensors) : Sizeable(t)
<1> DEFINE n == Len(keep)
           at == Ends(f, keep)
           ts == res.tensors
           a == Alignment(f)
<1>1. n \in Nat /\ a \in Nat \ {0} /\ \A k \in 1 .. n : keep[k] \in ToSet(keep)
  BY Elements DEF Copies, IsGguf
<1>2. /\ ts \in Seq(TensorInfo) /\ Len(ts) = n
      /\ \A k \in 1 .. n : ts[k].ne = keep[k].ne /\ ts[k].type = keep[k].type
  BY MovedAre DEF Copies
<1>3. \A k \in 1 .. n : Sizeable(ts[k]) /\ tensor_nbytes(ts[k]) = tensor_nbytes(keep[k])
  <2>1. TAKE k \in 1 .. n
  <2>2. Sizeable(keep[k]) /\ ts[k].ne = keep[k].ne /\ ts[k].type = keep[k].type
    BY <1>1, <1>2 DEF Copies
  <2>3. Sizeable(ts[k])
    BY <2>2 DEF Sizeable
  <2>4. tensor_nbytes(ts[k]) = tensor_nbytes(keep[k])
    BY <2>2, Zenon DEF tensor_nbytes
  <2>5. QED
    BY <2>3, <2>4
<1>4. ASSUME NEW i \in 1 .. Len(ts)
      PROVE  LET t == ts[i]
                 gap == Reach(res, i) - t.offset
             IN  /\ t.offset % Alignment(res) = 0
                 /\ tensor_nbytes(t) <= gap
                 /\ gap < tensor_nbytes(t) + Alignment(res)
  <2>1. i \in 1 .. n
    BY <1>2
  <2>2. /\ ts[i].offset = at[i - 1] /\ at[i - 1] % a = 0
        /\ tensor_nbytes(keep[i]) \in Nat
        /\ at[i] = at[i - 1] + align_up(tensor_nbytes(keep[i]), a)
        /\ at \in [0 .. n -> Nat]
    BY <2>1, EndsAre DEF Copies
  <2>3. Reach(res, i) = at[i]
    BY <2>1, WrittenReach
  <2>4. tensor_nbytes(ts[i]) = tensor_nbytes(keep[i]) /\ Alignment(res) = a
    BY <1>3, <2>1
  <2> DEFINE x == tensor_nbytes(keep[i])
             y == align_up(x, a)
  <2> HIDE DEF x, at, a, ts
  <2>5. x \in Nat /\ y \in Nat /\ y >= x /\ y < x + a
    <3>1. x \in Nat
      BY <2>2 DEF x
    <3>2. QED
      BY ONLY <1>1, <3>1, AlignUp, AlignBound
  <2> HIDE DEF y
  <2>6. at[i - 1] \in Nat /\ at[i] = at[i - 1] + y
    <3>1. i - 1 \in 0 .. n
      BY <1>1, <2>1
    <3>2. at[i - 1] \in Nat
      BY ONLY <2>2, <3>1
    <3>3. at[i] = at[i - 1] + y
      BY ONLY <2>2 DEF x, y
    <3>4. QED
      BY <3>2, <3>3
  <2>7. Reach(res, i) - ts[i].offset = y
    BY <2>2, <2>3, <2>5, <2>6
  <2>8. QED
    BY <1>1, <2>2, <2>4, <2>5, <2>7 DEF x
<1>5. _validate_layout(res)
  BY <1>4 DEF _validate_layout
<1>6. \A t \in ToSet(res.tensors) : Sizeable(t)
  BY <1>2, <1>3, Elements
<1>7. QED
  BY <1>5, <1>6

\* Entries of other keys behind the metadata do not change the alignment.
LEMMA AlignmentKept ==
  ASSUME NEW f, NEW K, f.kv \in Seq(K), NEW E, NEW extra \in Seq(E),
         \A i \in 1 .. Len(extra) : extra[i][1] # "general.alignment",
         NEW res, res.kv = f.kv \o extra
  PROVE  Alignment(res) = Alignment(f)
<1> DEFINE key == "general.alignment"
           n == Len(f.kv)
           I == Keyed(f, key)
<1>1. n \in Nat /\ Len(extra) \in Nat
  OBVIOUS
<1>2. /\ Len(res.kv) = n + Len(extra)
      /\ \A i \in 1 .. n : res.kv[i] = f.kv[i]
      /\ \A i \in 1 .. Len(extra) : res.kv[n + i] = extra[i]
  <2>1. f.kv \in Seq(K \cup E) /\ extra \in Seq(K \cup E)
    OBVIOUS
  <2>2. /\ Len(f.kv \o extra) = Len(f.kv) + Len(extra)
        /\ \A i \in 1 .. Len(f.kv) : (f.kv \o extra)[i] = f.kv[i]
        /\ \A i \in 1 .. Len(extra) : (f.kv \o extra)[Len(f.kv) + i] = extra[i]
    BY ONLY <2>1, ConcatIs
  <2>3. QED
    BY <2>2
<1> HIDE DEF key, n
<1>3. ASSUME NEW i \in 1 .. n + Len(extra)
      PROVE  res.kv[i][1] = key <=> i \in 1 .. n /\ f.kv[i][1] = key
  <2>1. CASE i <= n
    BY <1>1, <1>2, <2>1
  <2>2. CASE ~(i <= n)
    <3>1. i - n \in 1 .. Len(extra) /\ n + (i - n) = i
      BY <1>1, <2>2
    <3>2. res.kv[i] = extra[i - n]
      BY <1>2, <3>1
    <3>3. QED
      BY <2>2, <3>1, <3>2 DEF key
  <2>3. QED
    BY <2>1, <2>2
<1>4. I = {i \in 1 .. n : f.kv[i][1] = key}
  BY DEF Keyed, n
<1>5. Keyed(res, key) = {i \in 1 .. n + Len(extra) : res.kv[i][1] = key}
  BY <1>2 DEF Keyed
<1> HIDE DEF I
<1>6. Keyed(res, key) = I
  <2>1. \A i : i \in Keyed(res, key) <=> i \in 1 .. n + Len(extra) /\ res.kv[i][1] = key
    BY <1>5
  <2>2. \A i : i \in I <=> i \in 1 .. n /\ f.kv[i][1] = key
    BY <1>4
  <2>3. \A i \in 1 .. n : i \in 1 .. n + Len(extra)
    BY <1>1
  <2>4. \A i : i \in Keyed(res, key) <=> i \in I
    BY <1>3, <2>1, <2>2, <2>3
  <2>5. QED
    BY <2>4
<1>7. CASE I = {}
  BY <1>6, <1>7 DEF Alignment, Lookup, I, key
<1>8. CASE I # {}
  <2>1. I \in SUBSET (1 .. n)
    BY <1>4
  <2>2. Max(I) \in I /\ \A j \in I : Max(I) >= j
    BY ONLY <1>1, <1>8, <2>1, MaxIs
  <2>3. \E i \in I : \A j \in I : j <= i
    <3>1. Max(I) \in 1 .. n /\ \A j \in I : j \in 1 .. n
      BY <2>1, <2>2
    <3>2. \A j \in I : j <= Max(I)
      BY <2>2, <3>1
    <3>3. QED
      BY <2>2, <3>2
  <2> DEFINE m == CHOOSE i \in I : \A j \in I : j <= i
  <2>4. m \in I
    BY <2>3
  <2>5. Alignment(f) = f.kv[m][2] /\ Alignment(res) = res.kv[m][2]
    <3>1. Keyed(f, "general.alignment") = I /\ Keyed(res, "general.alignment") = I
      BY <1>6 DEF I, key
    <3>2. QED
      BY <1>8, <3>1, Zenon DEF Alignment, Lookup
  <2> HIDE DEF m
  <2>6. QED
    BY <1>2, <2>1, <2>4, <2>5
<1>9. QED
  BY <1>7, <1>8

\* The resident file of f, with such entries behind its metadata.
ResidentOf(f, extra) == write_subset_gguf(f, f, Resident(f), extra)

\* Entries that say nothing about the alignment.
PlainKvs(extra) ==
  /\ extra \in Seq(ToSet(extra))
  /\ \A i \in 1 .. Len(extra) : extra[i][1] # "general.alignment"

\* Its fields.
LEMMA ResidentOfIs ==
  ASSUME NEW f, Plannable(f), NEW extra, PlainKvs(extra), NEW res, res = ResidentOf(f, extra)
  PROVE  /\ Copies(f, f, Resident(f))
         /\ IsFile(res)
         /\ res.whole /\ res.version = f.version
         /\ res.kv = f.kv \o extra
         /\ res.tensors = Moved(f, Resident(f))
         /\ res.data = FlattenSeq(Blocks(f, f, Resident(f)))
<1>1. IsGguf(f) /\ IsFile(f) /\ read_gguf(f)
  BY DEF Plannable, IsGguf
<1>2. f.tensors \in Seq(TensorInfo)
  BY <1>1, TensorsTyped
<1>3. /\ Resident(f) \in Seq(TensorInfo)
      /\ \A t \in ToSet(Resident(f)) : Sizeable(t)
  BY <1>1, <1>2, PartsOfFile DEF read_gguf
<1>4. Copyable(f, f, Resident(f))
  BY ResidentIsCopyable
<1>5. Copies(f, f, Resident(f))
  BY <1>1, <1>3, <1>4 DEF Copies
<1>6. IsFile(res)
  <2>1. extra \in Seq(ToSet(extra))
    BY DEF PlainKvs
  <2>2. Subset(write_subset_gguf(f, f, Resident(f), extra), f, Resident(f))
    BY ONLY <1>1, <1>3, <1>4, <2>1, SubsetIs
  <2>3. QED
    BY <2>2 DEF Subset, ResidentOf
<1> DEFINE whole == Len(f.kv) >= Len(f.kv)
           kv == SubSeq(f.kv, 1, Min({Len(f.kv), Len(f.kv)})) \o extra
           tensors == Moved(f, Resident(f))
           data == FlattenSeq(Blocks(f, f, Resident(f)))
<1>7. /\ res.whole = whole /\ res.version = f.version /\ res.kv = kv
      /\ res.tensors = tensors /\ res.data = data
  <2>1. res = [whole |-> whole, version |-> f.version, kv |-> kv, tensors |-> tensors, data |-> data]
    BY Zenon DEF ResidentOf, write_subset_gguf, Moved, Blocks
  <2> HIDE DEF whole, kv, tensors, data
  <2>2. QED
    BY <2>1
<1>8. Len(f.kv) \in Nat /\ f.kv \in Seq(ToSet(f.kv))
  BY <1>1 DEF IsFile
<1>9. SubSeq(f.kv, 1, Min({Len(f.kv), Len(f.kv)})) = f.kv
  <2> DEFINE n == Len(f.kv)
  <2>1. {n, n} \in SUBSET Nat /\ {n, n} # {} /\ {n, n} = {n}
    BY <1>8
  <2>2. Min({n, n}) \in {n, n}
    BY ONLY <2>1, MinIs
  <2>3. Min({n, n}) = n
    BY <2>2
  <2>4. SubSeq(f.kv, 1, Len(f.kv)) = f.kv
    BY <1>8
  <2>5. QED
    BY <2>3, <2>4
<1>10. res.whole /\ res.version = f.version /\ res.kv = f.kv \o extra
  <2>1. whole
    BY <1>8
  <2>2. kv = f.kv \o extra
    BY <1>9
  <2> HIDE DEF whole, kv
  <2>3. QED
    BY <1>7, <2>1, <2>2, Zenon
<1>11. QED
  BY <1>5, <1>6, <1>7, <1>10

\* It can be parsed.
LEMMA ResidentReadable ==
  ASSUME NEW f, Plannable(f), NEW extra, PlainKvs(extra)
  PROVE  read_gguf(ResidentOf(f, extra))
<1> DEFINE res == ResidentOf(f, extra)
<1>1. /\ Copies(f, f, Resident(f)) /\ res.whole /\ res.version = f.version
      /\ res.kv = f.kv \o extra
      /\ res.tensors = Moved(f, Resident(f))
      /\ res.data = FlattenSeq(Blocks(f, f, Resident(f)))
  BY ResidentOfIs
<1> HIDE DEF res
<1>2. Alignment(res) = Alignment(f)
  <2>1. f.kv \in Seq(ToSet(f.kv)) /\ extra \in Seq(ToSet(extra))
        /\ \A i \in 1 .. Len(extra) : extra[i][1] # "general.alignment"
    BY DEF Plannable, IsGguf, IsFile, PlainKvs
  <2>2. QED
    BY ONLY <1>1, <2>1, AlignmentKept
<1>3. Len(res.data) = Ends(f, Resident(f))[Len(Resident(f))]
  BY <1>1, WrittenData
<1>4. _validate_layout(res) /\ \A t \in ToSet(res.tensors) : Sizeable(t)
  BY <1>1, <1>2, <1>3, WrittenLayout
<1>5. f.version \in {2, 3}
  BY DEF Plannable, read_gguf
<1>6. QED
  BY <1>1, <1>4, <1>5 DEF read_gguf, res

-----------------------------------------------------------------------------
(* The invariant.                                                          *)

GroupRecords == [layer : Nat, expert : Nat, offset : Nat]

\* A running repacker's job names a file it can plan, and the plan so far is of that file.
PlanOK ==
  /\ job.info \in DOMAIN Files
  /\ Repackable(Info)
  /\ groups \in Seq(GroupRecords)
  /\ \A i \in DOMAIN groups : groups[i].layer \in ToSet(MoeLayers(Info))
  /\ off \in Nat
  /\ off % EXTENT_ALIGN = 0
  /\ off >= PACK_HEADER_BYTES

\* What planning preserves.
PlanInv ==
  /\ source \in DOMAIN Files
  /\ "info" \in DOMAIN job
  /\ Repacking => PlanOK
  /\ ExtentsApart

\* The lemmas about files apply to those the repacker lets through.
LEMMA FilesPlannable ==
  ASSUME NEW id \in DOMAIN Files, Repackable(Files[id])
  PROVE  Plannable(Files[id])
  BY PackDirAssumption DEF Plannable, Repackable

\* The next group is of a layer that has experts.
LEMMA NextLayer ==
  ASSUME NEW f, Plannable(f), NEW k \in Nat, k < NGroups(f), NEW o \in Nat
  PROVE  /\ GroupAt(f, k + 1, o) \in GroupRecords
         /\ GroupAt(f, k + 1, o).layer \in ToSet(MoeLayers(f))
         /\ GroupAt(f, k + 1, o).offset = o
<1>1. /\ MoeLayers(f) \in Seq(Nat)
      /\ NExpert(f) \in Nat \ {0}
  <2>1. f.tensors \in Seq(TensorInfo)
    BY TensorsTyped DEF Plannable, IsGguf
  <2>2. QED
    BY <2>1, MoeLayersAre, SomeExpert
<1> DEFINE m == Len(MoeLayers(f))
           n == NExpert(f)
<1>2. m \in Nat /\ n \in Nat \ {0} /\ k < m * n
  BY <1>1 DEF NGroups
<1> HIDE DEF m, n
<1>3. k \div n \in 0 .. m - 1
  BY <1>2, RowBound
<1>4. k % n \in Nat
  BY <1>2, Division
<1>5. (k + 1) - 1 = k
  OBVIOUS
<1>6. MoeLayers(f)[(k \div n) + 1] \in ToSet(MoeLayers(f))
      /\ MoeLayers(f)[(k \div n) + 1] \in Nat
  <2>1. (k \div n) + 1 \in 1 .. m
    BY <1>2, <1>3
  <2>2. DOMAIN MoeLayers(f) = 1 .. m
    BY <1>1 DEF m
  <2>3. QED
    BY <1>1, <2>1, <2>2, Elements DEF m
<1>7. GroupAt(f, k + 1, o) = [layer |-> MoeLayers(f)[(k \div n) + 1], expert |-> k % n, offset |-> o]
  BY <1>5 DEF GroupAt, n
<1>8. QED
  BY <1>4, <1>6, <1>7 DEF GroupRecords

\* At first nothing is planned and there is no manifest.
LEMMA PlanInit == Init => PlanInv
<1> SUFFICES ASSUME Init PROVE PlanInv
  OBVIOUS
<1>1. "info" \in DOMAIN job
  BY DEF Init, NoJob
<1>2. ~Repacking /\ ~manifest.whole
  BY DEF Init, Repacking, NoManifest
<1>3. QED
  BY <1>1, <1>2 DEF Init, PlanInv, ExtentsApart

\* What is apart stays apart when the end moves on and a group is put there.
LEMMA ApartGrows ==
  ASSUME NEW gs \in Seq(GroupRecords), NEW layers, NEW end \in Nat, NEW g \in GroupRecords,
         Apart(gs, layers, end),
         g.offset = end, end % EXTENT_ALIGN = 0, end >= PACK_HEADER_BYTES,
         layers[g.layer].group_stride \in Nat,
         \A i \in DOMAIN gs : layers[gs[i].layer].group_stride \in Nat
  PROVE  Apart(Append(gs, g), layers, end + layers[g.layer].group_stride)
<1> DEFINE new == Append(gs, g)
           stride == layers[g.layer].group_stride
<1>1. /\ DOMAIN gs = 1 .. Len(gs)
      /\ Len(gs) \in Nat
      /\ DOMAIN new = 1 .. Len(gs) + 1
      /\ \A i \in 1 .. Len(gs) : new[i] = gs[i]
      /\ new[Len(gs) + 1] = g
      /\ \A i \in 1 .. Len(gs) : gs[i] \in GroupRecords
  OBVIOUS
<1> HIDE DEF new
<1>2. ASSUME NEW i \in 1 .. Len(gs)
      PROVE  /\ ExtentEnd(new, layers, i) = ExtentEnd(gs, layers, i)
             /\ ExtentEnd(gs, layers, i) \in Int
             /\ ExtentEnd(gs, layers, i) <= end
  <2>1. gs[i].offset \in Nat
    BY <1>1 DEF GroupRecords
  <2>2. layers[gs[i].layer].group_stride \in Nat
    BY <1>1
  <2>3. ExtentEnd(gs, layers, i) \in Int
    BY <2>1, <2>2 DEF ExtentEnd
  <2>4. new[i] = gs[i] /\ i \in DOMAIN gs
    BY <1>1
  <2>5. QED
    BY <2>3, <2>4 DEF ExtentEnd, Apart
<1>3. ExtentEnd(new, layers, Len(gs) + 1) = end + stride
  BY <1>1 DEF ExtentEnd
<1>4. SUFFICES ASSUME NEW i \in DOMAIN new
               PROVE  /\ new[i].offset % EXTENT_ALIGN = 0
                      /\ new[i].offset >= PACK_HEADER_BYTES
                      /\ ExtentEnd(new, layers, i) <= end + stride
                      /\ \A j \in 1 .. i - 1 : ExtentEnd(new, layers, j) <= new[i].offset
  BY DEF Apart, new
<1>5. CASE i \in 1 .. Len(gs)
  <2>1. \A j \in 1 .. i - 1 : j \in 1 .. Len(gs)
    BY <1>5, <1>1
  <2>2. ExtentEnd(new, layers, i) <= end + stride
    BY <1>2, <1>5
  <2>3. \A j \in 1 .. i - 1 : ExtentEnd(new, layers, j) <= new[i].offset
    BY <1>1, <1>2, <1>5, <2>1 DEF Apart
  <2>4. QED
    BY <1>1, <1>5, <2>2, <2>3 DEF Apart
<1>6. CASE i = Len(gs) + 1
  <2>1. \A j \in 1 .. i - 1 : j \in 1 .. Len(gs)
    BY <1>6, <1>1
  <2>2. \A j \in 1 .. i - 1 : ExtentEnd(new, layers, j) <= new[i].offset
    BY <1>1, <1>2, <1>6, <2>1
  <2>3. QED
    BY <1>1, <1>3, <1>6, <2>2
<1>7. QED
  BY <1>1, <1>5, <1>6

\* One turn of the planning loop.
LEMMA PlanExtentInv == PlanInv /\ PlanExtent => PlanInv'
<1> SUFFICES ASSUME PlanInv, PlanExtent PROVE PlanInv'
  OBVIOUS
<1>1. Repacking /\ tool = "plan"
  BY DEF PlanExtent, Repacking
<1>2. PlanOK /\ Apart(groups, Layers(Info), off)
  BY <1>1 DEF PlanInv, ExtentsApart
<1>3. Info' = Info /\ job' = job
  BY DEF PlanExtent, Info
<1>4. Plannable(Info)
  BY <1>2, FilesPlannable DEF PlanOK, Info
<1> DEFINE g == GroupAt(Info, Len(groups) + 1, off)
           lays == Layers(Info)
           stride == lays[g.layer].group_stride
<1>5. /\ groups' = Append(groups, g)
      /\ off' = off + stride
      /\ Len(groups) \in Nat
      /\ Len(groups) < NGroups(Info)
  BY <1>2 DEF PlanExtent, PlanOK
<1>6. g \in GroupRecords /\ g.layer \in ToSet(MoeLayers(Info)) /\ g.offset = off
  BY <1>2, <1>5, <1>4, NextLayer DEF PlanOK
<1>7. ASSUME NEW layer \in ToSet(MoeLayers(Info))
      PROVE  lays[layer].group_stride \in Nat /\ lays[layer].group_stride % EXTENT_ALIGN = 0
  BY <1>4, GeometryIs
<1>8. stride \in Nat /\ stride % EXTENT_ALIGN = 0
  BY <1>6, <1>7
<1>9. \A i \in DOMAIN groups : lays[groups[i].layer].group_stride \in Nat
  BY <1>2, <1>7 DEF PlanOK
<1> HIDE DEF g, lays, stride
<1>10. off' \in Nat /\ off' >= PACK_HEADER_BYTES /\ off' % EXTENT_ALIGN = 0
  <2>1. off \in Nat /\ off % EXTENT_ALIGN = 0 /\ off >= PACK_HEADER_BYTES
    BY <1>2 DEF PlanOK
  <2>2. (off + stride) % EXTENT_ALIGN = 0
    BY <1>8, <2>1, AlignedSum, RepackAssumption
  <2>3. QED
    BY <1>5, <1>8, <2>1, <2>2, RepackAssumption
<1>11. groups' \in Seq(GroupRecords)
       /\ \A i \in DOMAIN groups' : groups'[i].layer \in ToSet(MoeLayers(Info))
  <2>1. groups \in Seq(GroupRecords)
        /\ \A i \in DOMAIN groups : groups[i].layer \in ToSet(MoeLayers(Info))
    BY <1>2 DEF PlanOK
  <2>2. QED
    BY <1>5, <1>6, <2>1
<1>12. Apart(groups', lays, off')
  <2>1. Apart(groups, lays, off)
    BY <1>2 DEF lays
  <2>2. groups \in Seq(GroupRecords) /\ off \in Nat /\ off % EXTENT_ALIGN = 0
        /\ off >= PACK_HEADER_BYTES
    BY <1>2 DEF PlanOK
  <2>3. Apart(Append(groups, g), lays, off + lays[g.layer].group_stride)
    BY <1>6, <1>8, <1>9, <2>1, <2>2, ApartGrows DEF stride
  <2>4. QED
    BY <1>5, <2>3 DEF stride
<1>13. UNCHANGED <<source, manifest, tool, job>>
  BY DEF PlanExtent, files
<1>14. PlanOK'
  BY <1>2, <1>3, <1>10, <1>11, <1>13 DEF PlanOK
<1>15. Apart(groups, Layers(Info), off)'
  BY <1>3, <1>12 DEF Apart, ExtentEnd, lays
<1>16. ExtentsApart'
  BY <1>13, <1>15 DEF PlanInv, ExtentsApart, Apart, ExtentEnd
<1>17. QED
  BY <1>13, <1>14, <1>16 DEF PlanInv

\* A repacker starts with an empty plan, behind the header.
LEMMA StartRepackInv ==
  ASSUME PlanInv, NEW by, NEW hash, StartRepack(by, hash)
  PROVE  PlanInv'
<1>1. job' = [NoJob EXCEPT !.info = source, !.hash = hash]
  BY DEF StartRepack
<1>2. "info" \in DOMAIN job' /\ job'.info = source
  BY <1>1 DEF NoJob
<1>3. groups' = <<>> /\ off' = PACK_HEADER_BYTES /\ UNCHANGED <<source, manifest>>
  BY DEF StartRepack, files
<1>4. Info' = Files[source]
  BY <1>2 DEF Info
<1>5. PlanOK'
  <2>1. Repackable(Info')
    BY <1>4 DEF StartRepack
  <2>2. source \in DOMAIN Files
    BY DEF PlanInv
  <2>3. QED
    BY <1>2, <1>3, <2>1, <2>2, RepackAssumption DEF PlanOK, Repackable
<1>6. ExtentsApart'
  <2>1. Apart(groups, Layers(Info), off)'
    BY <1>3 DEF Apart
  <2>2. QED
    BY <1>3, <2>1 DEF PlanInv, ExtentsApart, Apart, ExtentEnd
<1>7. QED
  BY <1>2, <1>3, <1>5, <1>6 DEF PlanInv

\* The manifest takes over the plan.
LEMMA WriteManifestInv == PlanInv /\ WriteManifest => PlanInv'
<1> SUFFICES ASSUME PlanInv, WriteManifest PROVE PlanInv'
  OBVIOUS
<1>1. Repacking
  BY DEF WriteManifest, Repacking
<1>2. Apart(groups, Layers(Info), off)
  BY <1>1 DEF PlanInv, ExtentsApart
<1>3. /\ manifest'.groups = groups
      /\ manifest'.layers = Layers(Info)
      /\ manifest'.pack_file_bytes = off
  BY DEF WriteManifest, Manifest
<1>4. Apart(manifest.groups, manifest.layers, manifest.pack_file_bytes)'
  BY <1>2, <1>3 DEF Apart, ExtentEnd
<1>5. ~Repacking'
  BY DEF WriteManifest, Repacking
<1>6. "info" \in DOMAIN job' /\ source' = source
  BY DEF WriteManifest, NoJob
<1>7. QED
  BY <1>4, <1>5, <1>6 DEF PlanInv, ExtentsApart

\* A step that leaves the plan alone, or ends it, and writes no whole manifest.
LEMMA OtherStepInv ==
  ASSUME PlanInv,
         source' \in DOMAIN Files,
         "info" \in DOMAIN job',
         manifest' = manifest \/ ~manifest'.whole,
         \/ ~Repacking'
         \/ Repacking /\ job'.info = job.info /\ UNCHANGED <<groups, off>>
  PROVE  PlanInv'
<1>1. manifest'.whole => Apart(manifest.groups, manifest.layers, manifest.pack_file_bytes)'
  <2>1. CASE manifest' = manifest
    BY <2>1 DEF PlanInv, ExtentsApart, Apart, ExtentEnd
  <2>2. CASE ~manifest'.whole
    BY <2>2
  <2>3. QED
    BY <2>1, <2>2
<1>2. CASE ~Repacking'
  BY <1>1, <1>2 DEF PlanInv, ExtentsApart
<1>3. CASE Repacking /\ job'.info = job.info /\ UNCHANGED <<groups, off>>
  <2>1. Info' = Info
    BY <1>3 DEF Info
  <2>2. PlanOK'
    BY <1>3, <2>1 DEF PlanInv, PlanOK
  <2>3. Apart(groups, Layers(Info), off)'
    BY <1>3, <2>1 DEF PlanInv, ExtentsApart, Apart, ExtentEnd
  <2>4. QED
    BY <1>1, <2>2, <2>3 DEF PlanInv, ExtentsApart
<1>4. QED
  BY <1>2, <1>3

\* A tool that stops ends the plan.
LEMMA StopsEnds == Stops => ~Repacking' /\ "info" \in DOMAIN job'
  BY DEF Stops, Repacking, NoJob

\* Every step keeps the plan in order.
LEMMA PlanStep == PlanInv /\ [Next]_vars => PlanInv'
<1> SUFFICES ASSUME PlanInv, [Next]_vars PROVE PlanInv'
  OBVIOUS
<1>1. source \in DOMAIN Files /\ "info" \in DOMAIN job
  BY DEF PlanInv
<1>2. CASE Repacker
  <2>1. ASSUME NEW by \in {"user", "launcher"}, NEW hash \in BOOLEAN, StartRepack(by, hash)
        PROVE  PlanInv'
    BY <2>1, StartRepackInv
  <2>2. CASE PlanExtent
    BY <2>2, PlanExtentInv
  <2>3. CASE HashSource
    <3>1. "info" \in DOMAIN job' /\ job'.info = job.info
      BY <1>1, <2>3 DEF HashSource
    <3>2. QED
      BY <1>1, <2>3, <3>1, OtherStepInv DEF HashSource, files, plan, Repacking
  <2>4. CASE OpenSource
    <3>1. "info" \in DOMAIN job' /\ job'.info = job.info
      BY <1>1, <2>4 DEF OpenSource
    <3>2. QED
      BY <1>1, <2>4, <3>1, OtherStepInv DEF OpenSource, plan, Repacking
  <2>5. CASE WriteExtent
    <3>1. "info" \in DOMAIN job' /\ job'.info = job.info
      BY <1>1, <2>5 DEF WriteExtent
    <3>2. QED
      BY <1>1, <2>5, <3>1, OtherStepInv DEF WriteExtent, plan, Repacking
  <2>6. CASE WriteResident
    BY <1>1, <2>6, OtherStepInv DEF WriteResident, plan, Repacking
  <2>7. CASE WriteManifest
    BY <2>7, WriteManifestInv
  <2>8. CASE CopyEndsEarly
    BY <1>1, <2>8, StopsEnds, OtherStepInv DEF CopyEndsEarly
  <2>9. QED
    BY <1>2, <2>1, <2>2, <2>3, <2>4, <2>5, <2>6, <2>7, <2>8 DEF Repacker
<1>3. CASE Verifier
  <2>1. ASSUME NEW by, NEW quick, NEW picked, CheckSize(by, quick, picked)
        PROVE  PlanInv'
    <3>1. ~Repacking' /\ "info" \in DOMAIN job'
      BY <2>1, StopsEnds DEF CheckSize, Repacking, NoJob
    <3>2. QED
      BY <1>1, <2>1, <3>1, OtherStepInv DEF CheckSize, files
  <2>2. CASE CheckHash \/ ReadHeaders
    <3>1. ~Repacking' /\ "info" \in DOMAIN job'
      BY <1>1, <2>2, StopsEnds DEF CheckHash, ReadHeaders, Repacking
    <3>2. QED
      BY <1>1, <2>2, <3>1, OtherStepInv DEF CheckHash, ReadHeaders, files
  <2>3. CASE Compare
    <3>1. ~Repacking' /\ "info" \in DOMAIN job'
      BY <2>3, StopsEnds DEF Compare, Repacking, NoJob
    <3>2. QED
      BY <1>1, <2>3, <3>1, OtherStepInv DEF Compare, files
  <2>4. QED
    BY <1>3, <2>1, <2>2, <2>3 DEF Verifier
<1>4. CASE Launcher
  <2>1. CASE UseExistingPack
    BY <1>1, <2>1, OtherStepInv DEF UseExistingPack, files, Repacking
  <2>2. CASE Serve
    BY <1>1, <2>2, OtherStepInv DEF Serve, files, Repacking
  <2>3. CASE StopServing
    BY <1>1, <2>3, StopsEnds, OtherStepInv DEF StopServing, files
  <2>4. QED
    BY <1>4, <2>1, <2>2, <2>3 DEF Launcher
<1>5. CASE Faults
  <2>1. CASE ReplaceSource
    <3>1. source' \in DOMAIN Files
      BY <2>1, PackDirAssumption DEF ReplaceSource
    <3>2. Repacking' <=> Repacking
      BY <2>1 DEF ReplaceSource, Repacking
    <3>3. QED
      BY <1>1, <2>1, <3>1, <3>2, OtherStepInv DEF ReplaceSource, plan
  <2>2. CASE KillRepack
    <3>1. manifest' = manifest \/ ~manifest'.whole
      BY <2>2 DEF KillRepack
    <3>2. Stops /\ source' = source
      BY <2>2 DEF KillRepack
    <3>3. QED
      BY <1>1, <3>1, <3>2, StopsEnds, OtherStepInv
  <2>3. CASE KillVerify
    BY <1>1, <2>3, StopsEnds, OtherStepInv DEF KillVerify, files
  <2>4. CASE FlipByte
    <3>1. ~Repacking'
      BY <2>4 DEF FlipByte, Repacking
    <3>2. source' = source /\ manifest' = manifest /\ job' = job
      BY <2>4 DEF FlipByte
    <3>3. QED
      BY <1>1, <3>1, <3>2, OtherStepInv
  <2>5. QED
    BY <1>5, <2>1, <2>2, <2>3, <2>4 DEF Faults
<1>6. CASE UNCHANGED vars
  <2>1. UNCHANGED <<source, manifest, job, groups, off, tool>>
    BY <1>6 DEF vars, files, plan
  <2>2. Repacking' <=> Repacking
    BY <2>1 DEF Repacking
  <2>3. QED
    BY <1>1, <2>1, <2>2, OtherStepInv
<1>7. QED
  BY <1>2, <1>3, <1>4, <1>5, <1>6 DEF Next

\* For every source file, alignment and header size, every fault and every order of the
\* tools: the extents of a plan, and of every manifest that is whole, are aligned, apart,
\* and inside the pack (repack_gguf.plan_pack; the runtime reads them directly and without
\* a check of its own).
THEOREM ExtentsApartTheorem == Spec => []ExtentsApart
<1>1. Init => PlanInv
  BY PlanInit
<1>2. PlanInv /\ [Next]_vars => PlanInv'
  BY PlanStep
<1>3. PlanInv => ExtentsApart
  BY DEF PlanInv
<1>4. QED
  BY <1>1, <1>2, <1>3, PTL DEF Spec

-----------------------------------------------------------------------------
(* The state of the tools, from step to step.                              *)

\* Where group i begins, and behind the last one, where the next will.
Position(gs, end, i) == IF i <= Len(gs) THEN gs[i].offset ELSE end

\* gs are the first groups of f's plan, back to back from the header on to end.
PlanOf(f, gs, end) ==
  /\ gs \in Seq(GroupRecords)
  /\ end \in Nat
  /\ Len(gs) <= NGroups(f)
  /\ \A i \in 1 .. Len(gs) : gs[i] = GroupAt(f, i, gs[i].offset)
  /\ Position(gs, end, 1) = PACK_HEADER_BYTES
  /\ \A i \in 1 .. Len(gs) :
       Position(gs, end, i + 1) = gs[i].offset + Layers(f)[gs[i].layer].group_stride

FullPlan(f, gs, end) == PlanOf(f, gs, end) /\ Len(gs) = NGroups(f)

MadeFor(man, f) ==
  /\ man = Manifest(f, man.sha256, man.groups, man.pack_file_bytes)
  /\ FullPlan(f, man.groups, man.pack_file_bytes)

Ids == DOMAIN Files \cup {0}
Jobs == [info : Ids, src_f : Ids, sha : DOMAIN Files \cup {NoHash}, hash : BOOLEAN, next : Nat,
         picked : SUBSET Nat]
Histories == [honest : BOOLEAN, stale : BOOLEAN, faults : 0 .. MaxFaults,
              last : [verdict : {"none", "pass", "fail"}, info : Ids, of : Ids, picked : SUBSET Nat]]

\* The shape of every variable; the resident file is always one that could be parsed on,
\* and has no expert tensor.
Typed ==
  /\ source \in DOMAIN Files
  /\ pack \in Seq(Int)
  /\ IsFile(resident)
  /\ \A t \in ToSet(resident.tensors) : ~IsExpert(t)
  /\ manifest.whole \in BOOLEAN
  /\ tool \in {"idle", "plan", "open", "pack", "manifest", "verify", "hash", "parse", "compare",
              "serve", "serving"}
  /\ caller \in {"user", "launcher"}
  /\ job \in Jobs
  /\ off \in Nat
  /\ history \in Histories

\* How far the running tool is.
Progress ==
  /\ job.info # 0 <=> Repacking \/ tool = "compare"
  /\ Repacking => Repackable(Info) /\ PlanOf(Info, groups, off) /\ history.last.verdict = "none"
  /\ tool \in {"open", "pack", "manifest"} => FullPlan(Info, groups, off)
  /\ tool \in {"pack", "manifest"} => job.src_f # 0 /\ (manifest.whole => history.stale)
  /\ tool = "pack" => /\ job.next \in 1 .. Len(groups) + 1
                      /\ Len(pack) = Position(groups, off, job.next)
  /\ tool = "manifest" => Len(pack) = off /\ resident # NoGguf
  /\ tool \in {"hash", "parse", "compare"} =>
       manifest.whole /\ job.picked \subseteq DOMAIN manifest.groups

\* A whole manifest is that of a full plan of some file, the same from its size to its
\* last group.
ManifestOK ==
  manifest.whole => \E id \in DOMAIN Files : Repackable(Files[id]) /\ MadeFor(manifest, Files[id])

\* The groups of a plan are of layers that have experts.
LEMMA GroupOfPlan ==
  ASSUME NEW f, Plannable(f), NEW gs, NEW end, PlanOf(f, gs, end), NEW i \in 1 .. Len(gs)
  PROVE  /\ gs[i] \in GroupRecords
         /\ gs[i].layer \in ToSet(MoeLayers(f))
         /\ gs[i].expert \in Nat
         /\ gs[i].offset \in Nat
         /\ Layers(f)[gs[i].layer].group_stride \in Nat
<1>1. gs \in Seq(GroupRecords)
  BY DEF PlanOf
<1>2. gs[i] \in GroupRecords
  BY <1>1
<1>3. gs[i].expert \in Nat /\ gs[i].offset \in Nat
  BY <1>2 DEF GroupRecords
<1>4. NGroups(f) \in Nat /\ i - 1 < NGroups(f) /\ i - 1 \in Nat
  <2>1. Len(gs) <= NGroups(f) /\ Len(gs) \in Nat
    BY <1>1 DEF PlanOf
  <2>2. MoeLayers(f) \in Seq(Nat) /\ NExpert(f) \in Nat
    BY TensorsTyped, MoeLayersAre, SomeExpert DEF Plannable, IsGguf
  <2>3. NGroups(f) \in Nat
    BY <2>2 DEF NGroups
  <2>4. QED
    BY <2>1, <2>3
<1>5. gs[i].layer \in ToSet(MoeLayers(f))
  <2>1. GroupAt(f, (i - 1) + 1, gs[i].offset).layer \in ToSet(MoeLayers(f))
    BY <1>3, <1>4, NextLayer
  <2>2. (i - 1) + 1 = i /\ gs[i] = GroupAt(f, i, gs[i].offset)
    BY DEF PlanOf
  <2>3. QED
    BY ONLY <2>1, <2>2
<1>6. QED
  BY <1>2, <1>3, <1>5, GeometryIs

\* One more turn of the planning loop.
LEMMA PlanGrows ==
  ASSUME NEW f, Plannable(f), NEW gs, NEW end, PlanOf(f, gs, end), Len(gs) < NGroups(f)
  PROVE  LET g == GroupAt(f, Len(gs) + 1, end)
         IN  PlanOf(f, Append(gs, g), end + Layers(f)[g.layer].group_stride)
<1> DEFINE g == GroupAt(f, Len(gs) + 1, end)
           new == Append(gs, g)
           stride == Layers(f)[g.layer].group_stride
<1>1. gs \in Seq(GroupRecords) /\ end \in Nat /\ Len(gs) \in Nat
  BY DEF PlanOf
<1>2. g \in GroupRecords /\ g.layer \in ToSet(MoeLayers(f)) /\ g.offset = end
  BY <1>1, NextLayer
<1>3. stride \in Nat
  BY <1>2, GeometryIs
<1>4. /\ new \in Seq(GroupRecords)
      /\ Len(new) = Len(gs) + 1
      /\ \A i \in 1 .. Len(gs) : new[i] = gs[i]
      /\ new[Len(gs) + 1] = g
  BY <1>1, <1>2
<1>5. \A i \in 1 .. Len(new) : new[i] = GroupAt(f, i, new[i].offset)
  <2>1. g = GroupAt(f, Len(gs) + 1, g.offset)
    BY <1>2 DEF g
  <2>2. \A i \in 1 .. Len(gs) : gs[i] = GroupAt(f, i, gs[i].offset)
    BY DEF PlanOf
  <2> HIDE DEF g, new
  <2>3. QED
    BY <1>1, <1>4, <2>1, <2>2
<1> HIDE DEF new, stride
<1>6. \A i \in 1 .. Len(gs) + 1 : Position(new, end + stride, i) = Position(gs, end, i)
  <2> HIDE DEF g
  <2>1. QED
    BY <1>1, <1>2, <1>4 DEF Position
<1>7. Position(new, end + stride, 1) = PACK_HEADER_BYTES
  BY <1>1, <1>6 DEF PlanOf
<1>8. \A i \in 1 .. Len(new) :
        Position(new, end + stride, i + 1) = new[i].offset + Layers(f)[new[i].layer].group_stride
  <2>1. Position(new, end + stride, Len(gs) + 2) = end + stride
    BY <1>1, <1>4 DEF Position
  <2> HIDE DEF g
  <2>2. ASSUME NEW i \in 1 .. Len(gs)
        PROVE  Position(new, end + stride, i + 1) = new[i].offset + Layers(f)[new[i].layer].group_stride
    <3>1. i + 1 \in 1 .. Len(gs) + 1
      BY <1>1
    <3>2. Position(gs, end, i + 1) = gs[i].offset + Layers(f)[gs[i].layer].group_stride
      BY DEF PlanOf
    <3>3. QED
      BY <1>4, <1>6, <3>1, <3>2
  <2>3. ASSUME NEW i, i = Len(gs) + 1
        PROVE  Position(new, end + stride, i + 1) = new[i].offset + Layers(f)[new[i].layer].group_stride
    BY <1>1, <1>2, <1>4, <2>1, <2>3 DEF stride
  <2>4. QED
    BY <1>1, <1>4, <2>2, <2>3
<1>9. end + stride \in Nat /\ Len(new) <= NGroups(f)
  <2>1. NGroups(f) \in Int
    <3>1. MoeLayers(f) \in Seq(Nat) /\ NExpert(f) \in Nat
      BY TensorsTyped, MoeLayersAre, SomeExpert DEF Plannable, IsGguf
    <3>2. QED
      BY <3>1 DEF NGroups
  <2>2. QED
    BY <1>1, <1>3, <1>4, <2>1
<1>10. QED
  BY <1>4, <1>5, <1>7, <1>8, <1>9 DEF PlanOf, new, stride

\* The header of the pack.
LEMMA PackHeaderIs == PackHeader \in Seq(Int) /\ Len(PackHeader) = PACK_HEADER_BYTES
<1> DEFINE n == PACK_HEADER_BYTES - 1
           one == <<PACK_MAGIC>>
<1>1. n \in Nat /\ PACK_HEADER_BYTES = 1 + n
  BY RepackAssumption
<1>2. one \in Seq(Int) /\ Len(one) = 1
  BY RepackAssumption
<1>3. PackHeader = one \o Zeros(n)
  BY DEF PackHeader
<1> HIDE DEF n, one
<1>4. Zeros(n) \in Seq(Int) /\ Len(Zeros(n)) = n
  BY ONLY <1>1, ZerosAre
<1>5. one \o Zeros(n) \in Seq(Int) /\ Len(one \o Zeros(n)) = 1 + n
  <2>1. one \in Seq(Int) /\ Zeros(n) \in Seq(Int)
    BY <1>2, <1>4
  <2>2. one \o Zeros(n) \in Seq(Int) /\ Len(one \o Zeros(n)) = Len(one) + Len(Zeros(n))
    BY ONLY <2>1, ConcatIs
  <2>3. QED
    BY <1>2, <1>4, <2>2
<1>6. QED
  BY <1>1, <1>3, <1>5

\* The resident file is one that could be parsed on, and has no expert tensor.
LEMMA ResidentWritten ==
  ASSUME NEW f, Plannable(f), NEW b, IsFile(b), Copyable(f, b, Resident(f)),
         NEW res, res = write_subset_gguf(f, b, Resident(f), PackVersionKvs)
  PROVE  IsFile(res) /\ res # NoGguf /\ \A t \in ToSet(res.tensors) : ~IsExpert(t)
<1> DEFINE keep == Resident(f)
<1>1. IsGguf(f) /\ f.tensors \in Seq(TensorInfo)
  BY TensorsTyped DEF Plannable, IsGguf
<1>2. keep \in Seq(TensorInfo) /\ \A t \in ToSet(keep) : t \in ToSet(f.tensors) /\ ~IsExpert(t)
  BY <1>1, PartsOfFile
<1>3. \A t \in ToSet(keep) : Sizeable(t)
  BY <1>2 DEF Plannable, read_gguf
<1>4. PackVersionKvs \in Seq({PackVersionKvs[1], PackVersionKvs[2]})
  <2>1. ASSUME NEW x, NEW y
        PROVE  <<x, y>> \in Seq({<<x, y>>[1], <<x, y>>[2]})
    OBVIOUS
  <2>2. QED
    BY <2>1 DEF PackVersionKvs
<1>5. Copyable(f, b, keep)
  OBVIOUS
<1>6. res = write_subset_gguf(f, b, keep, PackVersionKvs)
  OBVIOUS
<1> HIDE DEF keep
<1>7. Subset(res, f, keep)
  BY <1>1, <1>2, <1>3, <1>4, <1>5, <1>6, SubsetIs
<1>8. res # NoGguf
  BY <1>7 DEF Subset, NoGguf, Plannable, read_gguf
<1>9. ASSUME NEW t \in ToSet(res.tensors)
      PROVE  ~IsExpert(t)
  <2>1. /\ res.tensors \in Seq(TensorInfo)
        /\ Len(res.tensors) = Len(keep)
        /\ \A i \in 1 .. Len(keep) : res.tensors[i].name = keep[i].name
    BY <1>1, <1>2, <1>3, <1>7, MovedAre DEF Subset
  <2>2. PICK i \in 1 .. Len(res.tensors) : res.tensors[i] = t
    BY <2>1, Elements
  <2>3. keep[i] \in ToSet(keep) /\ t.name = keep[i].name
    BY <1>2, <2>1, <2>2, Elements
  <2>4. QED
    BY <1>2, <2>3 DEF IsExpert
<1>10. QED
  BY <1>7, <1>8, <1>9 DEF Subset

\* What the running repacker reads.
LEMMA SourcesTyped ==
  ASSUME Typed, Progress, Repacking
  PROVE  /\ job.info \in DOMAIN Files
         /\ Plannable(Info)
         /\ job.src_f # 0 => job.src_f \in DOMAIN Files /\ IsFile(Files[job.src_f])
<1>1. job.info \in DOMAIN Files
  BY DEF Typed, Progress, Jobs, Ids
<1>2. Plannable(Info)
  BY <1>1, FilesPlannable DEF Progress, Info
<1>3. job.src_f # 0 => job.src_f \in DOMAIN Files
  BY DEF Typed, Jobs, Ids
<1>4. QED
  BY <1>1, <1>2, <1>3, PackDirAssumption DEF IsGguf

\* An extent that can be copied is of the length the plan has for it.
LEMMA ExtentWritten ==
  ASSUME Typed, Progress, WriteExtent
  PROVE  LET ext == Extent(Info, Files[job.src_f], groups[job.next])
         IN  /\ ext \in Seq(Int)
             /\ Len(ext) = Layers(Info)[groups[job.next].layer].group_stride
             /\ job.next \in 1 .. Len(groups)
             /\ Len(pack) + Len(ext) = Position(groups, off, job.next + 1)
             /\ pack \o ext \in Seq(Int)
             /\ Len(pack \o ext) = Len(pack) + Len(ext)
<1> DEFINE i == job.next
           g == groups[i]
           b == Files[job.src_f]
           ext == Extent(Info, b, g)
<1>1. tool = "pack" /\ Repacking /\ job.src_f # 0 /\ PlanOf(Info, groups, off)
  BY DEF WriteExtent, Progress, Repacking
<1>2. Plannable(Info) /\ IsFile(b)
  BY <1>1, SourcesTyped
<1>3. i \in 1 .. Len(groups) /\ Len(groups) \in Nat
  BY <1>1 DEF WriteExtent, Progress, PlanOf
<1>4. Len(pack) = g.offset
  BY <1>1, <1>3 DEF Progress, Position
<1>5. ExtentCopyable(Info, b, g)
  BY DEF WriteExtent
<1> HIDE DEF i, b
<1>6. g.layer \in ToSet(MoeLayers(Info)) /\ g.expert \in Nat
  BY <1>1, <1>2, <1>3, GroupOfPlan
<1> HIDE DEF g
<1>7. ext \in Seq(Int) /\ Len(ext) = Layers(Info)[g.layer].group_stride
  BY <1>2, <1>5, <1>6, ExtentIs
<1> HIDE DEF ext
<1>8. Position(groups, off, i + 1) = g.offset + Layers(Info)[g.layer].group_stride
  BY <1>1, <1>3 DEF PlanOf, g
<1>9. pack \in Seq(Int)
  BY DEF Typed
<1>10. pack \o ext \in Seq(Int) /\ Len(pack \o ext) = Len(pack) + Len(ext)
  <2>1. ext \in Seq(Int) /\ pack \in Seq(Int)
    BY <1>7, <1>9
  <2>2. QED
    BY ONLY <2>1, ConcatIs
<1>11. QED
  BY <1>3, <1>4, <1>7, <1>8, <1>10 DEF i, b, g, ext

\* What is read of a range that reaches behind the end is bytes, too.
LEMMA ClippedIs ==
  ASSUME NEW b, b \in Seq(Int), NEW from \in Nat, NEW n \in Nat
  PROVE  Clipped(b, from, n) \in Seq(Int)
<1> DEFINE end == Min({from + n, Len(b)})
<1>1. {from + n, Len(b)} \in SUBSET Nat /\ {from + n, Len(b)} # {}
  OBVIOUS
<1>2. end \in {from + n, Len(b)} /\ end <= Len(b)
  BY <1>1, MinIs
<1>3. end \in Nat
  BY <1>1, <1>2
<1> HIDE DEF end
<1>4. SubSeq(b, from + 1, end) \in Seq(Int)
  BY <1>2, <1>3
<1>5. QED
  BY <1>4 DEF Clipped, end

\* What the pack keeps of an extent that could not be copied to its end.
LEMMA CutWritten ==
  ASSUME Typed, Progress, tool = "pack", job.next <= Len(groups),
         ~ExtentCopyable(Info, Files[job.src_f], groups[job.next])
  PROVE  pack \o ExtentCut(Info, Files[job.src_f], groups[job.next]) \in Seq(Int)
<1> DEFINE i == job.next
           g == groups[i]
           b == Files[job.src_f]
           fb == FileBytes(b)
           f == Info
           parts == Layers(f)[g.layer].parts
           so(j) == SourceOffset(f, g, parts[j])
           bad == {j \in DOMAIN parts : ~InRange(fb, so(j), parts[j].slice_bytes)}
           slices == [j \in 1 .. Min(bad) |-> Clipped(fb, so(j), parts[j].slice_bytes)]
<1>1. Repacking /\ job.src_f # 0 /\ PlanOf(f, groups, off)
  BY DEF Progress, Repacking
<1>2. Plannable(f) /\ IsFile(b)
  BY <1>1, SourcesTyped
<1>3. i \in 1 .. Len(groups)
  BY <1>1 DEF Progress, PlanOf
<1>4. ~ExtentCopyable(f, b, g)
  OBVIOUS
<1>5. ExtentCut(f, b, g) = FlattenSeq(slices)
  BY DEF ExtentCut
<1> HIDE DEF i, f, b
<1>6. g.layer \in ToSet(MoeLayers(f)) /\ g.expert \in Nat
  BY <1>1, <1>2, <1>3, GroupOfPlan
<1>7. fb \in Seq(Int)
  BY <1>2, FileBytesAre
<1>8. /\ parts = Parts(f, g.layer) /\ parts \in Seq(PartInfo) /\ Len(parts) = Len(Kinds(f))
      /\ Len(Kinds(f)) \in Nat /\ DOMAIN parts = 1 .. Len(parts)
  BY <1>2, <1>6, GeometryIs, PartsAre
<1>9. \A j \in 1 .. Len(parts) : so(j) \in Nat /\ parts[j].slice_bytes \in Nat
  <2>1. TAKE j \in 1 .. Len(parts)
  <2>2. parts[j] \in PartInfo
    BY <1>8, Elements
  <2>3. parts[j].slice_bytes \in Nat
    BY <2>2 DEF PartInfo
  <2>4. so(j) \in Nat
    BY <1>2, <1>6, <1>8, SourceOffsetNat
  <2>5. QED
    BY <2>3, <2>4
<1>10. \E part \in ToSet(parts) : ~InRange(fb, SourceOffset(f, g, part), part.slice_bytes)
  BY <1>4 DEF ExtentCopyable
<1> HIDE DEF parts
<1>11. bad # {} /\ bad \in SUBSET Nat
  <2>1. PICK part \in ToSet(parts) : ~InRange(fb, SourceOffset(f, g, part), part.slice_bytes)
    BY <1>10
  <2>2. PICK j \in 1 .. Len(parts) : parts[j] = part
    BY <1>8, Elements
  <2>3. j \in bad
    BY <1>8, <2>1, <2>2
  <2>4. QED
    BY <1>8, <2>3
<1>12. Min(bad) \in 1 .. Len(parts)
  <2>1. Min(bad) \in bad
    BY <1>11, MinIs
  <2>2. QED
    BY <1>8, <2>1
<1> HIDE DEF bad, fb, so
<1>13. slices \in Seq(Seq(Int))
  <2>1. \A j \in 1 .. Min(bad) : Clipped(fb, so(j), parts[j].slice_bytes) \in Seq(Int)
    <3>1. TAKE j \in 1 .. Min(bad)
    <3>2. j \in 1 .. Len(parts)
      BY <1>8, <1>12
    <3>3. QED
      BY <1>7, <1>9, <3>2, ClippedIs
  <2>2. Min(bad) \in Nat
    BY <1>12
  <2>3. QED
    BY <2>1, <2>2
<1> HIDE DEF slices
<1>14. FlattenSeq(slices) \in Seq(Int)
  BY <1>13, FlattenElements
<1>15. pack \in Seq(Int)
  BY DEF Typed
<1>16. pack \o FlattenSeq(slices) \in Seq(Int)
  BY ONLY <1>14, <1>15, ConcatIs
<1>17. QED
  BY <1>5, <1>16 DEF i, f, b

\* At first there is no pack and no manifest.
LEMMA TypedInit == Init => Typed /\ Progress /\ ManifestOK /\ ManifestMeansPack
<1> SUFFICES ASSUME Init PROVE Typed /\ Progress /\ ManifestOK /\ ManifestMeansPack
  OBVIOUS
<1>1. IsFile(resident) /\ resident.tensors = <<>>
  <2>1. NoGguf.tensors = <<>> /\ NoGguf.kv = <<>>
    BY DEF NoGguf
  <2>2. NoGguf \in [whole : BOOLEAN, version : Nat, kv : Seq(ToSet(NoGguf.kv)),
                    tensors : Seq(TensorInfo), data : Seq(Int)]
    BY <2>1 DEF NoGguf
  <2>3. QED
    BY <2>1, <2>2 DEF Init, IsFile
<1>2. job \in Jobs /\ job.info = 0
  BY DEF Init, NoJob, Jobs, Ids
<1>3. history \in Histories
  BY PackDirAssumption DEF Init, Histories, Unverified, Ids
<1>4. ~Repacking /\ ~manifest.whole
  BY DEF Init, Repacking, NoManifest
<1>5. \A t \in ToSet(resident.tensors) : ~IsExpert(t)
  BY <1>1 DEF ToSet
<1>6. Typed
  <2>1. pack \in Seq(Int) /\ off \in Nat /\ source \in DOMAIN Files
    BY DEF Init
  <2>2. manifest.whole \in BOOLEAN
    BY DEF Init, NoManifest
  <2>3. tool = "idle" /\ caller = "user"
    BY DEF Init
  <2>4. QED
    BY <1>1, <1>2, <1>3, <1>5, <2>1, <2>2, <2>3 DEF Typed
<1>7. QED
  BY <1>2, <1>4, <1>6 DEF Init, Progress, ManifestOK, ManifestMeansPack

\* A file cut in its header is a file without tensors.
LEMMA NoGgufIsFile == IsFile(NoGguf) /\ \A t \in ToSet(NoGguf.tensors) : ~IsExpert(t)
<1>1. NoGguf.tensors = <<>> /\ NoGguf.kv = <<>>
  BY DEF NoGguf
<1>2. NoGguf \in [whole : BOOLEAN, version : Nat, kv : Seq(ToSet(NoGguf.kv)),
                  tensors : Seq(TensorInfo), data : Seq(Int)]
  BY <1>1 DEF NoGguf
<1>3. \A t \in ToSet(NoGguf.tensors) : ~IsExpert(t)
  BY <1>1 DEF ToSet
<1>4. QED
  BY <1>2, <1>3 DEF IsFile

\* What is left of a file that was being written is part of it.
LEMMA PrefixTyped ==
  ASSUME NEW s \in Seq(Int), NEW p \in Prefixes(s)
  PROVE  p \in Seq(Int)
<1>1. PICK l \in 0 .. Len(s) : p = SubSeq(s, 1, l)
  BY DEF Prefixes
<1>2. QED
  BY <1>1

\* A verification compares groups of the manifest.
LEMMA GroupsAre ==
  ASSUME ManifestOK
  PROVE  Groups \in SUBSET Nat
<1>1. CASE manifest.whole
  <2>1. PICK f : MadeFor(manifest, f)
    BY <1>1 DEF ManifestOK
  <2>2. manifest.groups \in Seq(GroupRecords)
    BY <2>1 DEF MadeFor, FullPlan, PlanOf
  <2>3. QED
    BY <1>1, <2>2 DEF Groups
<1>2. CASE ~manifest.whole
  BY <1>2 DEF Groups
<1>3. QED
  BY <1>1, <1>2

\* A tool that stops keeps no job and no plan.
LEMMA Ended ==
  ASSUME Stops
  PROVE  /\ tool' = "idle" /\ caller' = "user" /\ ~Repacking'
         /\ job' \in Jobs /\ job'.info = 0
         /\ off' \in Nat
  BY DEF Stops, NoJob, Jobs, Ids, Repacking

\* A fault counts itself and ends honesty, and changes no more of the history.
LEMMA FaultTyped ==
  ASSUME NEW h \in Histories, history \in Histories, Fault(h)
  PROVE  /\ history' \in Histories
         /\ history'.stale = h.stale /\ history'.last = h.last
         /\ history'.honest = FALSE
<1>1. history.faults \in 0 .. MaxFaults /\ history.faults < MaxFaults
  BY DEF Histories, Fault
<1>2. history.faults + 1 \in 0 .. MaxFaults
  BY <1>1, PackDirAssumption
<1>3. history' = [h EXCEPT !.faults = history.faults + 1, !.honest = FALSE]
  BY DEF Fault
<1>4. QED
  BY <1>2, <1>3 DEF Histories

\* A verdict of failure changes no more of the history.
LEMMA FailsTyped ==
  ASSUME history \in Histories, Fails
  PROVE  /\ history' \in Histories
         /\ history'.stale = history.stale /\ history'.honest = history.honest
         /\ history'.last.verdict = "fail"
  BY DEF Histories, Fails, Unverified, Ids

\* The repacker's steps keep the types.
LEMMA RepackerTyped == Typed /\ Progress /\ Repacker => Typed'
<1> SUFFICES ASSUME Typed, Progress, Repacker PROVE Typed'
  OBVIOUS
<1> USE DEF Typed
<1>1. ASSUME NEW by \in {"user", "launcher"}, NEW hash \in BOOLEAN, StartRepack(by, hash)
      PROVE  Typed'
  <2>1. job' \in Jobs
    BY <1>1 DEF StartRepack, NoJob, Jobs, Ids
  <2>2. history' \in Histories
    BY <1>1 DEF StartRepack, Histories, Unverified, Ids
  <2>3. off' \in Nat
    BY <1>1, RepackAssumption DEF StartRepack
  <2>4. QED
    BY <1>1, <2>1, <2>2, <2>3 DEF StartRepack, files
<1>2. CASE PlanExtent
  <2>1. Repacking /\ PlanOf(Info, groups, off) /\ Len(groups) < NGroups(Info)
    BY <1>2 DEF PlanExtent, Repacking, Progress
  <2>2. Plannable(Info)
    BY <2>1, SourcesTyped
  <2> DEFINE g == GroupAt(Info, Len(groups) + 1, off)
  <2>3. PlanOf(Info, Append(groups, g), off + Layers(Info)[g.layer].group_stride)
    BY <2>1, <2>2, PlanGrows
  <2>4. off' \in Nat
    BY <1>2, <2>3 DEF PlanExtent, PlanOf
  <2>5. QED
    BY <1>2, <2>4 DEF PlanExtent, files
<1>3. CASE HashSource
  <2>1. job' \in Jobs
    BY <1>3 DEF HashSource, Jobs
  <2>2. QED
    BY <1>3, <2>1 DEF HashSource, files, plan
<1>4. CASE OpenSource
  <2>1. job' \in Jobs
    BY <1>4 DEF OpenSource, Jobs, Ids
  <2>2. history' \in Histories
    BY <1>4 DEF OpenSource, Histories, Exists
  <2>3. QED
    BY <1>4, <2>1, <2>2, PackHeaderIs DEF OpenSource, plan
<1>5. CASE WriteExtent
  <2>1. job' \in Jobs
    <3>1. job.next + 1 \in Nat
      BY DEF Jobs
    <3>2. QED
      BY <1>5, <3>1 DEF WriteExtent, Jobs
  <2>2. pack' \in Seq(Int)
    BY <1>5, ExtentWritten DEF WriteExtent
  <2>3. QED
    BY <1>5, <2>1, <2>2 DEF WriteExtent, plan
<1>6. CASE WriteResident
  <2>1. Repacking /\ job.src_f # 0
    BY <1>6 DEF WriteResident, Repacking, Progress
  <2>2. IsFile(resident') /\ \A t \in ToSet(resident'.tensors) : ~IsExpert(t)
    BY <1>6, <2>1, SourcesTyped, ResidentWritten DEF WriteResident
  <2>3. QED
    BY <1>6, <2>2 DEF WriteResident, plan
<1>7. CASE WriteManifest
  <2>1. job' \in Jobs /\ off' \in Nat
    BY <1>7 DEF WriteManifest, NoJob, Jobs, Ids
  <2>2. history' \in Histories
    BY <1>7 DEF WriteManifest, Histories
  <2>3. manifest'.whole = TRUE
    BY <1>7 DEF WriteManifest, Manifest
  <2>4. QED
    BY <1>7, <2>1, <2>2, <2>3 DEF WriteManifest
<1>8. CASE CopyEndsEarly
  <2>1. IsFile(resident') /\ \A t \in ToSet(resident'.tensors) : ~IsExpert(t)
    <3>1. IsFile(NoGguf) /\ \A t \in ToSet(NoGguf.tensors) : ~IsExpert(t)
      BY NoGgufIsFile
    <3>2. resident' = resident \/ resident' = NoGguf
      BY <1>8 DEF CopyEndsEarly
    <3>3. QED
      BY <3>1, <3>2
  <2>2. pack' \in Seq(Int)
    BY <1>8, CutWritten DEF CopyEndsEarly
  <2>3. QED
    BY <1>8, <2>1, <2>2, Ended DEF CopyEndsEarly
<1>9. QED
  BY <1>1, <1>2, <1>3, <1>4, <1>5, <1>6, <1>7, <1>8 DEF Repacker

\* So do the verifier's and the launcher's, and the faults.
LEMMA VerifierTyped == Typed /\ ManifestOK /\ Verifier => Typed'
<1> SUFFICES ASSUME Typed, ManifestOK, Verifier PROVE Typed'
  OBVIOUS
<1> USE DEF Typed
<1>1. ASSUME NEW by \in {"user", "launcher"}, NEW quick \in BOOLEAN, NEW picked \in SUBSET Nat,
             CheckSize(by, quick, picked)
      PROVE  Typed'
  <2>1. CASE RightSize(manifest, Files[source])
    <3>1. job' = [NoJob EXCEPT !.hash = ~quick, !.picked = picked] /\ tool' = "hash" /\ caller' = by
          /\ UNCHANGED <<files, plan, history>>
      BY <1>1, <2>1 DEF CheckSize
    <3>2. job' \in Jobs
      BY <3>1 DEF NoJob, Jobs, Ids
    <3>3. QED
      BY <3>1, <3>2 DEF files, plan
  <2>2. CASE ~RightSize(manifest, Files[source])
    BY <1>1, <2>2, Ended, FailsTyped DEF CheckSize, files
  <2>3. QED
    BY <2>1, <2>2
<1>2. CASE CheckHash
  <2>1. CASE job.hash => RightHash(manifest, source)
    BY <1>2, <2>1 DEF CheckHash, files, plan
  <2>2. CASE ~(job.hash => RightHash(manifest, source))
    BY <1>2, <2>2, Ended, FailsTyped DEF CheckHash, files
  <2>3. QED
    BY <2>1, <2>2
<1>3. CASE ReadHeaders
  <2>1. CASE HeadersRight(manifest, Files[source], resident)
    <3>1. job' \in Jobs
      BY <1>3, <2>1 DEF ReadHeaders, Jobs, Ids
    <3>2. QED
      BY <1>3, <2>1, <3>1 DEF ReadHeaders, files, plan
  <2>2. CASE ~HeadersRight(manifest, Files[source], resident)
    BY <1>3, <2>2, Ended, FailsTyped DEF ReadHeaders, files
  <2>3. QED
    BY <2>1, <2>2
<1>4. CASE Compare
  <2>1. CASE BytesSame(manifest, Info, Files[source], resident, pack, job.picked)
    <3>1. job' \in Jobs
      <4>1. NoJob \in Jobs
        BY DEF NoJob, Jobs, Ids
      <4>2. QED
        BY <1>4, <2>1, <4>1 DEF Compare
    <3>2. job.picked \in SUBSET Nat /\ job.info \in Ids
      BY DEF Jobs
    <3>3. history' \in Histories
      BY <1>4, <2>1, <3>2 DEF Compare, Histories, Ids
    <3>4. QED
      BY <1>4, <2>1, <3>1, <3>3 DEF Compare, files, plan
  <2>2. CASE ~BytesSame(manifest, Info, Files[source], resident, pack, job.picked)
    BY <1>4, <2>2, Ended, FailsTyped DEF Compare, files
  <2>3. QED
    BY <2>1, <2>2
<1>5. Groups \in SUBSET Nat
  BY GroupsAre
<1>6. \A picked \in {Groups} \cup {{i} : i \in Groups} : picked \in SUBSET Nat
  BY <1>5
<1>7. QED
  BY <1>1, <1>2, <1>3, <1>4, <1>5, <1>6 DEF Verifier

\* The launcher keeps the types.
LEMMA LauncherTyped == Typed /\ Launcher => Typed'
<1> SUFFICES ASSUME Typed, Launcher PROVE Typed'
  OBVIOUS
<1> USE DEF Typed
<1>1. CASE UseExistingPack
  BY <1>1 DEF UseExistingPack, files, plan
<1>2. CASE Serve
  BY <1>2 DEF Serve, files, plan
<1>3. CASE StopServing
  BY <1>3, Ended DEF StopServing, files
<1>4. QED
  BY <1>1, <1>2, <1>3 DEF Launcher

\* What a bad byte leaves of a sequence.
LEMMA ByteGoesBad ==
  ASSUME NEW s \in Seq(Int), NEW o \in Nat, o < Len(s),
         NEW new, new = [s EXCEPT ![o + 1] = BadByte]
  PROVE  new \in Seq(Int) /\ Len(new) = Len(s) /\ new # <<>>
  BY DEF BadByte

\* A byte that goes bad moves nothing.
LEMMA BytesFlip ==
  ASSUME Typed, FlipByte
  PROVE  /\ pack' \in Seq(Int) /\ Len(pack') = Len(pack)
         /\ IsFile(resident') /\ resident'.tensors = resident.tensors
         /\ resident # NoGguf => resident' # NoGguf
<1>1. PICK o \in BadOffsets :
        \/ o < Len(pack) /\ pack' = [pack EXCEPT ![o + 1] = BadByte] /\ UNCHANGED resident
        \/ o < Len(resident.data) /\ resident' = [resident EXCEPT !.data[o + 1] = BadByte]
           /\ UNCHANGED pack
  BY DEF FlipByte
<1>2. o \in Nat
  BY PackDirAssumption
<1>3. CASE o < Len(pack) /\ pack' = [pack EXCEPT ![o + 1] = BadByte] /\ UNCHANGED resident
  BY <1>2, <1>3, ByteGoesBad DEF Typed
<1>4. CASE o < Len(resident.data) /\ resident' = [resident EXCEPT !.data[o + 1] = BadByte]
           /\ UNCHANGED pack
  <2> DEFINE d == [resident.data EXCEPT ![o + 1] = BadByte]
  <2>1. resident.data \in Seq(Int) /\ IsFile(resident)
    BY TensorsTyped DEF Typed
  <2>2. d \in Seq(Int) /\ Len(d) = Len(resident.data) /\ d # <<>>
    BY <1>2, <1>4, <2>1, ByteGoesBad
  <2>3. resident' = [resident EXCEPT !.data = d]
    BY <1>4
  <2> HIDE DEF d
  <2>4. resident' \in [whole : BOOLEAN, version : Nat, kv : Seq(ToSet(resident.kv)),
                       tensors : Seq(TensorInfo), data : Seq(Int)]
        /\ resident'.kv = resident.kv /\ resident'.tensors = resident.tensors /\ resident'.data = d
    BY <2>1, <2>2, <2>3 DEF IsFile
  <2>5. resident' # NoGguf
    BY <2>2, <2>4 DEF NoGguf
  <2>6. QED
    BY <1>4, <2>4, <2>5 DEF IsFile, Typed
<1>5. QED
  BY <1>1, <1>3, <1>4

\* Faults keep the types.
LEMMA FaultsTyped == Typed /\ Progress /\ Faults => Typed'
<1> SUFFICES ASSUME Typed, Progress, Faults PROVE Typed'
  OBVIOUS
<1> USE DEF Typed
<1>1. CASE ReplaceSource
  <2>1. history' \in Histories
    BY <1>1, FaultTyped DEF ReplaceSource
  <2>2. source' \in DOMAIN Files
    BY <1>1, PackDirAssumption DEF ReplaceSource
  <2>3. QED
    BY <1>1, <2>1, <2>2 DEF ReplaceSource, plan
<1>2. CASE KillRepack
  <2>1. history' \in Histories
    BY <1>2, FaultTyped DEF KillRepack
  <2>2. pack' \in Seq(Int)
    <3>1. pack' \in Prefixes(pack) \/ pack' = <<>> \/ pack' = pack
      BY <1>2 DEF KillRepack
    <3>2. pack \in Seq(Int) /\ <<>> \in Seq(Int)
      OBVIOUS
    <3>3. QED
      BY <3>1, <3>2, PrefixTyped
  <2>3. IsFile(resident') /\ \A t \in ToSet(resident'.tensors) : ~IsExpert(t)
    <3>1. resident' = resident \/ resident' = NoGguf
      BY <1>2 DEF KillRepack
    <3>2. QED
      BY <3>1, NoGgufIsFile
  <2>4. manifest'.whole \in BOOLEAN
    <3>1. manifest' = manifest \/ manifest' = [whole |-> FALSE, torn |-> TRUE]
      BY <1>2 DEF KillRepack
    <3>2. [whole |-> FALSE, torn |-> TRUE].whole = FALSE
      OBVIOUS
    <3>3. QED
      BY <3>1, <3>2
  <2>5. Stops /\ source' = source
    BY <1>2 DEF KillRepack
  <2>6. QED
    BY <2>1, <2>2, <2>3, <2>4, <2>5, Ended
<1>3. CASE KillVerify
  <2>1. history' \in Histories
    BY <1>3, FaultTyped DEF KillVerify
  <2>2. QED
    BY <1>3, <2>1, Ended DEF KillVerify, files
<1>4. CASE FlipByte
  <2>1. history' \in Histories
    <3>1. [history EXCEPT !.last = Unverified] \in Histories
      BY DEF Histories, Unverified, Ids
    <3>2. QED
      BY <1>4, <3>1, FaultTyped DEF FlipByte
  <2>2. pack' \in Seq(Int) /\ IsFile(resident') /\ resident'.tensors = resident.tensors
    BY <1>4, BytesFlip
  <2>3. QED
    <3>1. UNCHANGED <<source, manifest, tool, caller, job, off>>
      BY <1>4 DEF FlipByte, plan
    <3>2. QED
      BY <2>1, <2>2, <3>1
<1>5. QED
  BY <1>1, <1>2, <1>3, <1>4 DEF Faults

\* Every step keeps the types.
LEMMA TypedStep == Typed /\ Progress /\ ManifestOK /\ [Next]_vars => Typed'
<1> SUFFICES ASSUME Typed, Progress, ManifestOK, [Next]_vars PROVE Typed'
  OBVIOUS
<1>1. CASE UNCHANGED vars
  BY <1>1 DEF vars, files, plan, Typed
<1>2. QED
  BY <1>1, RepackerTyped, VerifierTyped, LauncherTyped, FaultsTyped DEF Next

\* A file that was let through has a number of groups.
LEMMA NGroupsNat ==
  ASSUME NEW f, Plannable(f)
  PROVE  NGroups(f) \in Nat
<1>1. MoeLayers(f) \in Seq(Nat) /\ NExpert(f) \in Nat
  BY TensorsTyped, MoeLayersAre, SomeExpert DEF Plannable, IsGguf
<1>2. QED
  BY <1>1 DEF NGroups

\* A step of the repacker that goes on: the file it plans, and what it has planned, stay.
LEMMA GoesOn ==
  ASSUME job'.info = job.info, UNCHANGED <<groups, off>>
  PROVE  /\ Info' = Info
         /\ PlanOf(Info, groups, off) => PlanOf(Info, groups, off)'
         /\ FullPlan(Info, groups, off) => FullPlan(Info, groups, off)'
         /\ \A i : Position(groups, off, i)' = Position(groups', off', i)
<1>1. Info' = Info
  BY DEF Info
<1>2. PlanOf(Info, groups, off)' <=> PlanOf(Info', groups', off')
  BY DEF PlanOf, Position
<1>3. FullPlan(Info, groups, off)' <=> FullPlan(Info', groups', off')
  BY <1>2 DEF FullPlan
<1>4. QED
  BY <1>1, <1>2, <1>3 DEF Position

\* How far the tools are after a step that ends one, or is none of the repacker's.
LEMMA AtRest ==
  ASSUME ~Repacking', job'.info = 0, tool' \notin {"hash", "parse", "compare"}
  PROVE  Progress'
  BY DEF Progress, Repacking

\* The pack grows as the plan says.
LEMMA RepackerProgress == Typed /\ Progress /\ Repacker => Progress'
<1> SUFFICES ASSUME Typed, Progress, Repacker PROVE Progress'
  OBVIOUS
<1>1. ASSUME NEW by \in {"user", "launcher"}, NEW hash \in BOOLEAN, StartRepack(by, hash)
      PROVE  Progress'
  <2>1. job'.info = source /\ source # 0
    BY <1>1, PackDirAssumption DEF StartRepack, NoJob, Typed
  <2>2. tool' = "plan" /\ Info' = Files[source] /\ Repackable(Files[source])
    BY <1>1, <2>1 DEF StartRepack, Info
  <2>3. groups' = <<>> /\ off' = PACK_HEADER_BYTES
    BY <1>1 DEF StartRepack
  <2>4. PlanOf(Files[source], <<>>, PACK_HEADER_BYTES)
    <3>1. Plannable(Files[source])
      BY <2>2, FilesPlannable DEF Typed
    <3>2. NGroups(Files[source]) \in Nat
      BY <3>1, NGroupsNat
    <3>3. QED
      BY <3>2, RepackAssumption DEF PlanOf, Position
  <2>5. PlanOf(Info, groups, off)'
    BY <2>2, <2>3, <2>4 DEF PlanOf, Position
  <2>6. history'.last.verdict = "none"
    BY <1>1 DEF StartRepack, Unverified, Typed, Histories
  <2>7. Repackable(Info)'
    BY <2>2 DEF Repackable
  <2>8. QED
    BY <2>1, <2>2, <2>5, <2>6, <2>7 DEF Progress, Repacking
<1>2. CASE PlanExtent
  <2>1. Repacking /\ PlanOf(Info, groups, off) /\ Len(groups) < NGroups(Info)
        /\ Repackable(Info) /\ history.last.verdict = "none" /\ job.info # 0
    BY <1>2 DEF PlanExtent, Repacking, Progress
  <2>2. Plannable(Info)
    BY <2>1, SourcesTyped
  <2> DEFINE g == GroupAt(Info, Len(groups) + 1, off)
  <2>3. PlanOf(Info, Append(groups, g), off + Layers(Info)[g.layer].group_stride)
    BY <2>1, <2>2, PlanGrows
  <2>4. /\ groups' = Append(groups, g) /\ off' = off + Layers(Info)[g.layer].group_stride
        /\ job' = job /\ history' = history /\ tool' = "plan"
    BY <1>2 DEF PlanExtent
  <2> HIDE DEF g
  <2>5. Info' = Info
    BY <2>4 DEF Info
  <2>6. PlanOf(Info, groups, off)'
    BY <2>3, <2>4, <2>5 DEF PlanOf, Position
  <2>7. QED
    BY <2>1, <2>4, <2>5, <2>6 DEF Progress, Repacking, Repackable
<1>3. CASE HashSource
  <2>1. job'.info = job.info /\ UNCHANGED <<groups, off, history>> /\ tool' = "open" /\ tool = "plan"
    BY <1>3 DEF HashSource, plan, Typed, Jobs
  <2>2. PlanOf(Info, groups, off) /\ Repackable(Info) /\ history.last.verdict = "none" /\ job.info # 0
    BY <2>1 DEF Progress, Repacking
  <2>3. FullPlan(Info, groups, off)
    BY <1>3, <2>2 DEF HashSource, FullPlan
  <2>4. QED
    BY <2>1, <2>2, <2>3, GoesOn DEF Progress, Repacking, Repackable
<1>4. CASE OpenSource
  <2>1. /\ job'.info = job.info /\ job'.src_f = source /\ job'.next = 1
        /\ UNCHANGED <<groups, off, manifest>> /\ tool' = "pack" /\ tool = "open" /\ pack' = PackHeader
    BY <1>4 DEF OpenSource, plan, Typed, Jobs
  <2>2. /\ PlanOf(Info, groups, off) /\ Repackable(Info) /\ history.last.verdict = "none" /\ job.info # 0
        /\ FullPlan(Info, groups, off)
    BY <2>1 DEF Progress, Repacking
  <2>3. history'.last = history.last /\ history'.stale = Exists(manifest)
    BY <1>4 DEF OpenSource, Typed, Histories
  <2>4. manifest'.whole => history'.stale
    <3>1. NoManifest.whole = FALSE
      BY DEF NoManifest
    <3>2. manifest.whole => Exists(manifest)
      BY <3>1 DEF Exists
    <3>3. QED
      BY <2>1, <2>3, <3>2
  <2>5. source # 0
    BY PackDirAssumption DEF Typed
  <2>6. job'.next \in 1 .. Len(groups) + 1 /\ Len(pack') = Position(groups', off', 1)
    <3>1. Len(groups) \in Nat
      BY <2>2 DEF PlanOf
    <3>2. Len(pack') = PACK_HEADER_BYTES
      BY <2>1, PackHeaderIs
    <3>3. QED
      BY <2>1, <2>2, <3>1, <3>2 DEF PlanOf
  <2>7. QED
    BY <2>1, <2>2, <2>3, <2>4, <2>5, <2>6, GoesOn DEF Progress, Repacking, Repackable
<1>5. CASE WriteExtent
  <2>1. /\ job'.info = job.info /\ job'.src_f = job.src_f /\ job'.next = job.next + 1
        /\ UNCHANGED <<groups, off, manifest, history>> /\ tool' = "pack" /\ tool = "pack"
        /\ pack' = pack \o Extent(Info, Files[job.src_f], groups[job.next])
    BY <1>5 DEF WriteExtent, plan, Typed, Jobs
  <2>2. /\ PlanOf(Info, groups, off) /\ Repackable(Info) /\ history.last.verdict = "none" /\ job.info # 0
        /\ FullPlan(Info, groups, off) /\ job.src_f # 0 /\ (manifest.whole => history.stale)
    BY <2>1 DEF Progress, Repacking
  <2>3. job.next \in 1 .. Len(groups) /\ Len(pack') = Position(groups, off, job.next + 1)
    BY <1>5, <2>1, ExtentWritten
  <2>4. job'.next \in 1 .. Len(groups') + 1 /\ Len(pack') = Position(groups', off', job'.next)
    <3>1. Len(groups) \in Nat
      BY <2>2 DEF PlanOf
    <3>2. QED
      BY <2>1, <2>3, <3>1
  <2>5. QED
    BY <2>1, <2>2, <2>4, GoesOn DEF Progress, Repacking, Repackable
<1>6. CASE WriteResident
  <2>1. /\ UNCHANGED <<job, groups, off, manifest, history, pack>>
        /\ tool' = "manifest" /\ tool = "pack" /\ job.next > Len(groups)
    BY <1>6 DEF WriteResident, plan
  <2>2. /\ PlanOf(Info, groups, off) /\ Repackable(Info) /\ history.last.verdict = "none" /\ job.info # 0
        /\ FullPlan(Info, groups, off) /\ job.src_f # 0 /\ (manifest.whole => history.stale)
        /\ job.next \in 1 .. Len(groups) + 1 /\ Len(pack) = Position(groups, off, job.next)
    BY <2>1 DEF Progress, Repacking
  <2>3. Len(pack') = off'
    <3>1. Len(groups) \in Nat
      BY <2>2 DEF PlanOf
    <3>2. QED
      BY <2>1, <2>2, <3>1 DEF Position
  <2>4. resident' # NoGguf
    <3>1. Plannable(Info) /\ IsFile(Files[job.src_f])
      BY <2>1, <2>2, SourcesTyped DEF Repacking
    <3>2. QED
      BY <1>6, <3>1, ResidentWritten DEF WriteResident
  <2>5. QED
    BY <2>1, <2>2, <2>3, <2>4, GoesOn DEF Progress, Repacking, Repackable
<1>7. CASE WriteManifest
  <2>1. job'.info = 0 /\ tool' \in {"verify", "idle"}
    BY <1>7 DEF WriteManifest, NoJob
  <2>2. QED
    BY <2>1, AtRest DEF Repacking
<1>8. CASE CopyEndsEarly
  BY <1>8, Ended, AtRest DEF CopyEndsEarly
<1>9. QED
  BY <1>1, <1>2, <1>3, <1>4, <1>5, <1>6, <1>7, <1>8 DEF Repacker

\* The verifier leaves the repacker's progress alone.
LEMMA VerifierProgress == Typed /\ Progress /\ Verifier => Progress'
<1> SUFFICES ASSUME Typed, Progress, Verifier PROVE Progress'
  OBVIOUS
<1>0. job \in Jobs /\ source \in DOMAIN Files
  BY DEF Typed
<1>1. ASSUME NEW by, NEW quick, NEW picked, picked \subseteq Groups, CheckSize(by, quick, picked)
      PROVE  Progress'
  <2>1. CASE RightSize(manifest, Files[source])
    <3>1. job' = [NoJob EXCEPT !.hash = ~quick, !.picked = picked] /\ tool' = "hash" /\ UNCHANGED files
      BY <1>1, <2>1 DEF CheckSize
    <3>2. manifest.whole /\ job'.info = 0 /\ job'.picked = picked /\ manifest' = manifest
      BY <2>1, <3>1 DEF RightSize, NoJob, files
    <3>3. picked \subseteq DOMAIN manifest.groups
      BY <1>1, <3>2 DEF Groups
    <3>4. QED
      BY <3>1, <3>2, <3>3 DEF Progress, Repacking
  <2>2. CASE ~RightSize(manifest, Files[source])
    BY <1>1, <2>2, Ended, AtRest DEF CheckSize
  <2>3. QED
    BY <2>1, <2>2
<1>2. CASE CheckHash
  <2>1. CASE job.hash => RightHash(manifest, source)
    <3>1. /\ tool = "hash" /\ tool' = "parse" /\ job' = job /\ manifest' = manifest
          /\ job.info = 0 /\ manifest.whole /\ job.picked \subseteq DOMAIN manifest.groups
      BY <1>2, <2>1 DEF CheckHash, files, Progress, Repacking
    <3>2. QED
      BY <3>1 DEF Progress, Repacking
  <2>2. CASE ~(job.hash => RightHash(manifest, source))
    BY <1>2, <2>2, Ended, AtRest DEF CheckHash
  <2>3. QED
    BY <2>1, <2>2
<1>3. CASE ReadHeaders
  <2>1. CASE HeadersRight(manifest, Files[source], resident)
    <3>1. /\ tool = "parse" /\ tool' = "compare" /\ manifest' = manifest
          /\ job'.info = source /\ job'.picked = job.picked
          /\ manifest.whole /\ job.picked \subseteq DOMAIN manifest.groups
      BY <1>0, <1>3, <2>1 DEF ReadHeaders, files, Progress, Jobs
    <3>2. source # 0
      BY <1>0, PackDirAssumption
    <3>3. QED
      BY <3>1, <3>2 DEF Progress, Repacking
  <2>2. CASE ~HeadersRight(manifest, Files[source], resident)
    BY <1>3, <2>2, Ended, AtRest DEF ReadHeaders
  <2>3. QED
    BY <2>1, <2>2
<1>4. CASE Compare
  <2>1. job'.info = 0 /\ tool' \in {"idle", "serve"}
    BY <1>4, Ended DEF Compare, NoJob
  <2>2. QED
    BY <2>1, AtRest DEF Repacking
<1>5. \A picked \in {Groups} \cup {{i} : i \in Groups} : picked \subseteq Groups
  OBVIOUS
<1>6. QED
  BY <1>1, <1>2, <1>3, <1>4, <1>5 DEF Verifier

\* So does the launcher.
LEMMA LauncherProgress == Progress /\ Launcher => Progress'
<1> SUFFICES ASSUME Progress, Launcher PROVE Progress'
  OBVIOUS
<1>1. CASE UseExistingPack
  <2>1. job'.info = 0 /\ tool' = "serve"
    BY <1>1 DEF UseExistingPack, Progress, Repacking
  <2>2. QED
    BY <2>1, AtRest DEF Repacking
<1>2. CASE Serve
  <2>1. job'.info = 0 /\ tool' = "serving"
    BY <1>2 DEF Serve, Progress, Repacking
  <2>2. QED
    BY <2>1, AtRest DEF Repacking
<1>3. CASE StopServing
  BY <1>3, Ended, AtRest DEF StopServing
<1>4. QED
  BY <1>1, <1>2, <1>3 DEF Launcher

\* So do faults.
LEMMA FaultsProgress == Typed /\ Progress /\ Faults => Progress'
<1> SUFFICES ASSUME Typed, Progress, Faults PROVE Progress'
  OBVIOUS
<1>1. CASE ReplaceSource
  <2>1. history'.last = history.last /\ history'.stale = history.stale
    BY <1>1, FaultTyped DEF ReplaceSource, Typed
  <2>2. UNCHANGED <<pack, resident, manifest, tool, job, groups, off>>
    BY <1>1 DEF ReplaceSource, plan
  <2>3. Repacking' <=> Repacking
    BY <2>2 DEF Repacking
  <2>4. QED
    BY <2>1, <2>2, <2>3, GoesOn DEF Progress, Repackable
<1>2. CASE KillRepack
  BY <1>2, Ended, AtRest DEF KillRepack
<1>3. CASE KillVerify
  BY <1>3, Ended, AtRest DEF KillVerify
<1>4. CASE FlipByte
  <2>1. job'.info = 0 /\ tool' = "idle"
    BY <1>4 DEF FlipByte, Progress, Repacking
  <2>2. QED
    BY <2>1, AtRest DEF Repacking
<1>5. QED
  BY <1>1, <1>2, <1>3, <1>4 DEF Faults

\* Every step keeps the progress right.
LEMMA ProgressStep == Typed /\ Progress /\ [Next]_vars => Progress'
<1> SUFFICES ASSUME Typed, Progress, [Next]_vars PROVE Progress'
  OBVIOUS
<1>1. CASE UNCHANGED vars
  <2>1. UNCHANGED <<pack, resident, manifest, tool, job, groups, off, history>>
    BY <1>1 DEF vars, files, plan
  <2>2. Repacking' <=> Repacking
    BY <2>1 DEF Repacking
  <2>3. QED
    BY <2>1, <2>2, GoesOn DEF Progress, Repackable
<1>2. QED
  BY <1>1, RepackerProgress, VerifierProgress, LauncherProgress, FaultsProgress DEF Next

\* A step that leaves the manifest, or leaves none that is whole.
LEMMA ManifestKept ==
  ASSUME ManifestOK, manifest' = manifest \/ ~manifest'.whole
  PROVE  ManifestOK'
<1>1. CASE manifest' = manifest
  BY <1>1 DEF ManifestOK, MadeFor, FullPlan, PlanOf, Position, Repackable
<1>2. CASE ~manifest'.whole
  BY <1>2 DEF ManifestOK
<1>3. QED
  BY <1>1, <1>2

\* The manifest that is written is that of the plan.
LEMMA ManifestIs ==
  ASSUME Progress, WriteManifest
  PROVE  /\ manifest'.whole
         /\ manifest'.pack_file_bytes = off
         /\ manifest'.groups = groups
         /\ Repackable(Info)
         /\ MadeFor(manifest', Info)
<1>1. manifest' = Manifest(Info, job.sha, groups, off)
  BY DEF WriteManifest
<1>2. /\ manifest'.whole /\ manifest'.groups = groups /\ manifest'.pack_file_bytes = off
      /\ manifest'.sha256 = job.sha
  BY <1>1 DEF Manifest
<1>3. FullPlan(Info, groups, off) /\ Repackable(Info)
  BY DEF WriteManifest, Progress, Repacking
<1>4. QED
  BY <1>1, <1>2, <1>3 DEF MadeFor

\* Every manifest was made from a full plan of a file that was let through.
LEMMA ManifestStep == Typed /\ Progress /\ ManifestOK /\ [Next]_vars => ManifestOK'
<1> SUFFICES ASSUME Typed, Progress, ManifestOK, [Next]_vars PROVE ManifestOK'
  OBVIOUS
<1>1. CASE WriteManifest
  <2>1. manifest'.whole /\ Repackable(Info) /\ MadeFor(manifest', Info)
    BY <1>1, ManifestIs
  <2>2. job.info \in DOMAIN Files
    BY <1>1, SourcesTyped DEF WriteManifest, Repacking
  <2>3. QED
    BY <2>1, <2>2 DEF ManifestOK, Info, MadeFor, FullPlan, PlanOf, Position, Repackable
<1>2. CASE ~WriteManifest
  <2>1. manifest' = manifest \/ ~manifest'.whole
    <3>1. CASE KillRepack
      <4>1. [whole |-> FALSE, torn |-> TRUE].whole = FALSE
        OBVIOUS
      <4>2. QED
        BY <3>1, <4>1 DEF KillRepack
    <3>2. CASE UNCHANGED vars
      BY <3>2 DEF vars, files
    <3>3. CASE Repacker
      BY <1>2, <3>3 DEF Repacker, StartRepack, PlanExtent, HashSource, OpenSource, WriteExtent,
                        WriteResident, CopyEndsEarly, files
    <3>4. CASE Verifier
      BY <3>4 DEF Verifier, CheckSize, CheckHash, ReadHeaders, Compare, files
    <3>5. CASE Launcher
      BY <3>5 DEF Launcher, UseExistingPack, Serve, StopServing, files
    <3>6. CASE ReplaceSource \/ KillVerify \/ FlipByte
      BY <3>6 DEF ReplaceSource, KillVerify, FlipByte, files
    <3>7. QED
      BY <3>1, <3>2, <3>3, <3>4, <3>5, <3>6 DEF Next, Faults
  <2>2. QED
    BY <2>1, ManifestKept
<1>3. QED
  BY <1>1, <1>2

\* The extents that are exported are the plan's: inside the pack if it has the length that
\* the manifest gives.
LEMMA ExportedInside ==
  ASSUME ManifestOK, ExtentsApart, manifest.whole, Len(pack) = manifest.pack_file_bytes
  PROVE  \A e \in ToSet(ExtentTable(manifest)) : InRange(pack, e[1], e[2])
<1>1. PICK f : MadeFor(manifest, f)
  BY DEF ManifestOK
<1>2. manifest.groups \in Seq(GroupRecords)
  BY <1>1 DEF MadeFor, FullPlan, PlanOf
<1>3. TAKE e \in ToSet(ExtentTable(manifest))
<1>4. PICK i \in DOMAIN manifest.groups :
        e = <<manifest.groups[i].offset, manifest.layers[manifest.groups[i].layer].group_stride>>
  BY DEF ExtentTable, ToSet
<1>5. ExtentEnd(manifest.groups, manifest.layers, i) <= manifest.pack_file_bytes
  BY DEF ExtentsApart, Apart
<1>6. QED
  BY <1>4, <1>5 DEF ExtentEnd, InRange

\* The part of ManifestMeansPack that steps keep.
Finished ==
  manifest.whole /\ ~history.stale => Len(pack) = manifest.pack_file_bytes /\ resident # NoGguf

\* For such a manifest the lengths are all there is to know.
LEMMA FinishedIs == ManifestOK /\ ExtentsApart => (Finished <=> ManifestMeansPack)
  BY ExportedInside DEF Finished, ManifestMeansPack

\* A manifest appears when its pack is finished; the next repack makes it stale.
LEMMA FinishedStep == Typed /\ Progress /\ Finished /\ [Next]_vars => Finished'
<1> SUFFICES ASSUME Typed, Progress, Finished, [Next]_vars PROVE Finished'
  OBVIOUS
<1>1. ASSUME UNCHANGED <<pack, resident, manifest>>, history'.stale = history.stale
      PROVE  Finished'
  BY <1>1 DEF Finished
<1>2. CASE Repacker
  <2>1. ASSUME NEW by, NEW hash, StartRepack(by, hash)
        PROVE  Finished'
    <3>1. history'.stale = history.stale
      BY <2>1 DEF StartRepack, Typed, Histories
    <3>2. QED
      BY <1>1, <2>1, <3>1 DEF StartRepack, files
  <2>2. CASE PlanExtent \/ HashSource
    BY <1>1, <2>2 DEF PlanExtent, HashSource, files
  <2>3. CASE OpenSource \/ WriteExtent \/ WriteResident
    <3>1. manifest.whole => history.stale \/ OpenSource
      BY <2>3 DEF WriteExtent, WriteResident, Progress
    <3>2. manifest' = manifest
      BY <2>3 DEF OpenSource, WriteExtent, WriteResident
    <3>3. OpenSource => history'.stale = Exists(manifest)
      BY DEF OpenSource, Typed, Histories
    <3>4. ~OpenSource => history'.stale = history.stale
      BY <2>3 DEF WriteExtent, WriteResident
    <3>5. manifest.whole => Exists(manifest)
      <4>1. NoManifest.whole = FALSE
        BY DEF NoManifest
      <4>2. QED
        BY <4>1 DEF Exists
    <3>6. QED
      BY <3>1, <3>2, <3>3, <3>4, <3>5 DEF Finished
  <2>4. CASE WriteManifest
    <3>1. manifest'.pack_file_bytes = off
      BY <2>4, ManifestIs
    <3>2. Len(pack) = off /\ resident # NoGguf /\ UNCHANGED <<pack, resident>>
      BY <2>4 DEF WriteManifest, Progress
    <3>3. QED
      BY <3>1, <3>2 DEF Finished
  <2>5. CASE CopyEndsEarly
    <3>1. manifest.whole => history.stale
      BY <2>5 DEF CopyEndsEarly, Progress
    <3>2. QED
      BY <2>5, <3>1 DEF CopyEndsEarly, Finished
  <2>6. QED
    BY <1>2, <2>1, <2>2, <2>3, <2>4, <2>5 DEF Repacker
<1>3. CASE Verifier
  <2>1. history'.stale = history.stale
    <3>1. ASSUME NEW by, NEW quick, NEW picked, CheckSize(by, quick, picked)
          PROVE  history'.stale = history.stale
      BY <3>1, FailsTyped DEF CheckSize, Typed
    <3>2. CASE CheckHash \/ ReadHeaders
      BY <3>2, FailsTyped DEF CheckHash, ReadHeaders, Typed
    <3>3. CASE Compare
      BY <3>3, FailsTyped DEF Compare, Typed, Histories
    <3>4. QED
      BY <1>3, <3>1, <3>2, <3>3 DEF Verifier
  <2>2. QED
    BY <1>1, <1>3, <2>1 DEF Verifier, CheckSize, CheckHash, ReadHeaders, Compare, files
<1>4. CASE Launcher
  BY <1>1, <1>4 DEF Launcher, UseExistingPack, Serve, StopServing, files
<1>5. CASE ReplaceSource \/ KillVerify
  <2>1. history'.stale = history.stale
    BY <1>5, FaultTyped DEF ReplaceSource, KillVerify, Typed
  <2>2. QED
    BY <1>1, <1>5, <2>1 DEF ReplaceSource, KillVerify, files
<1>6. CASE KillRepack
  <2>1. history'.stale = history.stale
    BY <1>6, FaultTyped DEF KillRepack, Typed
  <2>2. CASE tool \in {"pack", "manifest"}
    <3>1. manifest.whole => history.stale
      BY <2>2 DEF Progress
    <3>2. manifest' = manifest \/ ~manifest'.whole
      <4>1. [whole |-> FALSE, torn |-> TRUE].whole = FALSE
        OBVIOUS
      <4>2. QED
        BY <1>6, <4>1 DEF KillRepack
    <3>3. QED
      BY <2>1, <3>1, <3>2 DEF Finished
  <2>3. CASE tool \notin {"pack", "manifest"}
    BY <1>1, <1>6, <2>1, <2>3 DEF KillRepack
  <2>4. QED
    BY <2>2, <2>3
<1>7. CASE FlipByte
  <2>1. history'.stale = history.stale /\ manifest' = manifest
    <3>1. [history EXCEPT !.last = Unverified] \in Histories
          /\ [history EXCEPT !.last = Unverified].stale = history.stale
      BY DEF Histories, Unverified, Ids, Typed
    <3>2. QED
      BY <1>7, <3>1, FaultTyped DEF FlipByte, Typed
  <2>2. QED
    BY <1>7, <2>1, BytesFlip DEF Finished
<1>8. CASE UNCHANGED vars
  BY <1>1, <1>8 DEF vars, files
<1>9. QED
  BY <1>2, <1>3, <1>4, <1>5, <1>6, <1>7, <1>8 DEF Next, Faults

-----------------------------------------------------------------------------
(* The invariant, and what follows from it.                                *)

Inv == PlanInv /\ Typed /\ Progress /\ ManifestOK /\ ManifestMeansPack

\* The inductive invariant.
LEMMA InvHolds == Spec => []Inv
<1>1. Init => Inv
  BY PlanInit, TypedInit DEF Inv
<1>2. Inv /\ [Next]_vars => Inv'
  <2> SUFFICES ASSUME Inv, [Next]_vars PROVE Inv'
    OBVIOUS
  <2>1. PlanInv' /\ Typed' /\ Progress' /\ ManifestOK'
    BY PlanStep, TypedStep, ProgressStep, ManifestStep DEF Inv
  <2>2. Finished'
    BY FinishedIs, FinishedStep DEF Inv, PlanInv
  <2>3. ManifestMeansPack'
    BY <2>1, <2>2, FinishedIs, PTL DEF PlanInv
  <2>4. QED
    BY <2>1, <2>3 DEF Inv
<1>3. QED
  BY <1>1, <1>2, PTL DEF Spec

\* For every set of source files and every bound: the variables keep their shape, and a
\* job names a file to repack as long as the repacker runs.
THEOREM PackTypeOKTheorem == Spec => []PackTypeOK
<1>1. Inv => PackTypeOK
  <2> SUFFICES ASSUME Typed, Progress PROVE PackTypeOK
    BY DEF Inv
  <2>1. \A i \in DOMAIN pack : pack[i] \in Int
    BY DEF Typed
  <2>2. DOMAIN resident = DOMAIN NoGguf
    BY DEF Typed, IsFile, NoGguf
  <2>3. DOMAIN job = DOMAIN NoJob
    BY DEF Typed, Jobs, NoJob
  <2>4. history.faults \in 0 .. MaxFaults
    BY DEF Typed, Histories
  <2>5. QED
    BY <2>1, <2>2, <2>3, <2>4 DEF PackTypeOK, Typed, Progress
<1>2. QED
  BY <1>1, InvHolds, PTL

\* For every file, alignment, header size and fault: a manifest that is not an earlier
\* run's is of a finished pack, which has the length it gives and holds every extent that
\* is exported for the I/O bench; and the resident file is there (repack_gguf.main writes
\* the manifest last).
THEOREM ManifestMeansPackTheorem == Spec => []ManifestMeansPack
<1>1. Inv => ManifestMeansPack
  BY DEF Inv
<1>2. QED
  BY <1>1, InvHolds, PTL

\* Where the plan is after i extents: all experts of the layers it has gone through, and
\* some of the next.
Planned(f, sum, i) ==
  LET n == NExpert(f)
  IN  (n * sum[i \div n]) + (IF i % n = 0 THEN 0 ELSE (i % n) * Strides(f)[(i \div n) + 1])

\* The planner's strides are those of the layers, in their order.
LEMMA StridesAre ==
  ASSUME NEW f, Plannable(f)
  PROVE  /\ Strides(f) \in Seq(Nat) /\ Len(Strides(f)) = Len(MoeLayers(f))
         /\ Len(MoeLayers(f)) \in Nat /\ NExpert(f) \in Nat \ {0}
         /\ paged_bytes(f) = SumOf(Strides(f)) * NExpert(f)
<1>1. Strides(f) \in Seq(Nat) /\ paged_bytes(f) = SumOf(Strides(f)) * NExpert(f)
  BY PagedBytesAre
<1>2. MoeLayers(f) \in Seq(Nat) /\ NExpert(f) \in Nat \ {0}
  BY TensorsTyped, MoeLayersAre, SomeExpert DEF Plannable, IsGguf
<1>3. Len(MoeLayers(f)) \in Nat
  BY <1>2
<1>4. DOMAIN Strides(f) = 1 .. Len(MoeLayers(f))
  BY DEF Strides
<1>5. Len(Strides(f)) = Len(MoeLayers(f))
  BY ONLY <1>1, <1>3, <1>4
<1>6. QED
  BY <1>1, <1>2, <1>3, <1>5

\* Where the plan puts an extent is the sum of the strides before it.
LEMMA PlanPositions ==
  ASSUME NEW f, Plannable(f), NEW gs, NEW end, PlanOf(f, gs, end), NEW sum, Sums(sum, Strides(f))
  PROVE  \A i \in 0 .. Len(gs) : Position(gs, end, i + 1) = PACK_HEADER_BYTES + Planned(f, sum, i)
<1> DEFINE n == NExpert(f)
           m == Len(MoeLayers(f))
           s == Strides(f)
           N == Len(gs)
<1>1. /\ MoeLayers(f) \in Seq(Nat) /\ m \in Nat
      /\ \A j \in 1 .. m : MoeLayers(f)[j] \in ToSet(MoeLayers(f))
  BY TensorsTyped, MoeLayersAre, Elements DEF Plannable, IsGguf
<1>2. n \in Nat \ {0} /\ s \in Seq(Nat) /\ Len(s) = m
  BY StridesAre
<1>3. gs \in Seq(GroupRecords) /\ N \in Nat /\ N <= m * n
  BY DEF PlanOf, NGroups
<1>4. /\ sum \in [0 .. m -> Nat]
      /\ sum[0] = 0
      /\ \A j \in 1 .. m : sum[j] = sum[j - 1] + s[j]
  BY <1>2 DEF Sums
<1> DEFINE pos(i) == Position(gs, end, i + 1)
           P == {i \in Nat : i <= N => pos(i) = PACK_HEADER_BYTES + Planned(f, sum, i)}
<1>5. 0 \in P
  <2>1. 0 \div n = 0 /\ 0 % n = 0
    <3>1. 0 = (n * 0) + 0 /\ 0 \in 0 .. n - 1
      BY <1>2
    <3>2. QED
      BY ONLY <1>2, <3>1, QuotientIs
  <2>2. Planned(f, sum, 0) = 0
    BY <1>2, <1>4, <2>1 DEF Planned
  <2>3. pos(0) = PACK_HEADER_BYTES
    BY DEF PlanOf
  <2>4. QED
    BY <2>2, <2>3, RepackAssumption
<1>6. ASSUME NEW i \in Nat, i \in P
      PROVE  i + 1 \in P
  <2>1. SUFFICES ASSUME i + 1 <= N PROVE pos(i + 1) = PACK_HEADER_BYTES + Planned(f, sum, i + 1)
    OBVIOUS
  <2>2. i + 1 \in 1 .. N /\ i <= N /\ i < m * n
    BY <1>1, <1>2, <1>3, <2>1
  <2>3. pos(i) = PACK_HEADER_BYTES + Planned(f, sum, i)
    BY <1>6, <2>2
  <2> DEFINE q == i \div n
             r == i % n
             g == gs[i + 1]
  <2>4. q \in 0 .. m - 1 /\ r \in 0 .. n - 1
    <3>1. q \in 0 .. m - 1
      BY ONLY <1>1, <1>2, <2>2, i \in Nat, RowBound
    <3>2. r \in 0 .. n - 1
      <4>1. i \in Int
        OBVIOUS
      <4>2. QED
        BY ONLY <1>2, <4>1, Division
    <3>3. QED
      BY <3>1, <3>2
  <2>5. pos(i + 1) = g.offset + Layers(f)[g.layer].group_stride /\ pos(i) = g.offset
    BY <1>3, <2>2 DEF PlanOf, Position
  <2>6. g.layer = MoeLayers(f)[q + 1]
    <3>1. g = GroupAt(f, i + 1, g.offset) /\ (i + 1) - 1 = i
      BY <2>2 DEF PlanOf
    <3>2. QED
      BY <3>1 DEF GroupAt
  <2> HIDE DEF q, r, g
  <2>7. Layers(f)[g.layer].group_stride = s[q + 1] /\ q + 1 \in 1 .. m
    BY <1>1, <2>4, <2>6 DEF Strides
  <2>8. Planned(f, sum, i) = (n * sum[q]) + (IF r = 0 THEN 0 ELSE r * s[q + 1])
    BY DEF Planned, q, r
  <2> DEFINE a == sum[q]
             b == s[q + 1]
             h == PACK_HEADER_BYTES
  <2>9. a \in Nat /\ b \in Nat /\ h \in Nat
    <3>1. a \in Nat
      <4>1. q \in 0 .. m
        BY <1>2, <2>4
      <4>2. QED
        BY ONLY <1>4, <4>1
    <3>2. b \in Nat
      BY ONLY <1>2, <2>7
    <3>3. QED
      BY <3>1, <3>2, RepackAssumption
  <2>10. sum[q + 1] = a + b
    <3>1. (q + 1) - 1 = q
      BY <2>4
    <3>2. QED
      BY <1>4, <2>7, <3>1
  <2>11. pos(i) = h + (n * a) + (r * b)
    <3>1. pos(i) = h + ((n * a) + (IF r = 0 THEN 0 ELSE r * b))
      BY <2>3, <2>8
    <3> HIDE DEF a, b, h, n, pos
    <3>2. r = 0 => r * b = 0
      BY <2>9
    <3>3. n * a \in Nat /\ r * b \in Nat /\ h \in Nat
      BY <1>2, <2>4, <2>9
    <3>4. QED
      BY ONLY <3>1, <3>2, <3>3
  <2>12. pos(i + 1) = h + (n * a) + (r * b) + b
    BY <2>5, <2>7, <2>11
  <2>13. CASE r + 1 < n
    <3>1. (i + 1) \div n = q /\ (i + 1) % n = r + 1
      BY <1>2, <2>13, NextInRow DEF q, r
    <3>2. Planned(f, sum, i + 1) = (n * a) + ((r + 1) * b)
      <4>1. r + 1 # 0
        BY <2>4
      <4>2. QED
        BY <3>1, <4>1 DEF Planned
    <3> HIDE DEF a, b, h, n, pos
    <3>3. (r + 1) * b = (r * b) + b
      BY <2>4, <2>9
    <3>4. n * a \in Nat /\ r * b \in Nat
      BY <1>2, <2>4, <2>9
    <3>5. pos(i + 1) = h + Planned(f, sum, i + 1)
      BY ONLY <2>9, <2>12, <3>2, <3>3, <3>4
    <3>6. QED
      BY <3>5 DEF h, pos
  <2>14. CASE r + 1 >= n
    <3>1. (i + 1) \div n = q + 1 /\ (i + 1) % n = 0 /\ r + 1 = n
      BY <1>2, <2>14, NextInRow DEF q, r
    <3>2. Planned(f, sum, i + 1) = n * (a + b)
      <4>1. Planned(f, sum, i + 1) = (n * (a + b)) + 0
        BY <2>10, <3>1 DEF Planned
      <4>2. n * (a + b) \in Nat
        BY <1>2, <2>9
      <4>3. QED
        BY <4>1, <4>2
    <3> HIDE DEF a, b, h, n, pos
    <3>3. n * (a + b) = (n * a) + (n * b)
      BY <1>2, <2>9
    <3>4. n * b = (r * b) + b
      BY <2>4, <2>9, <3>1
    <3>5. n * a \in Nat /\ r * b \in Nat
      BY <1>2, <2>4, <2>9
    <3>6. pos(i + 1) = h + Planned(f, sum, i + 1)
      BY ONLY <2>9, <2>12, <3>2, <3>3, <3>4, <3>5
    <3>7. QED
      BY <3>6 DEF h, pos
  <2>15. QED
    BY <1>2, <2>4, <2>13, <2>14
<1>7. QED
  <2> HIDE DEF P
  <2>1. Nat \subseteq P
    BY ONLY <1>5, <1>6, SetInduction
  <2>2. ASSUME NEW i \in 0 .. Len(gs)
        PROVE  pos(i) = PACK_HEADER_BYTES + Planned(f, sum, i)
    <3>1. i \in P /\ i <= N
      BY <1>3, <2>1
    <3>2. QED
      BY <3>1 DEF P
  <2>3. QED
    BY <2>2

\* A full plan comes to what the planner takes for the store.
LEMMA PlanIsPagedBytes ==
  ASSUME NEW f, Plannable(f), NEW gs, NEW end, FullPlan(f, gs, end)
  PROVE  end - PACK_HEADER_BYTES = paged_bytes(f)
<1> DEFINE n == NExpert(f)
           m == Len(MoeLayers(f))
           s == Strides(f)
<1>1. m \in Nat /\ n \in Nat \ {0} /\ s \in Seq(Nat) /\ Len(s) = m
      /\ paged_bytes(f) = SumOf(s) * n
  BY StridesAre
<1>2. PICK sum : Sums(sum, s)
  BY <1>1, SumIsRecursion
<1>3. sum[m] \in Nat /\ SumOf(s) = sum[m]
  BY <1>1, <1>2 DEF Sums
<1>4. PlanOf(f, gs, end) /\ Len(gs) = m * n /\ end \in Nat /\ Len(gs) \in Nat
  BY DEF FullPlan, PlanOf, NGroups
<1>5. Position(gs, end, Len(gs) + 1) = PACK_HEADER_BYTES + Planned(f, sum, Len(gs))
  BY <1>2, <1>4, PlanPositions
<1>6. Position(gs, end, Len(gs) + 1) = end
  BY <1>4 DEF Position
<1>7. Len(gs) \div n = m /\ Len(gs) % n = 0
  <2>1. Len(gs) = (n * m) + 0 /\ 0 \in 0 .. n - 1
    BY <1>1, <1>4
  <2>2. QED
    BY ONLY <1>1, <1>4, <2>1, QuotientIs
<1>8. Planned(f, sum, Len(gs)) = n * sum[m]
  <2>1. Planned(f, sum, Len(gs)) = (n * sum[m]) + 0
    BY <1>7 DEF Planned
  <2>2. n * sum[m] \in Nat
    BY <1>1, <1>3
  <2>3. QED
    BY <2>1, <2>2
<1> DEFINE S == sum[m]
<1>9. n * S = S * n /\ n * S \in Nat
  BY <1>1, <1>3
<1>10. paged_bytes(f) = n * S
  BY <1>1, <1>3, <1>9
<1>11. end = PACK_HEADER_BYTES + n * S /\ end \in Nat /\ PACK_HEADER_BYTES \in Nat
  BY <1>4, <1>5, <1>6, <1>8, RepackAssumption
<1> DEFINE x == n * S
<1> HIDE DEF x
<1>12. x \in Nat /\ paged_bytes(f) = x /\ end = PACK_HEADER_BYTES + x
  BY <1>9, <1>10, <1>11 DEF x
<1>13. QED
  BY ONLY <1>11, <1>12

\* For every file and every place the writer can be at: the three counts of the pack's
\* bytes are one (write_pack's own assertion, repack_gguf:144, never fails; plan.py takes
\* the size of the store that the repacker makes).
THEOREM CountsAgreeTheorem == Spec => []CountsAgree
<1>1. Inv => CountsAgree
  <2> SUFFICES ASSUME Typed, Progress PROVE CountsAgree
    BY DEF Inv
  <2>1. tool = "pack" => Len(pack) = IF job.next <= Len(groups) THEN groups[job.next].offset ELSE off
    BY DEF Progress, Position
  <2>2. ASSUME tool = "open"
        PROVE  off - PACK_HEADER_BYTES = paged_bytes(Info)
    <3>1. Repacking /\ FullPlan(Info, groups, off)
      BY <2>2 DEF Repacking, Progress
    <3>2. QED
      BY <3>1, SourcesTyped, PlanIsPagedBytes
  <2>3. QED
    BY <2>1, <2>2 DEF CountsAgree
<1>2. QED
  BY <1>1, InvHolds, PTL

-----------------------------------------------------------------------------
(* What a verification that passed means.                                  *)

\* The verdict is of the files as they are.
Passed ==
  history.last.verdict = "pass" =>
    /\ manifest.whole
    /\ history.last.info \in DOMAIN Files /\ history.last.of \in DOMAIN Files
    /\ history.last.picked \subseteq DOMAIN manifest.groups
    /\ HeadersRight(manifest, Files[history.last.info], resident)
    /\ BytesSame(manifest, Files[history.last.info], Files[history.last.of], resident, pack,
                 history.last.picked)

\* The verifier goes on only with a header that it has found right.
HeadersRead ==
  tool = "compare" => job.info \in DOMAIN Files /\ HeadersRight(manifest, Info, resident)

\* While nothing has gone wrong, the source is the file that was planned, hashed and copied,
\* and the one whose header the verifier has read.
HonestOK ==
  history.honest =>
    IF Repacking
    THEN job.info = source /\ (tool \in {"pack", "manifest"} => job.src_f = source)
    ELSE /\ manifest.whole
         /\ Repackable(Files[source])
         /\ MadeFor(manifest, Files[source])
         /\ tool = "compare" => job.info = source
         /\ history.last.verdict = "pass" => history.last.info = source /\ history.last.of = source

\* A verdict is kept with the files it is about.
LEMMA PassedKept ==
  ASSUME Passed, UNCHANGED <<pack, resident, manifest>>, history'.last = history.last
  PROVE  Passed'
  BY DEF Passed, HeadersRight, BytesSame, Accounted, PagedNames, PackFileRight, ExtentSame, ResidentSame

\* A header that is right stays so as long as the verifier has it.
LEMMA HeadersKept ==
  ASSUME HeadersRead, tool' = "compare" => tool = "compare" /\ UNCHANGED <<job, resident, manifest>>
  PROVE  HeadersRead'
<1>1. SUFFICES ASSUME tool' = "compare" PROVE HeadersRead'
  BY DEF HeadersRead
<1>2. tool = "compare" /\ UNCHANGED <<job, resident, manifest>>
  BY <1>1
<1>3. job'.info \in DOMAIN Files /\ HeadersRight(manifest', Files[job'.info], resident')
  BY <1>2 DEF HeadersRead, Info
<1>4. HeadersRight(manifest, Info, resident)' <=> HeadersRight(manifest', Files[job'.info], resident')
  BY DEF HeadersRight, Accounted, PagedNames, Info
<1>5. QED
  BY <1>3, <1>4 DEF HeadersRead

\* Only ReadHeaders lets the verifier go on to the bytes.
LEMMA HeadersStep == Typed /\ HeadersRead /\ [Next]_vars => HeadersRead'
<1> SUFFICES ASSUME Typed, HeadersRead, [Next]_vars PROVE HeadersRead'
  OBVIOUS
<1>1. CASE ReadHeaders
  <2>1. CASE HeadersRight(manifest, Files[source], resident)
    <3>1. job' = [job EXCEPT !.info = source] /\ UNCHANGED <<resident, manifest>>
      BY <1>1, <2>1 DEF ReadHeaders, files
    <3>2. job'.info = source /\ source \in DOMAIN Files
      BY <3>1 DEF Typed, Jobs
    <3>3. HeadersRight(manifest', Files[job'.info], resident')
      BY <2>1, <3>1, <3>2
    <3>4. HeadersRight(manifest, Info, resident)' <=> HeadersRight(manifest', Files[job'.info], resident')
      BY DEF HeadersRight, Accounted, PagedNames, Info
    <3>5. QED
      BY <3>2, <3>3, <3>4 DEF HeadersRead
  <2>2. CASE ~HeadersRight(manifest, Files[source], resident)
    BY <1>1, <2>2, Ended DEF ReadHeaders, HeadersRead
  <2>3. QED
    BY <2>1, <2>2
<1>2. CASE Repacker
  <2>1. tool' # "compare"
    BY <1>2, Ended DEF Repacker, StartRepack, PlanExtent, HashSource, OpenSource, WriteExtent,
      WriteResident, WriteManifest, CopyEndsEarly
  <2>2. QED
    BY <2>1 DEF HeadersRead
<1>3. ASSUME NEW by, NEW quick, NEW picked, CheckSize(by, quick, picked)
      PROVE  HeadersRead'
  <2>1. tool' # "compare"
    BY <1>3, Ended DEF CheckSize
  <2>2. QED
    BY <2>1 DEF HeadersRead
<1>4. CASE CheckHash \/ Compare
  <2>1. tool' # "compare"
    BY <1>4, Ended DEF CheckHash, Compare
  <2>2. QED
    BY <2>1 DEF HeadersRead
<1>5. CASE Launcher
  <2>1. tool' # "compare"
    BY <1>5, Ended DEF Launcher, UseExistingPack, Serve, StopServing
  <2>2. QED
    BY <2>1 DEF HeadersRead
<1>6. CASE ReplaceSource
  BY <1>6, HeadersKept DEF ReplaceSource
<1>7. CASE KillRepack \/ KillVerify \/ FlipByte
  <2>1. tool' # "compare"
    BY <1>7, Ended DEF KillRepack, KillVerify, FlipByte
  <2>2. QED
    BY <2>1 DEF HeadersRead
<1>8. CASE UNCHANGED vars
  BY <1>8, HeadersKept DEF vars, files
<1>9. QED
  BY <1>1, <1>2, <1>3, <1>4, <1>5, <1>6, <1>7, <1>8 DEF Next, Verifier, Faults

\* No other verdict means anything.
LEMMA NotPassed ==
  ASSUME history'.last.verdict # "pass"
  PROVE  Passed'
  BY DEF Passed

\* Every step keeps what a pass means.
LEMMA PassedStep == Typed /\ Progress /\ HeadersRead /\ Passed /\ [Next]_vars => Passed'
<1> SUFFICES ASSUME Typed, Progress, HeadersRead, Passed, [Next]_vars PROVE Passed'
  OBVIOUS
<1>0. history \in Histories
  BY DEF Typed
<1>1. CASE Repacking
  <2>1. history.last.verdict = "none"
    BY <1>1 DEF Progress
  <2>2. history'.last = history.last
    <3>1. CASE Repacker
      BY <1>0, <1>1, <3>1 DEF Repacker, StartRepack, PlanExtent, HashSource, OpenSource, WriteExtent,
        WriteResident, WriteManifest, CopyEndsEarly, Repacking, Histories
    <3>2. CASE Verifier
      BY <1>1, <3>2 DEF Verifier, CheckSize, CheckHash, ReadHeaders, Compare, Repacking
    <3>3. CASE Launcher
      BY <1>1, <3>3 DEF Launcher, UseExistingPack, Serve, StopServing, Repacking
    <3>4. CASE ReplaceSource \/ KillRepack \/ KillVerify
      BY <1>0, <3>4, FaultTyped DEF ReplaceSource, KillRepack, KillVerify
    <3>5. CASE FlipByte
      BY <1>1, <3>5 DEF FlipByte, Repacking
    <3>6. CASE UNCHANGED vars
      BY <3>6 DEF vars
    <3>7. QED
      BY <3>1, <3>2, <3>3, <3>4, <3>5, <3>6 DEF Next, Faults
  <2>3. QED
    BY <2>1, <2>2, NotPassed
<1>2. CASE ~Repacking
  <2>1. ASSUME NEW by, NEW hash, StartRepack(by, hash)
        PROVE  Passed'
    <3>1. history'.last = Unverified
      BY <1>0, <2>1 DEF StartRepack, Histories
    <3>2. QED
      BY <3>1, NotPassed DEF Unverified
  <2>2. CASE Repacker
    BY <1>2, <2>1, <2>2 DEF Repacker, PlanExtent, HashSource, OpenSource, WriteExtent,
      WriteResident, WriteManifest, CopyEndsEarly, Repacking
  <2>3. ASSUME NEW by, NEW quick, NEW picked, CheckSize(by, quick, picked) \/ CheckHash \/ ReadHeaders
        PROVE  Passed'
    <3>1. history' = history \/ history'.last.verdict = "fail"
      BY <1>0, <2>3, FailsTyped DEF CheckSize, CheckHash, ReadHeaders
    <3>2. UNCHANGED <<pack, resident, manifest>>
      BY <2>3 DEF CheckSize, CheckHash, ReadHeaders, files
    <3>3. QED
      BY <3>1, <3>2, PassedKept, NotPassed
  <2>4. CASE Compare
    <3>1. CASE BytesSame(manifest, Info, Files[source], resident, pack, job.picked)
      <4>1. history'.last = [verdict |-> "pass", info |-> job.info, of |-> source, picked |-> job.picked]
            /\ UNCHANGED <<pack, resident, manifest>>
        BY <1>0, <2>4, <3>1 DEF Compare, Histories, files
      <4>2. /\ manifest.whole /\ job.picked \subseteq DOMAIN manifest.groups /\ source \in DOMAIN Files
            /\ job.info \in DOMAIN Files /\ HeadersRight(manifest, Files[job.info], resident)
        BY <2>4 DEF Compare, Progress, Typed, HeadersRead, Info
      <4>3. history'.last.info = job.info /\ history'.last.of = source /\ history'.last.picked = job.picked
        BY <4>1
      <4>4. BytesSame(manifest, Files[job.info], Files[source], resident, pack, job.picked)
        BY <3>1 DEF Info
      <4>5. QED
        BY <4>1, <4>2, <4>3, <4>4 DEF Passed, HeadersRight, BytesSame, Accounted, PagedNames, PackFileRight,
          ExtentSame, ResidentSame
    <3>2. CASE ~BytesSame(manifest, Info, Files[source], resident, pack, job.picked)
      BY <1>0, <2>4, <3>2, FailsTyped, NotPassed DEF Compare
    <3>3. QED
      BY <3>1, <3>2
  <2>5. CASE Launcher
    BY <2>5, PassedKept DEF Launcher, UseExistingPack, Serve, StopServing, files
  <2>6. CASE ReplaceSource \/ KillVerify
    <3>1. history'.last = history.last
      BY <1>0, <2>6, FaultTyped DEF ReplaceSource, KillVerify
    <3>2. QED
      BY <2>6, <3>1, PassedKept DEF ReplaceSource, KillVerify, files
  <2>7. CASE KillRepack
    BY <1>2, <2>7 DEF KillRepack
  <2>8. CASE FlipByte
    <3>1. [history EXCEPT !.last = Unverified] \in Histories
          /\ [history EXCEPT !.last = Unverified].last = Unverified
      BY <1>0 DEF Histories, Unverified, Ids
    <3>2. history'.last = Unverified
      BY <1>0, <2>8, <3>1, FaultTyped DEF FlipByte
    <3>3. QED
      BY <3>2, NotPassed DEF Unverified
  <2>9. CASE UNCHANGED vars
    BY <2>9, PassedKept DEF vars, files
  <2>10. QED
    BY <2>1, <2>2, <2>3, <2>4, <2>5, <2>6, <2>7, <2>8, <2>9 DEF Next, Verifier, Faults
<1>3. QED
  BY <1>1, <1>2

\* A step that leaves the source alone, and everything else that HonestOK looks at outside
\* a repack.
LEMMA HonestKept ==
  ASSUME HonestOK, ~Repacking, ~Repacking', UNCHANGED <<source, manifest>>,
         history'.honest = history.honest,
         history'.honest /\ tool' = "compare" => job'.info = source,
         history'.last.verdict = "pass" => \/ history'.last = history.last
                                           \/ history'.last.info = source /\ history'.last.of = source
  PROVE  HonestOK'
  BY DEF HonestOK, MadeFor, FullPlan, PlanOf, Position, Repackable

\* The expert of a group is one that the file has.
LEMMA ExpertOfPlan ==
  ASSUME NEW f, Plannable(f), NEW gs, NEW end, PlanOf(f, gs, end), NEW i \in 1 .. Len(gs)
  PROVE  gs[i].expert \in 0 .. NExpert(f) - 1
<1>1. NExpert(f) \in Nat \ {0}
  BY SomeExpert
<1>2. gs[i] = GroupAt(f, i, gs[i].offset)
  BY DEF PlanOf
<1>3. gs[i].expert = (i - 1) % NExpert(f)
  BY <1>2 DEF GroupAt
<1>4. i - 1 \in Int
  OBVIOUS
<1>5. (i - 1) % NExpert(f) \in 0 .. NExpert(f) - 1
  BY ONLY <1>1, <1>4, Division
<1>6. QED
  BY <1>3, <1>5

\* The copy ends early only if something has gone wrong.
LEMMA CopyIsWhole ==
  ASSUME Typed, Progress, HonestOK, CopyEndsEarly
  PROVE  ~history.honest
<1> SUFFICES ASSUME history.honest PROVE FALSE
  OBVIOUS
<1>1. tool = "pack" /\ Repacking /\ job.src_f = job.info
  BY DEF CopyEndsEarly, Repacking, HonestOK
<1>2. Plannable(Info) /\ Files[job.src_f] = Info
  BY <1>1, SourcesTyped DEF Info
<1>3. Copyable(Info, Info, Resident(Info))
  BY <1>2, ResidentIsCopyable
<1>4. job.next <= Len(groups) => ExtentCopyable(Info, Info, groups[job.next])
  <2>1. SUFFICES ASSUME job.next <= Len(groups)
                 PROVE  ExtentCopyable(Info, Info, groups[job.next])
    OBVIOUS
  <2>2. PlanOf(Info, groups, off) /\ job.next \in 1 .. Len(groups)
    BY <1>1, <2>1 DEF Progress, PlanOf
  <2> DEFINE i == job.next
  <2> HIDE DEF i
  <2>3. groups[i].layer \in ToSet(MoeLayers(Info)) /\ groups[i].expert \in 0 .. NExpert(Info) - 1
    BY <1>2, <2>2, GroupOfPlan, ExpertOfPlan DEF i
  <2>4. QED
    BY <1>2, <2>3, ExtentIsCopyable DEF i
<1>5. QED
  BY <1>2, <1>3, <1>4 DEF CopyEndsEarly

\* Without a fault the manifest is of the file at the path.
LEMMA HonestStep == Typed /\ Progress /\ HonestOK /\ [Next]_vars => HonestOK'
<1> SUFFICES ASSUME Typed, Progress, HonestOK, [Next]_vars PROVE HonestOK'
  OBVIOUS
<1>0. history \in Histories /\ job \in Jobs
  BY DEF Typed
<1>1. ASSUME ~history'.honest
      PROVE  HonestOK'
  BY <1>1 DEF HonestOK
<1>2. ASSUME NEW by, NEW hash, StartRepack(by, hash)
      PROVE  HonestOK'
  <2>1. job'.info = source /\ source' = source /\ tool' = "plan"
    BY <1>2 DEF StartRepack, NoJob, files
  <2>2. QED
    BY <2>1 DEF HonestOK, Repacking
<1>3. CASE PlanExtent \/ HashSource
  <2>1. job'.info = job.info /\ Repacking /\ source' = source /\ tool' \in {"plan", "open"}
        /\ history' = history
    BY <1>0, <1>3 DEF PlanExtent, HashSource, Repacking, Jobs, files
  <2>2. QED
    BY <2>1 DEF HonestOK, Repacking
<1>4. CASE OpenSource
  <2>1. job'.info = job.info /\ job'.src_f = source /\ Repacking /\ source' = source /\ tool' = "pack"
        /\ history'.honest = history.honest
    BY <1>0, <1>4 DEF OpenSource, Repacking, Jobs, Histories
  <2>2. QED
    BY <2>1 DEF HonestOK, Repacking
<1>5. CASE WriteExtent \/ WriteResident
  <2>1. job'.info = job.info /\ job'.src_f = job.src_f /\ Repacking /\ source' = source
        /\ tool = "pack" /\ tool' \in {"pack", "manifest"} /\ history' = history
    BY <1>0, <1>5 DEF WriteExtent, WriteResident, Repacking, Jobs
  <2>2. QED
    BY <2>1 DEF HonestOK, Repacking
<1>6. CASE WriteManifest
  <2>1. SUFFICES ASSUME history.honest PROVE HonestOK'
    BY <1>0, <1>1, <1>6 DEF WriteManifest, Histories
  <2>2. Repacking /\ job.info = source /\ history.last.verdict = "none" /\ ~Repacking'
    BY <1>6, <2>1 DEF WriteManifest, Repacking, HonestOK, Progress
  <2>3. manifest'.whole /\ Repackable(Info) /\ MadeFor(manifest', Info)
    BY <1>6, ManifestIs
  <2>4. source' = source /\ history'.last.verdict = "none" /\ tool' # "compare"
    BY <1>0, <1>6, <2>2 DEF WriteManifest, Histories
  <2>5. QED
    BY <2>2, <2>3, <2>4 DEF HonestOK, Info, MadeFor, FullPlan, PlanOf, Position, Repackable
<1>7. CASE CopyEndsEarly
  <2>1. ~history.honest
    BY <1>7, CopyIsWhole
  <2>2. QED
    BY <1>1, <1>7, <2>1 DEF CopyEndsEarly
<1>8. ASSUME NEW by \in {"user", "launcher"}, NEW quick, NEW picked,
             CheckSize(by, quick, picked) \/ CheckHash \/ ReadHeaders
      PROVE  HonestOK'
  <2>1. ~Repacking
    BY <1>8 DEF CheckSize, CheckHash, ReadHeaders, Repacking
  <2>2. ~Repacking' /\ UNCHANGED <<source, manifest>>
    BY <1>8, Ended DEF CheckSize, CheckHash, ReadHeaders, Repacking, files
  <2>3. history' = history \/ (history'.honest = history.honest /\ history'.last.verdict = "fail")
    BY <1>0, <1>8, FailsTyped DEF CheckSize, CheckHash, ReadHeaders
  <2>4. tool' = "compare" => job'.info = source
    BY <1>0, <1>8, Ended DEF CheckSize, CheckHash, ReadHeaders, Jobs
  <2>5. QED
    BY <2>1, <2>2, <2>3, <2>4, HonestKept
<1>9. CASE Compare
  <2>1. ~Repacking
    BY <1>9 DEF Compare, Repacking
  <2>2. ~Repacking' /\ UNCHANGED <<source, manifest>>
    BY <1>9, Ended DEF Compare, Repacking, files
  <2>3. history'.honest = history.honest
        /\ (\/ history'.last.verdict = "fail"
            \/ history'.last.info = job.info /\ history'.last.of = source)
    <3>1. CASE BytesSame(manifest, Info, Files[source], resident, pack, job.picked)
      <4>1. history' = [history EXCEPT !.last = [verdict |-> "pass", info |-> job.info,
                                               of |-> source, picked |-> job.picked]]
        BY <1>9, <3>1 DEF Compare
      <4>2. QED
        BY <1>0, <4>1 DEF Histories
    <3>2. CASE ~BytesSame(manifest, Info, Files[source], resident, pack, job.picked)
      BY <1>0, <1>9, <3>2, FailsTyped DEF Compare
    <3>3. QED
      BY <3>1, <3>2
  <2>4. tool' # "compare"
    BY <1>9, Ended DEF Compare
  <2>5. history.honest => job.info = source
    BY <1>9, <2>1 DEF Compare, HonestOK
  <2>6. CASE history.honest
    BY <2>1, <2>2, <2>3, <2>4, <2>5, <2>6, HonestKept
  <2>7. CASE ~history.honest
    BY <1>1, <2>3, <2>7
  <2>8. QED
    BY <2>6, <2>7
<1>10. CASE Launcher
  <2>1. ~Repacking /\ ~Repacking' /\ tool' # "compare" /\ UNCHANGED <<source, manifest, history>>
    BY <1>10, Ended DEF Launcher, UseExistingPack, Serve, StopServing, Repacking, files
  <2>2. QED
    BY <2>1, HonestKept
<1>11. CASE ReplaceSource \/ KillRepack \/ KillVerify
  <2>1. ~history'.honest
    BY <1>0, <1>11, FaultTyped DEF ReplaceSource, KillRepack, KillVerify
  <2>2. QED
    BY <1>1, <2>1
<1>12. CASE FlipByte
  <2>1. [history EXCEPT !.last = Unverified] \in Histories
    BY <1>0 DEF Histories, Unverified, Ids
  <2>2. ~history'.honest
    BY <1>0, <1>12, <2>1, FaultTyped DEF FlipByte
  <2>3. QED
    BY <1>1, <2>2
<1>13. CASE UNCHANGED vars
  <2>1. UNCHANGED <<source, manifest, tool, job, history>>
    BY <1>13 DEF vars, files
  <2>2. QED
    BY <2>1 DEF HonestOK, Repacking, MadeFor, FullPlan, PlanOf, Position, Repackable
<1>14. QED
  BY <1>2, <1>3, <1>4, <1>5, <1>6, <1>7, <1>8, <1>9, <1>10, <1>11, <1>12, <1>13
     DEF Next, Repacker, Verifier, Faults

\* A plan has one group for each expert of a layer.
LEMMA GroupsDiffer ==
  ASSUME NEW f, Plannable(f), NEW gs, NEW end, PlanOf(f, gs, end),
         NEW i \in 1 .. Len(gs), NEW j \in 1 .. Len(gs),
         gs[i].layer = gs[j].layer, gs[i].expert = gs[j].expert
  PROVE  i = j
<1> DEFINE n == NExpert(f)
           m == Len(MoeLayers(f))
           L == MoeLayers(f)
           q(k) == (k - 1) \div n
           r(k) == (k - 1) % n
<1>1. /\ L \in Seq(Nat) /\ m \in Nat /\ n \in Nat \ {0}
      /\ \A a, b \in 1 .. m : a < b => L[a] < L[b]
  BY TensorsTyped, MoeLayersAre, SomeExpert DEF Plannable, IsGguf
<1>2. gs \in Seq(GroupRecords) /\ Len(gs) \in Nat /\ Len(gs) <= m * n
  BY DEF PlanOf, NGroups
<1>3. ASSUME NEW k \in 1 .. Len(gs)
      PROVE  /\ gs[k].layer = L[q(k) + 1] /\ gs[k].expert = r(k)
             /\ q(k) \in 0 .. m - 1 /\ k - 1 = (n * q(k)) + r(k) /\ r(k) \in Int
  <2>1. gs[k] = GroupAt(f, k, gs[k].offset)
    BY DEF PlanOf
  <2>2. gs[k].layer = L[q(k) + 1] /\ gs[k].expert = r(k)
    BY <2>1 DEF GroupAt
  <2>3. k - 1 \in Nat /\ k - 1 < m * n /\ k - 1 \in Int
    <3>1. m * n \in Int
      BY <1>1
    <3>2. QED
      BY <1>2, <3>1
  <2>4. q(k) \in 0 .. m - 1
    BY ONLY <1>1, <2>3, RowBound
  <2>5. k - 1 = (n * q(k)) + r(k) /\ r(k) \in 0 .. n - 1
    BY ONLY <1>1, <2>3, Division
  <2> HIDE DEF q, r
  <2>6. QED
    BY <2>2, <2>4, <2>5
<1> HIDE DEF q, r, n, L, m
<1>4. r(i) = r(j) /\ L[q(i) + 1] = L[q(j) + 1]
  BY <1>3
<1>5. q(i) = q(j)
  <2>1. q(i) + 1 \in 1 .. m /\ q(j) + 1 \in 1 .. m
    <3>1. q(i) \in 0 .. m - 1 /\ q(j) \in 0 .. m - 1
      BY <1>3
    <3>2. QED
      BY <1>1, <3>1
  <2>2. L[q(i) + 1] \in Nat
    BY <1>1, <2>1 DEF m, L
  <2>3. ~(q(i) + 1 < q(j) + 1) /\ ~(q(j) + 1 < q(i) + 1)
    BY <1>1, <1>4, <2>1, <2>2
  <2>4. QED
    BY <2>1, <2>3, <1>3
<1>6. i - 1 = j - 1
  BY <1>3, <1>4, <1>5
<1>7. QED
  BY <1>2, <1>6

\* A full plan has a group for every expert of a layer.
LEMMA GroupOfExpert ==
  ASSUME NEW f, Plannable(f), NEW gs, NEW end, FullPlan(f, gs, end),
         NEW layer \in ToSet(MoeLayers(f)), NEW e \in 0 .. NExpert(f) - 1
  PROVE  \E i \in 1 .. Len(gs) : gs[i].layer = layer /\ gs[i].expert = e
<1> DEFINE n == NExpert(f)
           L == MoeLayers(f)
           m == Len(L)
<1>1. L \in Seq(Nat) /\ m \in Nat /\ n \in Nat \ {0}
  BY TensorsTyped, MoeLayersAre, SomeExpert DEF Plannable, IsGguf
<1>2. Len(gs) = m * n /\ PlanOf(f, gs, end)
  BY DEF FullPlan, NGroups
<1>3. PICK j \in 1 .. m : L[j] = layer
  BY <1>1, Elements
<1> DEFINE k == (n * (j - 1)) + e
<1>4. e \in 0 .. n - 1
  OBVIOUS
<1> HIDE DEF n, m, L
<1>5. k \in Nat /\ k + 1 <= m * n
  <2>1. PICK d \in Nat : m = j + d
    <3>1. m - j \in Nat /\ m = j + (m - j)
      BY <1>1
    <3>2. QED
      BY <3>1
  <2>2. m * n = (n * (j - 1)) + n + (n * d)
    BY <1>1, <2>1
  <2>3. n * (j - 1) \in Nat /\ n * d \in Nat
    BY <1>1
  <2>4. QED
    BY <1>1, <1>4, <2>2, <2>3
<1>6. k \div n = j - 1 /\ k % n = e
  <2>1. j - 1 \in Nat /\ k \in Nat
    BY <1>5
  <2>2. k = (n * (j - 1)) + e
    OBVIOUS
  <2> HIDE DEF k
  <2>3. QED
    BY ONLY <1>1, <1>4, <2>1, <2>2, QuotientIs
<1> HIDE DEF k
<1>7. k + 1 \in 1 .. Len(gs) /\ (k + 1) - 1 = k
  BY <1>1, <1>2, <1>5
<1>8. gs[k + 1] = GroupAt(f, k + 1, gs[k + 1].offset)
  BY <1>2, <1>7 DEF PlanOf
<1>9. gs[k + 1].layer = L[(k \div n) + 1] /\ gs[k + 1].expert = k % n
  BY <1>7, <1>8 DEF GroupAt, n, L
<1>10. (j - 1) + 1 = j
  OBVIOUS
<1>11. QED
  BY <1>3, <1>6, <1>7, <1>9, <1>10

\* The runtime finds the extent of a group.
LEMMA ExtOffIs ==
  ASSUME NEW f, Plannable(f), NEW man, NEW end, PlanOf(f, man.groups, end),
         NEW i \in 1 .. Len(man.groups)
  PROVE  ExtOff(man, man.groups[i].layer, man.groups[i].expert) = man.groups[i].offset
<1> DEFINE gs == man.groups
           layer == gs[i].layer
           e == gs[i].expert
           I == {k \in 1 .. Len(gs) : gs[k].layer = layer /\ gs[k].expert = e}
<1>1. I = {i}
  BY GroupsDiffer
<1>2. Len(gs) \in Nat
  BY DEF PlanOf
<1>3. Max(I) = i
  <2>1. I \in SUBSET (1 .. Len(gs)) /\ I # {}
    BY <1>1
  <2> HIDE DEF I
  <2>2. Max(I) \in I
    BY ONLY <1>2, <2>1, MaxIs
  <2>3. QED
    BY <1>1, <2>2
<1>4. SelectLastInSeq(gs, LAMBDA g : g.layer = layer /\ g.expert = e) = IF I # {} THEN Max(I) ELSE 0
  BY Zenon DEF SelectLastInSeq
<1>5. SelectLastInSeq(gs, LAMBDA g : g.layer = layer /\ g.expert = e) = i
  BY <1>1, <1>3, <1>4
<1>6. ExtOff(man, layer, e) =
        IF SelectLastInSeq(gs, LAMBDA g : g.layer = layer /\ g.expert = e) = 0 THEN 0
        ELSE gs[SelectLastInSeq(gs, LAMBDA g : g.layer = layer /\ g.expert = e)].offset
  BY Zenon DEF ExtOff
<1>7. i # 0
  OBVIOUS
<1>8. QED
  BY <1>5, <1>6, <1>7

\* A part ends inside the extent.
LEMMA PartInside ==
  ASSUME NEW f, Plannable(f), NEW layer \in ToSet(MoeLayers(f)),
         NEW part \in ToSet(Layers(f)[layer].parts)
  PROVE  /\ part.rel_off \in Nat /\ part.slice_bytes \in Nat
         /\ part.rel_off + part.slice_bytes <= Layers(f)[layer].group_stride
         /\ \E i \in 1 .. Len(Kinds(f)) : part = Parts(f, layer)[i]
<1>1. /\ Layers(f)[layer].parts = Parts(f, layer)
      /\ Parts(f, layer) \in Seq(PartInfo) /\ Len(Parts(f, layer)) = Len(Kinds(f))
  BY GeometryIs, PartsAre
<1>2. PICK i \in 1 .. Len(Kinds(f)) : part = Parts(f, layer)[i]
  BY <1>1, Elements
<1>3. part \in PartInfo
  BY <1>1, Elements
<1>4. part.rel_off \in Nat /\ part.slice_bytes \in Nat
  BY <1>3 DEF PartInfo
<1>5. /\ PartEnd(part) \in Nat /\ PartEnd(part) <= Layers(f)[layer].group_bytes
      /\ Layers(f)[layer].group_bytes \in Nat /\ Layers(f)[layer].group_stride \in Nat
      /\ Layers(f)[layer].group_bytes <= Layers(f)[layer].group_stride
  BY <1>2, GeometryIs
<1> DEFINE x == Layers(f)[layer].group_bytes
           y == Layers(f)[layer].group_stride
<1> HIDE DEF x, y
<1>6. PartEnd(part) <= y
  BY <1>5 DEF x, y
<1>7. QED
  BY <1>2, <1>4, <1>6 DEF PartEnd, y

\* What a manifest of a file says.
LEMMA MadeForIs ==
  ASSUME NEW man, NEW f, Plannable(f), MadeFor(man, f)
  PROVE  /\ man.layers = Layers(f) /\ man.kinds = Kinds(f) /\ man.n_expert = NExpert(f)
         /\ DOMAIN man.layers = ToSet(MoeLayers(f))
         /\ man.groups \in Seq(GroupRecords)
         /\ DOMAIN man.groups = 1 .. Len(man.groups)
         /\ FullPlan(f, man.groups, man.pack_file_bytes)
         /\ PlanOf(f, man.groups, man.pack_file_bytes)
         /\ man.pack_file_bytes \in Nat
<1>1. /\ man = Manifest(f, man.sha256, man.groups, man.pack_file_bytes)
      /\ FullPlan(f, man.groups, man.pack_file_bytes)
  BY DEF MadeFor
<1>2. man.layers = Layers(f) /\ man.kinds = Kinds(f) /\ man.n_expert = NExpert(f)
  BY <1>1 DEF Manifest
<1>3. man.groups \in Seq(GroupRecords) /\ man.pack_file_bytes \in Nat
  BY <1>1 DEF FullPlan, PlanOf
<1>4. DOMAIN Layers(f) = ToSet(MoeLayers(f))
  BY DEF Layers
<1>5. QED
  BY <1>1, <1>2, <1>3, <1>4 DEF FullPlan

\* An extent that was compared is one the runtime fetches right.
LEMMA ComparedIsFetched ==
  ASSUME NEW f, Plannable(f), NEW man, MadeFor(man, f),
         Apart(man.groups, man.layers, man.pack_file_bytes),
         NEW p, p \in Seq(Int), Len(p) = man.pack_file_bytes,
         NEW src, NEW src_f, NEW i \in DOMAIN man.groups, ExtentSame(man, src, src_f, p, man.groups[i])
  PROVE  FetchesRight(man, src, src_f, p, man.groups[i].layer, man.groups[i].expert)
<1> DEFINE g == man.groups[i]
           lay == man.layers[g.layer]
           stride == lay.group_stride
           at == [layer |-> g.layer, expert |-> g.expert]
<1>1. /\ man.layers = Layers(f) /\ DOMAIN man.groups = 1 .. Len(man.groups)
      /\ PlanOf(f, man.groups, man.pack_file_bytes)
  BY MadeForIs
<1>2. g.layer \in ToSet(MoeLayers(f)) /\ g.offset \in Nat /\ stride \in Nat
  BY <1>1, GroupOfPlan
<1>3. ExtOff(man, g.layer, g.expert) = g.offset
  BY <1>1, ExtOffIs
<1>4. InRange(p, g.offset, stride)
  BY DEF Apart, ExtentEnd, InRange
<1>5. ASSUME NEW part \in ToSet(lay.parts)
      PROVE  SameRange(Range0(p, g.offset, stride), part.rel_off,
                       FileBytes(src_f), SourceOffset(src, at, part), part.slice_bytes)
  <2>1. SameRange(p, g.offset + part.rel_off, FileBytes(src_f), SourceOffset(src, g, part), part.slice_bytes)
    BY DEF ExtentSame
  <2>2. SourceOffset(src, at, part) = SourceOffset(src, g, part)
    BY DEF SourceOffset
  <2>3. part.rel_off \in Nat /\ part.slice_bytes \in Nat /\ part.rel_off + part.slice_bytes <= stride
    BY <1>1, <1>2, PartInside
  <2> DEFINE rel == part.rel_off
             n == part.slice_bytes
             o == g.offset
             so == SourceOffset(src, g, part)
  <2> HIDE DEF rel, n, o, stride, so, at
  <2>4. /\ InRange(Range0(p, o, stride), rel, n)
        /\ Range0(Range0(p, o, stride), rel, n) = Range0(p, o + rel, n)
    <3>1. /\ p \in Seq(Int) /\ o \in Nat /\ stride \in Nat /\ InRange(p, o, stride)
          /\ rel \in Nat /\ n \in Nat /\ rel + n <= stride
      BY <1>2, <1>4, <2>3 DEF rel, n, o
    <3>2. QED
      BY ONLY <3>1, RangeOfRange
  <2>5. QED
    BY <2>1, <2>2, <2>4 DEF SameRange, rel, n, o, so
<1> HIDE DEF g
<1>6. FetchesRight(man, src, src_f, p, g.layer, g.expert) <=>
        /\ InRange(p, g.offset, stride)
        /\ \A part \in ToSet(lay.parts) :
             SameRange(Range0(p, g.offset, stride), part.rel_off,
                       FileBytes(src_f), SourceOffset(src, at, part), part.slice_bytes)
  BY <1>3, Zenon DEF FetchesRight
<1>7. QED
  BY <1>4, <1>5, <1>6 DEF g

\* Every expert of the source is in the pack, if all groups have been compared.
LEMMA ComparedIsLossless ==
  ASSUME NEW f, Plannable(f), NEW man, MadeFor(man, f), NEW p, NEW src, NEW src_f, NEW res,
         IsFile(src), Accounted(man, src, res), \A t \in ToSet(res.tensors) : ~IsExpert(t),
         \A i \in DOMAIN man.groups :
           FetchesRight(man, src, src_f, p, man.groups[i].layer, man.groups[i].expert)
  PROVE  PackLossless(man, src, src_f, p)
<1>1. /\ man.n_expert = NExpert(f) /\ DOMAIN man.layers = ToSet(MoeLayers(f))
      /\ DOMAIN man.groups = 1 .. Len(man.groups)
      /\ FullPlan(f, man.groups, man.pack_file_bytes)
  BY MadeForIs
<1>2. SUFFICES ASSUME NEW layer \in ToSet(MoeLayers(src)), NEW e \in 0 .. man.n_expert - 1
               PROVE  layer \in DOMAIN man.layers /\ FetchesRight(man, src, src_f, p, layer, e)
  BY DEF PackLossless
<1>3. layer \in DOMAIN man.layers
  <2>1. src.tensors \in Seq(TensorInfo)
    BY TensorsTyped
  <2>2. PICK t \in ToSet(Paged(src)) : t.name.layer = layer
    BY <2>1, MoeLayersAre
  <2>3. t \in ToSet(src.tensors) /\ IsExpert(t)
    BY <2>1, PartsOfFile
  <2>4. t.name \in TensorNames(src)
    BY <2>3 DEF TensorNames
  <2>5. t.name \notin TensorNames(res)
    BY <2>3 DEF TensorNames, IsExpert
  <2>6. t.name \in PagedNames(man)
    BY <2>4, <2>5 DEF Accounted
  <2>7. QED
    BY <2>2, <2>6 DEF PagedNames
<1>4. PICK i \in 1 .. Len(man.groups) : man.groups[i].layer = layer /\ man.groups[i].expert = e
  BY <1>1, <1>3, GroupOfExpert
<1>5. QED
  BY <1>1, <1>3, <1>4

\* Every other tensor of the source is in the resident file, as it is in the source.
LEMMA ComparedIsResident ==
  ASSUME NEW f, Plannable(f), NEW man, MadeFor(man, f),
         NEW src, IsGguf(src), NamesDiffer(src), read_gguf(src), NEW src_f,
         IsFile(resident), Accounted(man, src, resident), ResidentSame(src, src_f, resident)
  PROVE  ResidentLossless(src, src_f)
<1>1. SUFFICES ASSUME NEW t \in ToSet(Resident(src))
               PROVE  /\ t.name \in TensorNames(resident)
                      /\ LET r == Named(resident, t.name)
                         IN  /\ [r EXCEPT !.offset = 0] = [t EXCEPT !.offset = 0]
                             /\ Range0(resident.data, r.offset, tensor_nbytes(t))
                                  = Range0(FileBytes(src_f), abs_offset(src, t), tensor_nbytes(t))
  BY DEF ResidentLossless
<1>2. src.tensors \in Seq(TensorInfo) /\ IsFile(src)
  BY TensorsTyped DEF IsGguf
<1>3. t \in ToSet(src.tensors) /\ ~IsExpert(t)
  BY <1>2, PartsOfFile
<1>4. t \in TensorInfo /\ Sizeable(t)
  BY <1>2, <1>3, TensorsTyped DEF read_gguf
<1>5. t.name \in TensorNames(resident)
  <2>1. t.name \in TensorNames(src)
    BY <1>3 DEF TensorNames
  <2>2. man.kinds \in Seq(KindSet)
    BY MadeForIs, SomeExpert
  <2>3. t.name \notin PagedNames(man)
    <3>1. ASSUME t.name \in PagedNames(man)
          PROVE  FALSE
      <4>1. PICK layer \in DOMAIN man.layers, kind \in ToSet(man.kinds) : t.name = [layer |-> layer, what |-> kind]
        BY <3>1 DEF PagedNames
      <4>2. kind \in KindSet
        BY <2>2, <4>1, Elements
      <4>3. t.name.what = kind
        BY <4>1
      <4>4. QED
        BY <1>3, <4>2, <4>3 DEF IsExpert, KindSet
    <3>2. QED
      BY <3>1
  <2>4. QED
    BY <2>1, <2>3 DEF Accounted
<1> DEFINE r == Named(resident, t.name)
           n == tensor_nbytes(t)
<1>6. resident.tensors \in Seq(TensorInfo)
  BY TensorsTyped
<1>7. r \in ToSet(resident.tensors) /\ r.name = t.name
  BY <1>5, <1>6, NamedIs
<1>8. r \in TensorInfo
  BY <1>6, <1>7, Elements
<1>9. Named(src, r.name) = t
  BY <1>2, <1>3, <1>7, NamedIsIt
<1> HIDE DEF r
<1>10. /\ r.ne = t.ne /\ r.type = t.type
       /\ SameRange(FileBytes(resident), abs_offset(resident, r), FileBytes(src_f), abs_offset(src, t),
                    tensor_nbytes(r))
  BY <1>7, <1>9 DEF ResidentSame
<1>11. tensor_nbytes(r) = n
  BY <1>10 DEF tensor_nbytes
<1>12. [r EXCEPT !.offset = 0] = [t EXCEPT !.offset = 0]
  <2>1. r = [name |-> r.name, ne |-> r.ne, type |-> r.type, offset |-> r.offset]
        /\ t = [name |-> t.name, ne |-> t.ne, type |-> t.type, offset |-> t.offset]
    BY <1>4, <1>8 DEF TensorInfo
  <2>2. QED
    BY <1>7, <1>10, <2>1
<1>13. n \in Nat
  BY <1>4, SizeNat
<1>14. r.offset \in Nat
  BY <1>8 DEF TensorInfo
<1> HIDE DEF n
<1>15. /\ InRange(FileBytes(resident), data_start(resident) + r.offset, n)
       /\ Range0(FileBytes(resident), data_start(resident) + r.offset, n)
            = Range0(FileBytes(src_f), abs_offset(src, t), n)
  <2>1. abs_offset(resident, r) = data_start(resident) + r.offset
    BY DEF abs_offset
  <2>2. QED
    BY <1>10, <1>11, <2>1 DEF SameRange
<1>16. Range0(FileBytes(resident), data_start(resident) + r.offset, n) = Range0(resident.data, r.offset, n)
  BY <1>13, <1>14, <1>15, DataRange
<1>17. QED
  BY <1>5, <1>12, <1>15, <1>16 DEF r, n

\* For every set of files that the path may come to hold, whatever is killed, replaced or
\* gone bad: a verification that has passed means, of the extents it has compared, that the
\* pack and the resident file have the bytes of the file it opened last in the places that
\* the header it read before gives; if nothing has gone wrong since the repack began, both
\* are one file and the shapes are its shapes, which is what verify_pack.py:160 prints.
THEOREM PassMeansLosslessTheorem == Spec => []PassMeansLossless
<1>1. Inv /\ Passed /\ HonestOK => PassMeansLossless
  <2> SUFFICES ASSUME Inv, Passed, HonestOK, history.last.verdict = "pass"
               PROVE  LET last == history.last
                          src == Files[last.info]
                          src_f == Files[last.of]
                      IN  /\ ResidentLossless(src, src_f)
                          /\ \A i \in last.picked :
                               FetchesRight(manifest, src, src_f, pack, manifest.groups[i].layer,
                                            manifest.groups[i].expert)
                          /\ last.picked = DOMAIN manifest.groups => PackLossless(manifest, src, src_f, pack)
                          /\ history.honest => last.info = last.of /\ ShapesRight(manifest, src)
    BY DEF PassMeansLossless
  <2> DEFINE src == Files[history.last.info]
             src_f == Files[history.last.of]
             picked == history.last.picked
  <2>1. /\ manifest.whole /\ history.last.info \in DOMAIN Files
        /\ picked \subseteq DOMAIN manifest.groups
        /\ HeadersRight(manifest, src, resident)
        /\ BytesSame(manifest, src, src_f, resident, pack, picked)
    BY DEF Passed
  <2>2. PICK id \in DOMAIN Files : Repackable(Files[id]) /\ MadeFor(manifest, Files[id])
    BY <2>1 DEF Inv, ManifestOK
  <2> DEFINE f == Files[id]
  <2>3. Plannable(f) /\ MadeFor(manifest, f)
    BY <2>2, FilesPlannable
  <2>4. /\ IsGguf(src) /\ NamesDiffer(src) /\ IsFile(src)
        /\ read_gguf(src) /\ Accounted(manifest, src, resident) /\ ResidentSame(src, src_f, resident)
        /\ Len(pack) = manifest.pack_file_bytes
        /\ \A i \in picked : ExtentSame(manifest, src, src_f, pack, manifest.groups[i])
    BY <2>1, PackDirAssumption DEF HeadersRight, BytesSame, PackFileRight, IsGguf
  <2>5. /\ Apart(manifest.groups, manifest.layers, manifest.pack_file_bytes)
        /\ pack \in Seq(Int) /\ IsFile(resident) /\ \A t \in ToSet(resident.tensors) : ~IsExpert(t)
    BY <2>1 DEF Inv, PlanInv, ExtentsApart, Typed
  <2> HIDE DEF src, src_f, f, picked
  <2>6. ResidentLossless(src, src_f)
    BY <2>3, <2>4, <2>5, ComparedIsResident
  <2>7. \A i \in picked :
          FetchesRight(manifest, src, src_f, pack, manifest.groups[i].layer, manifest.groups[i].expert)
    BY <2>1, <2>3, <2>4, <2>5, ComparedIsFetched
  <2>8. picked = DOMAIN manifest.groups => PackLossless(manifest, src, src_f, pack)
    BY <2>3, <2>4, <2>5, <2>7, ComparedIsLossless
  <2>9. history.honest => history.last.info = history.last.of /\ ShapesRight(manifest, src)
    <3>1. SUFFICES ASSUME history.honest
                   PROVE  history.last.info = history.last.of /\ ShapesRight(manifest, src)
      OBVIOUS
    <3>2. ~Repacking
      BY DEF Inv, Progress
    <3>3. /\ history.last.info = history.last.of
          /\ MadeFor(manifest, src) /\ Repackable(src)
      BY <3>1, <3>2 DEF HonestOK, src
    <3>4. Plannable(src)
      BY <2>1, <3>3, FilesPlannable DEF src
    <3>5. manifest.layers = Layers(src) /\ manifest.n_expert = NExpert(src)
      BY <3>3, <3>4, MadeForIs
    <3>6. QED
      BY <3>3, <3>4, <3>5, GeometryIs DEF ShapesRight
  <2>10. QED
    BY <2>6, <2>7, <2>8, <2>9 DEF src, src_f, picked
<1>2. Init => HeadersRead /\ Passed /\ HonestOK
  BY DEF Init, HeadersRead, Passed, HonestOK, Unverified
<1>3. Inv /\ HeadersRead /\ Passed /\ HonestOK /\ [Next]_vars => HeadersRead' /\ Passed' /\ HonestOK'
  BY HeadersStep, PassedStep, HonestStep DEF Inv
<1>4. QED
  BY <1>1, <1>2, <1>3, InvHolds, PTL DEF Spec

-----------------------------------------------------------------------------
(* What the repacker writes passes the verifier.                           *)

\* Every tensor of the source is paged or resident.
LEMMA WrittenAccounted ==
  ASSUME NEW f, Plannable(f), NEW man, MadeFor(man, f), NEW extra, PlainKvs(extra)
  PROVE  Accounted(man, f, ResidentOf(f, extra))
<1> DEFINE res == ResidentOf(f, extra)
           keep == Resident(f)
<1>1. /\ keep \in Seq(TensorInfo)
      /\ res.tensors = Moved(f, keep)
      /\ f.tensors \in Seq(TensorInfo)
      /\ ToSet(keep) = {t \in ToSet(f.tensors) : ~IsExpert(t)}
  BY ResidentOfIs, PartsOfFile, TensorsTyped DEF Copies, Plannable, IsGguf
<1>2. /\ Len(res.tensors) = Len(keep) /\ res.tensors \in Seq(TensorInfo)
      /\ \A i \in 1 .. Len(keep) : res.tensors[i].name = keep[i].name
  BY <1>1, ResidentOfIs, MovedAre DEF Copies
<1> HIDE DEF res, keep
<1>3. TensorNames(res) = {t.name : t \in ToSet(keep)}
  <2>1. ASSUME NEW t \in ToSet(res.tensors)
        PROVE  \E u \in ToSet(keep) : u.name = t.name
    <3>1. PICK i \in 1 .. Len(res.tensors) : res.tensors[i] = t
      BY <1>2, Elements
    <3>2. keep[i] \in ToSet(keep)
      BY <1>1, <1>2, Elements
    <3>3. QED
      BY <1>2, <3>1, <3>2
  <2>2. ASSUME NEW u \in ToSet(keep)
        PROVE  \E t \in ToSet(res.tensors) : t.name = u.name
    <3>1. PICK i \in 1 .. Len(keep) : keep[i] = u
      BY <1>1, Elements
    <3>2. res.tensors[i] \in ToSet(res.tensors)
      BY <1>2, Elements
    <3>3. QED
      BY <1>2, <3>1, <3>2
  <2>3. QED
    BY <2>1, <2>2 DEF TensorNames
<1>4. /\ DOMAIN man.layers = ToSet(MoeLayers(f)) /\ man.kinds = Kinds(f)
      /\ Kinds(f) \in Seq(KindSet)
  BY MadeForIs, SomeExpert
<1>5. PagedNames(man) \cap TensorNames(res) = {}
  <2>1. SUFFICES ASSUME NEW layer \in DOMAIN man.layers, NEW kind, kind \in ToSet(man.kinds),
                        NEW t \in ToSet(keep), t.name = [layer |-> layer, what |-> kind]
                 PROVE  FALSE
    BY <1>3 DEF PagedNames
  <2>2. t.name.what \in KindSet
    <3>1. kind \in KindSet
      BY <1>4, <2>1, Elements
    <3>2. QED
      BY <2>1, <3>1
  <2>3. QED
    BY <1>1, <2>2 DEF IsExpert, KindSet
<1>6. ASSUME NEW name \in TensorNames(f)
      PROVE  name \in PagedNames(man) \cup TensorNames(res)
  <2>1. PICK t \in ToSet(f.tensors) : t.name = name
    BY DEF TensorNames
  <2>2. CASE IsExpert(t)
    <3>1. t \in TensorInfo
      BY <1>1, <2>1, Elements
    <3>2. t.name = [layer |-> t.name.layer, what |-> t.name.what]
      BY <3>1, NameIs
    <3>3. t.name.layer \in ToSet(MoeLayers(f))
      <4>1. t \in ToSet(Paged(f))
        BY <1>1, <2>2, PartsOfFile
      <4>2. QED
        BY <1>1, <4>1, MoeLayersAre
    <3>4. t.name.what \in ToSet(Kinds(f))
      <4>1. t.name.what \in KindSet
        BY <2>2 DEF IsExpert, KindSet
      <4>2. [layer |-> t.name.layer, what |-> t.name.what] \in TensorNames(f)
        BY <2>1, <3>2
      <4>3. QED
        BY ONLY <3>3, <4>1, <4>2, KindsAre, Plannable(f)
    <3>5. QED
      BY <1>4, <2>1, <3>2, <3>3, <3>4 DEF PagedNames
  <2>3. CASE ~IsExpert(t)
    BY <1>1, <1>3, <2>1, <2>3
  <2>4. QED
    BY <2>2, <2>3
<1>7. ASSUME NEW name \in PagedNames(man)
      PROVE  name \in TensorNames(f)
  <2>1. PICK layer \in DOMAIN man.layers : \E kind \in ToSet(man.kinds) : name = [layer |-> layer, what |-> kind]
    BY DEF PagedNames
  <2>2. PICK kind : kind \in ToSet(man.kinds) /\ name = [layer |-> layer, what |-> kind]
    BY <2>1
  <2>3. /\ PagedTensor(f, layer, kind) \in ToSet(Paged(f))
        /\ PagedTensor(f, layer, kind).name = name
    BY <1>4, <2>2, KindsAre
  <2>4. PagedTensor(f, layer, kind) \in ToSet(f.tensors)
    BY <1>1, <2>3, PartsOfFile
  <2>5. QED
    BY <2>3, <2>4 DEF TensorNames
<1>8. ASSUME NEW name \in TensorNames(res)
      PROVE  name \in TensorNames(f)
  BY <1>1, <1>3 DEF TensorNames
<1>9. TensorNames(f) = PagedNames(man) \cup TensorNames(res)
  BY <1>6, <1>7, <1>8
<1>10. QED
  BY <1>5, <1>9 DEF Accounted, res

\* The resident tensors are those of the source, byte by byte.
LEMMA WrittenSame ==
  ASSUME NEW f, Plannable(f), NEW extra, PlainKvs(extra)
  PROVE  ResidentSame(f, f, ResidentOf(f, extra))
<1> DEFINE res == ResidentOf(f, extra)
           keep == Resident(f)
           at == Ends(f, keep)
<1>1. /\ Copies(f, f, keep)
      /\ IsFile(res) /\ res.kv = f.kv \o extra
      /\ res.tensors = Moved(f, keep)
      /\ res.data = FlattenSeq(Blocks(f, f, keep))
  BY ResidentOfIs
<1>2. /\ keep \in Seq(TensorInfo) /\ f.tensors \in Seq(TensorInfo) /\ IsFile(f) /\ NamesDiffer(f)
      /\ ToSet(keep) = {t \in ToSet(f.tensors) : ~IsExpert(t)}
      /\ f.kv \in Seq(ToSet(f.kv)) /\ extra \in Seq(ToSet(extra))
  BY <1>1, PartsOfFile, TensorsTyped DEF Copies, Plannable, IsGguf, IsFile, PlainKvs
<1>3. /\ res.tensors \in Seq(TensorInfo) /\ Len(res.tensors) = Len(keep)
      /\ \A i \in 1 .. Len(keep) : /\ res.tensors[i].name = keep[i].name
                                   /\ res.tensors[i].ne = keep[i].ne
                                   /\ res.tensors[i].type = keep[i].type
  BY <1>1, MovedAre DEF Copies
<1>4. \A i \in 1 .. Len(keep) : /\ res.tensors[i].offset = at[i - 1]
                                /\ tensor_nbytes(keep[i]) \in Nat
                                /\ at[i - 1] \in Nat
  <2>1. /\ at \in [0 .. Len(keep) -> Nat]
        /\ \A i \in 1 .. Len(keep) : /\ Moved(f, keep)[i].offset = at[i - 1]
                                     /\ tensor_nbytes(keep[i]) \in Nat
    BY <1>1, EndsAre DEF Copies
  <2>2. \A i \in 1 .. Len(keep) : i - 1 \in 0 .. Len(keep)
    BY <1>2
  <2> HIDE DEF at, keep
  <2>3. QED
    BY <1>1, <2>1, <2>2
<1>5. /\ Len(res.data) = at[Len(keep)]
      /\ \A i \in 1 .. Len(keep) : \A k \in 1 .. tensor_nbytes(keep[i]) :
           /\ at[i - 1] + k \in 1 .. Len(res.data)
           /\ res.data[at[i - 1] + k] = FileBytes(f)[abs_offset(f, keep[i]) + k]
  BY <1>1, WrittenData
<1>6. Len(f.kv) <= Len(f.kv) /\ IsPrefix(SubSeq(f.kv, 1, Len(f.kv)), res.kv)
  <2>1. f.kv \in Seq(ToSet(f.kv) \cup ToSet(extra)) /\ extra \in Seq(ToSet(f.kv) \cup ToSet(extra))
    BY <1>2
  <2>2. /\ Len(f.kv \o extra) = Len(f.kv) + Len(extra)
        /\ f.kv \o extra \in Seq(ToSet(f.kv) \cup ToSet(extra))
        /\ \A i \in 1 .. Len(f.kv) : (f.kv \o extra)[i] = f.kv[i]
    BY ONLY <2>1, ConcatIs
  <2>3. Len(f.kv) \in Nat /\ Len(extra) \in Nat
    BY <1>2
  <2> HIDE DEF res
  <2>4. Len(f.kv) <= Len(res.kv)
    BY <1>1, <2>2, <2>3
  <2>5. SubSeq(f.kv, 1, Len(f.kv)) = SubSeq(res.kv, 1, Len(f.kv))
    BY <1>1, <2>1, <2>2, <2>3, <2>4
  <2>6. SubSeq(f.kv, 1, Len(f.kv)) = f.kv
    BY <1>2
  <2>7. IsPrefix(f.kv, res.kv)
    BY <2>4, <2>5 DEF IsPrefix
  <2>8. Len(f.kv) <= Len(f.kv)
    BY ONLY <2>3
  <2>9. IsPrefix(SubSeq(f.kv, 1, Len(f.kv)), res.kv)
    BY ONLY <2>6, <2>7, Zenon
  <2>10. QED
    BY ONLY <2>8, <2>9
<1> HIDE DEF res, keep, at
<1>7. ASSUME NEW t \in ToSet(res.tensors)
      PROVE  LET s == Named(f, t.name)
             IN  /\ t.ne = s.ne /\ t.type = s.type
                 /\ SameRange(FileBytes(res), abs_offset(res, t),
                              FileBytes(f), abs_offset(f, s), tensor_nbytes(t))
  <2>1. PICK i \in 1 .. Len(keep) : res.tensors[i] = t
    BY <1>3, Elements
  <2>2. keep[i] \in ToSet(keep) /\ keep[i] \in TensorInfo
    BY <1>2, <2>1, Elements
  <2>3. keep[i] \in ToSet(f.tensors)
    BY <1>2, <2>2
  <2>4. Named(f, t.name) = keep[i]
    <3>1. Named(f, keep[i].name) = keep[i]
      BY <1>2, <2>3, NamedIsIt
    <3>2. QED
      BY <1>3, <2>1, <3>1
  <2>5. t.ne = keep[i].ne /\ t.type = keep[i].type /\ t.offset = at[i - 1]
    BY <1>3, <1>4, <2>1
  <2> DEFINE n == tensor_nbytes(keep[i])
             o == at[i - 1]
             so == abs_offset(f, keep[i])
  <2>6. tensor_nbytes(t) = n
    BY <2>5, Zenon DEF tensor_nbytes
  <2>7. n \in Nat /\ o \in Nat
    BY <1>4, <2>1
  <2>8. \A k \in 1 .. n : o + k \in 1 .. Len(res.data) /\ res.data[o + k] = FileBytes(f)[so + k]
    BY <1>5, <2>1
  <2>9. InRange(FileBytes(f), so, n)
    BY <1>1, <2>2 DEF Copies, Copyable
  <2>10. so \in Nat /\ FileBytes(f) \in Seq(Int)
    <3>1. so = data_start(f) + keep[i].offset
      BY DEF abs_offset
    <3>2. keep[i].offset \in Nat
      BY <2>2 DEF TensorInfo
    <3>3. data_start(f) \in Nat /\ FileBytes(f) \in Seq(Int)
      BY <1>2, FileBytesAre
    <3> HIDE DEF so
    <3>4. QED
      BY <3>1, <3>2, <3>3
  <2> HIDE DEF n, o, so
  <2>11. res.data \in Seq(Int) /\ Len(res.data) \in Nat
    <3>1. res.data \in Seq(Int)
      BY <1>1, TensorsTyped
    <3>2. QED
      BY <3>1
  <2>12. InRange(res.data, o, n)
    <3>1. at[Len(keep)] = Len(res.data)
      BY <1>5
    <3>2. n = 0 \/ n \in 1 .. n
      BY <2>7
    <3>3. CASE n = 0
      <4>1. o <= Len(res.data)
        <5>1. InRange(res.data, o, tensor_nbytes(t))
          <6>1. IsFile(res) /\ read_gguf(res)
            BY <1>1, ResidentReadable DEF res
          <6>2. t.offset = o /\ InRange(res.data, t.offset, tensor_nbytes(t))
            BY <2>5, <6>1, TensorInside DEF o
          <6>3. QED
            BY <6>2
        <5>2. QED
          BY <2>6, <2>7, <2>11, <3>3, <5>1 DEF InRange
      <4>2. QED
        BY <2>7, <2>11, <3>3, <4>1 DEF InRange
    <3>4. CASE n \in 1 .. n
      <4>1. o + n \in 1 .. Len(res.data)
        BY <2>8, <3>4
      <4>2. QED
        BY <4>1 DEF InRange
    <3>5. QED
      BY <3>2, <3>3, <3>4
  <2>13. Range0(res.data, o, n) = Range0(FileBytes(f), so, n)
    <3>1. /\ Range0(res.data, o, n) \in Seq(Int) /\ Len(Range0(res.data, o, n)) = n
          /\ \A k \in 1 .. n : Range0(res.data, o, n)[k] = res.data[o + k]
      BY ONLY <2>7, <2>11, <2>12, RangeIs
    <3>2. /\ Range0(FileBytes(f), so, n) \in Seq(Int) /\ Len(Range0(FileBytes(f), so, n)) = n
          /\ \A k \in 1 .. n : Range0(FileBytes(f), so, n)[k] = FileBytes(f)[so + k]
      BY ONLY <2>7, <2>9, <2>10, RangeIs
    <3> DEFINE u == Range0(res.data, o, n)
               v == Range0(FileBytes(f), so, n)
    <3>3. /\ u \in Seq(Int) /\ v \in Seq(Int) /\ Len(u) = n /\ Len(v) = n
          /\ \A k \in 1 .. n : u[k] = v[k]
      BY <2>8, <3>1, <3>2
    <3> HIDE DEF u, v
    <3>4. u = v
      BY ONLY <2>7, <3>3
    <3>5. QED
      BY <3>4 DEF u, v
  <2>14. /\ InRange(FileBytes(res), data_start(res) + o, n)
         /\ Range0(FileBytes(res), data_start(res) + o, n) = Range0(res.data, o, n)
    BY <1>1, <2>7, <2>12, DataRange
  <2>15. abs_offset(res, t) = data_start(res) + o
    BY <2>5 DEF abs_offset, o
  <2>16. SameRange(FileBytes(res), abs_offset(res, t), FileBytes(f), so, n)
    BY <2>9, <2>13, <2>14, <2>15 DEF SameRange
  <2>17. QED
    BY <2>4, <2>5, <2>6, <2>16 DEF so
<1>8. QED
  BY <1>6, <1>7 DEF ResidentSame, res

\* The entries that the repacker adds to the metadata leave its alignment alone.
LEMMA VersionKvsPlain == PlainKvs(PackVersionKvs)
<1> DEFINE first == <<"nvmoe.pack.version", 1>>
           second == <<"nvmoe.pack.manifest", 1>>
<1>1. first[1] # "general.alignment" /\ second[1] # "general.alignment"
  OBVIOUS
<1>2. PackVersionKvs = <<first, second>>
  BY DEF PackVersionKvs
<1> HIDE DEF first, second
<1>3. ASSUME NEW s, s = <<first, second>>
      PROVE  /\ Len(s) = 2 /\ DOMAIN s = 1 .. 2 /\ s[1] = first /\ s[2] = second
             /\ s \in Seq({first, second})
  BY <1>3
<1>4. /\ Len(PackVersionKvs) = 2 /\ PackVersionKvs[1] = first /\ PackVersionKvs[2] = second
      /\ PackVersionKvs \in Seq({first, second})
  BY <1>2, <1>3
<1>5. ToSet(PackVersionKvs) = {first, second}
  <2>1. \A x \in ToSet(PackVersionKvs) : x \in {first, second}
    BY <1>4, Elements
  <2>2. first \in ToSet(PackVersionKvs) /\ second \in ToSet(PackVersionKvs)
    <3>1. 1 \in 1 .. Len(PackVersionKvs) /\ 2 \in 1 .. Len(PackVersionKvs)
      BY <1>4
    <3>2. QED
      BY <1>4, <3>1, Elements
  <2>3. QED
    BY <2>1, <2>2
<1>6. QED
  BY <1>1, <1>4, <1>5 DEF PlainKvs

\* The bytes of one matrix are in the pack, where its group and its part say.
SliceCopied(f, p, g, part) ==
  SameRange(p, g.offset + part.rel_off, FileBytes(f), SourceOffset(f, g, part), part.slice_bytes)

\* The pack has its header and the first n extents of the plan.
Copied(f, p, gs, n) ==
  /\ p[1] = PACK_MAGIC
  /\ \A i \in 1 .. n : \A part \in ToSet(Layers(f)[gs[i].layer].parts) : SliceCopied(f, p, gs[i], part)

\* The pack begins with its magic number.
LEMMA HeaderFirst == PackHeader[1] = PACK_MAGIC
<1> DEFINE n == PACK_HEADER_BYTES - 1
           one == <<PACK_MAGIC>>
<1>1. n \in Nat
  BY RepackAssumption
<1>2. one \in Seq(Int) /\ Len(one) = 1 /\ one[1] = PACK_MAGIC
  BY RepackAssumption
<1>3. PackHeader = one \o Zeros(n)
  BY DEF PackHeader
<1> HIDE DEF n, one
<1>4. one \in Seq(Int) /\ Zeros(n) \in Seq(Int)
  BY <1>1, <1>2, ZerosAre
<1>5. \A i \in 1 .. Len(one) : (one \o Zeros(n))[i] = one[i]
  BY ONLY <1>4, ConcatIs
<1>6. 1 \in 1 .. Len(one)
  BY <1>2
<1>7. QED
  BY <1>2, <1>3, <1>5, <1>6

\* What is appended to the pack leaves what is there.
LEMMA SameRangeKept ==
  ASSUME NEW p, p \in Seq(Int), NEW ext, ext \in Seq(Int), NEW o \in Nat, NEW n \in Nat,
         NEW b, NEW ob, SameRange(p, o, b, ob, n)
  PROVE  SameRange(p \o ext, o, b, ob, n)
<1>1. /\ InRange(p, o, n) /\ InRange(b, ob, n) /\ Range0(p, o, n) = Range0(b, ob, n)
  BY DEF SameRange
<1>2. /\ p \o ext \in Seq(Int) /\ Len(p \o ext) = Len(p) + Len(ext)
      /\ \A i \in 1 .. Len(p) : (p \o ext)[i] = p[i]
  <2>1. p \in Seq(Int) /\ ext \in Seq(Int)
    OBVIOUS
  <2>2. QED
    BY ONLY <2>1, ConcatIs
<1> DEFINE q == p \o ext
<1> HIDE DEF q
<1>3. InRange(q, o, n)
  BY <1>1, <1>2 DEF InRange, q
<1>4. /\ Len(Range0(p, o, n)) = n /\ Range0(p, o, n) \in Seq(Int)
      /\ \A k \in 1 .. n : Range0(p, o, n)[k] = p[o + k]
  BY <1>1, RangeIs
<1>5. /\ Len(Range0(q, o, n)) = n /\ Range0(q, o, n) \in Seq(Int)
      /\ \A k \in 1 .. n : Range0(q, o, n)[k] = q[o + k]
  <2>1. q \in Seq(Int) /\ o \in Nat /\ n \in Nat
    BY <1>2 DEF q
  <2>2. QED
    BY ONLY <1>3, <2>1, RangeIs
<1>6. \A k \in 1 .. n : q[o + k] = p[o + k]
  <2>1. ASSUME NEW k \in 1 .. n PROVE o + k \in 1 .. Len(p)
    <3>1. o + n <= Len(p) /\ Len(p) \in Nat
      BY <1>1 DEF InRange
    <3>2. QED
      BY <3>1
  <2>2. QED
    BY ONLY <1>2, <2>1 DEF q
<1> DEFINE u == Range0(p, o, n)
           v == Range0(q, o, n)
<1>7. u \in Seq(Int) /\ v \in Seq(Int) /\ Len(u) = n /\ Len(v) = n /\ \A k \in 1 .. n : u[k] = v[k]
  BY <1>4, <1>5, <1>6
<1> HIDE DEF u, v
<1>8. u = v
  BY ONLY <1>7, n \in Nat
<1>9. QED
  BY <1>1, <1>3, <1>8 DEF SameRange, q, u, v

\* A block of the file at the end of the pack.
LEMMA SameRangeAppended ==
  ASSUME NEW p, p \in Seq(Int), NEW ext, ext \in Seq(Int), NEW rel \in Nat, NEW n \in Nat,
         rel + n <= Len(ext), NEW b, b \in Seq(Int), NEW ob \in Nat, InRange(b, ob, n),
         \A k \in 1 .. n : ext[rel + k] = b[ob + k]
  PROVE  SameRange(p \o ext, Len(p) + rel, b, ob, n)
<1> DEFINE q == p \o ext
           o == Len(p) + rel
<1>1. /\ q \in Seq(Int) /\ Len(q) = Len(p) + Len(ext)
      /\ \A i \in 1 .. Len(ext) : q[Len(p) + i] = ext[i]
  <2>1. p \in Seq(Int) /\ ext \in Seq(Int)
    OBVIOUS
  <2>2. QED
    BY ONLY <2>1, ConcatIs
<1> HIDE DEF q
<1>2. o \in Nat /\ Len(p) \in Nat /\ Len(ext) \in Nat
  OBVIOUS
<1>3. InRange(q, o, n)
  BY <1>1, <1>2 DEF InRange
<1>4. \A k \in 1 .. n : q[o + k] = b[ob + k]
  <2>1. TAKE k \in 1 .. n
  <2>2. rel + k \in 1 .. Len(ext)
    BY <1>2
  <2>3. Len(p) + (rel + k) = o + k
    BY <1>2
  <2>4. q[Len(p) + (rel + k)] = ext[rel + k]
    BY <1>1, <2>2
  <2>5. QED
    BY <2>3, <2>4
<1> HIDE DEF o
<1>5. /\ Len(Range0(q, o, n)) = n /\ Range0(q, o, n) \in Seq(Int)
      /\ \A k \in 1 .. n : Range0(q, o, n)[k] = q[o + k]
  <2>1. q \in Seq(Int) /\ o \in Nat /\ n \in Nat
    BY <1>1, <1>2
  <2>2. QED
    BY ONLY <1>3, <2>1, RangeIs
<1>6. /\ Len(Range0(b, ob, n)) = n /\ Range0(b, ob, n) \in Seq(Int)
      /\ \A k \in 1 .. n : Range0(b, ob, n)[k] = b[ob + k]
  BY RangeIs
<1> DEFINE u == Range0(q, o, n)
           v == Range0(b, ob, n)
<1>7. u \in Seq(Int) /\ v \in Seq(Int) /\ Len(u) = n /\ Len(v) = n /\ \A k \in 1 .. n : u[k] = v[k]
  BY <1>4, <1>5, <1>6
<1> HIDE DEF u, v
<1>8. u = v
  BY ONLY <1>7, n \in Nat
<1>9. QED
  BY <1>3, <1>8 DEF SameRange, q, o, u, v

\* One more turn of write_pack's loop.
LEMMA CopyGrows ==
  ASSUME NEW f, Plannable(f), NEW gs, NEW end, PlanOf(f, gs, end),
         NEW i \in 1 .. Len(gs), NEW p, p \in Seq(Int), Len(p) = gs[i].offset,
         p # <<>>, Copied(f, p, gs, i - 1)
  PROVE  Copied(f, p \o Extent(f, f, gs[i]), gs, i)
<1> DEFINE g == gs[i]
           ext == Extent(f, f, g)
           q == p \o ext
<1>1. g.layer \in ToSet(MoeLayers(f)) /\ g.expert \in Nat /\ g.expert \in 0 .. NExpert(f) - 1
  BY GroupOfPlan, ExpertOfPlan
<1>2. IsFile(f) /\ ExtentCopyable(f, f, g)
  BY <1>1, ExtentIsCopyable DEF Plannable, IsGguf
<1> HIDE DEF g
<1>3. /\ ext \in Seq(Int)
      /\ Len(ext) = Layers(f)[g.layer].group_stride
      /\ \A m \in 1 .. Len(Kinds(f)) :
           LET part == Parts(f, g.layer)[m]
           IN  /\ InRange(FileBytes(f), SourceOffset(f, g, part), part.slice_bytes)
               /\ \A k \in 1 .. part.slice_bytes :
                    ext[part.rel_off + k] = FileBytes(f)[SourceOffset(f, g, part) + k]
  BY <1>1, <1>2, ExtentIs
<1> HIDE DEF ext
<1>4. /\ Len(p) \in Nat \ {0}
      /\ \A k \in 1 .. Len(p) : q[k] = p[k]
  <2>1. p \in Seq(Int) /\ ext \in Seq(Int)
    BY <1>3
  <2>2. \A k \in 1 .. Len(p) : q[k] = p[k]
    BY ONLY <2>1, ConcatIs
  <2>3. QED
    BY <2>2
<1>5. q[1] = PACK_MAGIC
  BY <1>4 DEF Copied
<1>6. ASSUME NEW part \in ToSet(Layers(f)[g.layer].parts)
      PROVE  SliceCopied(f, q, g, part)
  <2>1. /\ part.rel_off \in Nat /\ part.slice_bytes \in Nat
        /\ part.rel_off + part.slice_bytes <= Layers(f)[g.layer].group_stride
        /\ \E m \in 1 .. Len(Kinds(f)) : part = Parts(f, g.layer)[m]
    BY <1>1, PartInside
  <2>2. PICK m \in 1 .. Len(Kinds(f)) : part = Parts(f, g.layer)[m]
    BY <2>1
  <2>3. SourceOffset(f, g, part) \in Nat
    BY <1>1, <2>2, SourceOffsetNat
  <2> DEFINE rel == part.rel_off
             n == part.slice_bytes
             so == SourceOffset(f, g, part)
             b == FileBytes(f)
  <2>4. InRange(b, so, n) /\ \A k \in 1 .. n : ext[rel + k] = b[so + k]
    BY <1>3, <2>2
  <2>5. b \in Seq(Int)
    BY <1>2, FileBytesAre
  <2>6. rel \in Nat /\ n \in Nat /\ so \in Nat /\ rel + n <= Len(ext) /\ ext \in Seq(Int)
    BY <1>3, <2>1, <2>3
  <2> HIDE DEF rel, n, so, b, q
  <2>7. SameRange(p \o ext, Len(p) + rel, b, so, n)
    BY <2>4, <2>5, <2>6, SameRangeAppended
  <2>8. Len(p) = g.offset
    BY DEF g
  <2>9. QED
    BY <2>7, <2>8 DEF SliceCopied, rel, n, so, b, q
<1>7. ASSUME NEW j \in 1 .. i - 1, NEW part \in ToSet(Layers(f)[gs[j].layer].parts)
      PROVE  SliceCopied(f, q, gs[j], part)
  <2>1. SliceCopied(f, p, gs[j], part)
    BY DEF Copied
  <2>2. j \in 1 .. Len(gs)
    <3>1. Len(gs) \in Nat
      BY DEF PlanOf
    <3>2. QED
      BY <3>1
  <2>3. gs[j].layer \in ToSet(MoeLayers(f)) /\ gs[j].offset \in Nat
    BY <2>2, GroupOfPlan
  <2>4. part.rel_off \in Nat /\ part.slice_bytes \in Nat
    BY <2>3, PartInside
  <2> DEFINE o == gs[j].offset + part.rel_off
             n == part.slice_bytes
             so == SourceOffset(f, gs[j], part)
             b == FileBytes(f)
  <2>5. o \in Nat /\ n \in Nat
    BY <2>3, <2>4
  <2>6. SameRange(p, o, b, so, n)
    BY <2>1 DEF SliceCopied
  <2> HIDE DEF o, n, so, b
  <2>7. SameRange(p \o ext, o, b, so, n)
    BY <1>3, <2>5, <2>6, SameRangeKept
  <2>8. QED
    BY <2>7 DEF SliceCopied, o, n, so, b
<1>8. \A j \in 1 .. i : j \in 1 .. i - 1 \/ j = i
  OBVIOUS
<1> HIDE DEF q
<1>9. \A j \in 1 .. i : \A part \in ToSet(Layers(f)[gs[j].layer].parts) : SliceCopied(f, q, gs[j], part)
  BY <1>6, <1>7, <1>8 DEF g
<1>10. QED
  BY <1>5, <1>9 DEF Copied, q, ext, g

\* A matrix has the rows that the runtime counts.
LEMMA WrittenPartRight ==
  ASSUME NEW f, Plannable(f), NEW layer \in ToSet(MoeLayers(f)), NEW part \in ToSet(Layers(f)[layer].parts)
  PROVE  PartSizeRight(part)
<1>1. PICK i \in 1 .. Len(Kinds(f)) : part = Parts(f, layer)[i]
  BY PartInside
<1> DEFINE t == PagedTensor(f, layer, Kinds(f)[i])
<1>2. part.type = t.type /\ part.ne = SubSeq(t.ne, 1, 2) /\ part.slice_bytes = SliceBytes(t)
  BY <1>1, PartsAre
<1>3. t \in ToSet(Paged(f))
  <2>1. Kinds(f)[i] \in ToSet(Kinds(f))
    BY SomeExpert, Elements
  <2>2. QED
    BY <2>1, KindsAre
<1>4. t \in TensorInfo /\ Sizeable(t) /\ Len(t.ne) = 3
  BY <1>3, PagedTensors
<1> HIDE DEF t
<1>5. SliceBytes(t) = RowBytes(t) * t.ne[2]
  BY <1>4, SliceIs
<1>6. part.ne[1] = t.ne[1] /\ part.ne[2] = t.ne[2]
  <2>1. t.ne \in Seq(Nat)
    BY <1>4 DEF TensorInfo
  <2>2. ASSUME NEW s \in Seq(Nat), Len(s) = 3
        PROVE  SubSeq(s, 1, 2)[1] = s[1] /\ SubSeq(s, 1, 2)[2] = s[2]
    BY <2>2
  <2>3. QED
    BY <1>2, <1>4, <2>1, <2>2
<1>7. QED
  BY <1>2, <1>5, <1>6 DEF PartSizeRight, RowBytes

\* The runtime takes the manifest and the pack, of a file whose layers are all counted.
LEMMA WrittenAccepted ==
  ASSUME NEW f, Plannable(f), NEW man, MadeFor(man, f),
         \A layer \in ToSet(MoeLayers(f)) : layer < Lookup(f, "block_count", 0),
         NEW p, Len(p) = man.pack_file_bytes, p[1] = PACK_MAGIC,
         Apart(man.groups, man.layers, man.pack_file_bytes)
  PROVE  RuntimeAccepts(man, p)
<1>1. /\ man.layers = Layers(f) /\ man.n_expert = NExpert(f)
      /\ DOMAIN man.layers = ToSet(MoeLayers(f))
      /\ man.groups \in Seq(GroupRecords) /\ DOMAIN man.groups = 1 .. Len(man.groups)
      /\ PlanOf(f, man.groups, man.pack_file_bytes)
      /\ man.pack_file_bytes \in Nat
  BY MadeForIs
<1>2. man.whole /\ man.n_layers_total = Lookup(f, "block_count", 0)
  <2>1. man = Manifest(f, man.sha256, man.groups, man.pack_file_bytes)
    BY DEF MadeFor
  <2>2. QED
    BY <2>1 DEF Manifest
<1>3. \A layer \in DOMAIN man.layers :
        /\ layer < man.n_layers_total
        /\ \A part \in ToSet(man.layers[layer].parts) : PartSizeRight(part)
  BY <1>1, <1>2, WrittenPartRight
<1>4. ASSUME NEW g \in ToSet(man.groups)
      PROVE  g.layer \in DOMAIN man.layers /\ g.expert < man.n_expert
  <2>1. PICK i \in 1 .. Len(man.groups) : man.groups[i] = g
    BY <1>1, Elements
  <2>2. man.groups[i].layer \in ToSet(MoeLayers(f)) /\ man.groups[i].expert \in 0 .. NExpert(f) - 1
    BY <1>1, GroupOfPlan, ExpertOfPlan
  <2>3. NExpert(f) \in Nat
    BY SomeExpert
  <2>4. QED
    BY <1>1, <2>1, <2>2, <2>3
<1>5. Len(p) >= EXTENT_ALIGN
  <2>1. PACK_HEADER_BYTES >= EXTENT_ALIGN
    <3>1. /\ PACK_HEADER_BYTES \in Nat \ {0} /\ EXTENT_ALIGN \in Nat \ {0}
          /\ PACK_HEADER_BYTES % EXTENT_ALIGN = 0
      BY RepackAssumption
    <3>2. SUFFICES ASSUME PACK_HEADER_BYTES < EXTENT_ALIGN PROVE FALSE
      BY <3>1
    <3>3. /\ 0 \in Nat /\ PACK_HEADER_BYTES \in 0 .. EXTENT_ALIGN - 1
          /\ PACK_HEADER_BYTES = (EXTENT_ALIGN * 0) + PACK_HEADER_BYTES
      BY <3>1, <3>2
    <3>4. PACK_HEADER_BYTES % EXTENT_ALIGN = PACK_HEADER_BYTES
      BY <3>1, <3>3, QuotientIs
    <3>5. QED
      BY <3>1, <3>4
  <2>2. man.pack_file_bytes >= PACK_HEADER_BYTES
    <3>1. CASE Len(man.groups) = 0
      BY <1>1, <3>1, RepackAssumption DEF PlanOf, Position
    <3>2. CASE Len(man.groups) # 0
      <4>1. 1 \in 1 .. Len(man.groups)
        BY <1>1, <3>2
      <4>2. /\ man.groups[1].offset >= PACK_HEADER_BYTES
            /\ ExtentEnd(man.groups, man.layers, 1) <= man.pack_file_bytes
        BY <1>1, <4>1 DEF Apart
      <4>3. man.groups[1].offset \in Nat /\ Layers(f)[man.groups[1].layer].group_stride \in Nat
        BY <1>1, <4>1, GroupOfPlan
      <4> DEFINE o == man.groups[1].offset
                 stride == Layers(f)[man.groups[1].layer].group_stride
      <4>4. o + stride <= man.pack_file_bytes
        BY <1>1, <4>2 DEF ExtentEnd
      <4> HIDE DEF o, stride
      <4>5. o \in Nat /\ stride \in Nat /\ o >= PACK_HEADER_BYTES
        BY <4>2, <4>3 DEF o, stride
      <4>6. QED
        BY <1>1, <4>4, <4>5, RepackAssumption
    <3>3. QED
      BY <3>1, <3>2
  <2>3. QED
    BY <1>1, <2>1, <2>2, RepackAssumption
<1>6. QED
  BY <1>2, <1>3, <1>4, <1>5 DEF RuntimeAccepts

\* The verifier passes what the repacker has written.
LEMMA WrittenPasses ==
  ASSUME NEW f, Plannable(f), NEW man, MadeFor(man, f), NEW p, p \in Seq(Int),
         Len(p) = man.pack_file_bytes, p # <<>>, Copied(f, p, man.groups, Len(man.groups)),
         NEW picked, picked \subseteq DOMAIN man.groups
  PROVE  /\ HeadersRight(man, f, ResidentOf(f, PackVersionKvs))
         /\ BytesSame(man, f, f, ResidentOf(f, PackVersionKvs), p, picked)
<1>1. man.layers = Layers(f) /\ DOMAIN man.groups = 1 .. Len(man.groups)
  BY MadeForIs
<1>2. read_gguf(f) /\ read_gguf(ResidentOf(f, PackVersionKvs))
  BY VersionKvsPlain, ResidentReadable DEF Plannable
<1>3. Accounted(man, f, ResidentOf(f, PackVersionKvs))
  BY VersionKvsPlain, WrittenAccounted
<1>4. ResidentSame(f, f, ResidentOf(f, PackVersionKvs))
  BY VersionKvsPlain, WrittenSame
<1>5. PackFileRight(man, p)
  BY DEF PackFileRight, Copied
<1>6. \A i \in picked : ExtentSame(man, f, f, p, man.groups[i])
  BY <1>1 DEF Copied, SliceCopied, ExtentSame
<1>7. QED
  BY <1>2, <1>3, <1>4, <1>5, <1>6 DEF HeadersRight, BytesSame

\* The files that the repacker has finished for the file with number id.
WrittenFor(id, p, res, man) ==
  /\ Copied(Files[id], p, man.groups, Len(man.groups))
  /\ res = ResidentOf(Files[id], PackVersionKvs)
  /\ man.sha256 \in {NoHash, id}
  /\ Len(p) = man.pack_file_bytes
  /\ p # <<>>

\* How far the running repacker is, if it copies from the file that it has planned.
WrittenSoFar(id, p, res, at, next, sha, gs) ==
  /\ sha \in {NoHash, id}
  /\ at \in {"pack", "manifest"} => p # <<>>
  /\ at = "pack" => Copied(Files[id], p, gs, next - 1)
  /\ at = "manifest" => /\ Copied(Files[id], p, gs, Len(gs))
                        /\ res = ResidentOf(Files[id], PackVersionKvs)

\* While nothing has gone wrong, the pack and the resident file are those of the source,
\* as far as they are written, and no verification has failed.
Written ==
  history.honest =>
    /\ history.last.verdict # "fail"
    /\ IF Repacking
       THEN WrittenSoFar(job.info, pack, resident, tool, job.next, job.sha, groups)
       ELSE WrittenFor(source, pack, resident, manifest)

\* A step that leaves the source, the pack, the resident file and the manifest alone.
LEMMA WrittenKept ==
  ASSUME Written, ~Repacking, ~Repacking', UNCHANGED <<source, pack, resident, manifest>>,
         history'.honest => history.honest /\ history'.last.verdict # "fail"
  PROVE  Written'
<1>1. SUFFICES ASSUME history'.honest PROVE Written'
  BY DEF Written
<1>2. WrittenFor(source, pack, resident, manifest)
  BY <1>1 DEF Written
<1>3. WrittenFor(source', pack', resident', manifest')
  BY <1>2
<1>4. WrittenFor(source, pack, resident, manifest)'
  BY <1>3 DEF WrittenFor, Copied, SliceCopied, ResidentOf
<1>5. QED
  BY <1>4 DEF Written

\* While the repacker runs, and nothing has gone wrong, it copies from what it has planned.
LEMMA OneSource ==
  ASSUME Typed, Progress, HonestOK, Written, history.honest, Repacking
  PROVE  /\ job.info = source /\ source \in DOMAIN Files /\ Plannable(Info)
         /\ tool \in {"pack", "manifest"} => job.src_f = source /\ Files[job.src_f] = Info
         /\ WrittenSoFar(job.info, pack, resident, tool, job.next, job.sha, groups)
         /\ history.last.verdict # "fail"
<1>1. job.info = source /\ (tool \in {"pack", "manifest"} => job.src_f = source)
  BY DEF HonestOK
<1>2. source \in DOMAIN Files /\ Plannable(Info)
  BY SourcesTyped DEF Typed
<1>3. QED
  BY <1>1, <1>2 DEF Info, Written

\* A step of the repacker that goes on.
LEMMA WrittenGoesOn ==
  ASSUME Repacking', history'.last.verdict # "fail",
         WrittenSoFar(job'.info, pack', resident', tool', job'.next, job'.sha, groups')
  PROVE  Written'
<1>1. WrittenSoFar(job.info, pack, resident, tool, job.next, job.sha, groups)'
  BY DEF WrittenSoFar, Copied, SliceCopied, ResidentOf
<1>2. QED
  BY <1>1 DEF Written

\* The repacker writes the files of the source.
LEMMA RepackerWrites == Inv /\ HonestOK /\ Written /\ Repacker => Written'
<1> SUFFICES ASSUME Inv, HonestOK, Written, Repacker PROVE Written'
  OBVIOUS
<1>0. /\ Typed /\ Progress /\ PlanInv
      /\ history \in Histories /\ job \in Jobs /\ pack \in Seq(Int)
  BY DEF Inv, Typed
<1>1. ASSUME ~history'.honest
      PROVE  Written'
  BY <1>1 DEF Written
<1>2. ASSUME NEW by, NEW hash, StartRepack(by, hash)
      PROVE  Written'
  <2>1. job'.sha = NoHash /\ tool' = "plan"
    BY <1>2 DEF StartRepack, NoJob
  <2>2. history'.last.verdict # "fail"
    BY <1>0, <1>2 DEF StartRepack, Unverified, Histories
  <2>3. WrittenSoFar(job'.info, pack', resident', tool', job'.next, job'.sha, groups')
    BY <2>1 DEF WrittenSoFar
  <2>4. QED
    BY <2>1, <2>2, <2>3, WrittenGoesOn DEF Repacking
<1>3. CASE PlanExtent \/ HashSource
  <2>1. SUFFICES ASSUME history.honest PROVE Written'
    BY <1>1, <1>3 DEF PlanExtent, HashSource
  <2>2. Repacking /\ tool' \in {"plan", "open"} /\ job'.info = job.info /\ history' = history
    BY <1>0, <1>3 DEF PlanExtent, HashSource, Repacking, Jobs
  <2>3. job.info = source /\ job.sha \in {NoHash, job.info} /\ history.last.verdict # "fail"
    BY <1>0, <2>1, <2>2, OneSource DEF WrittenSoFar
  <2>4. job'.sha \in {NoHash, job'.info}
    <3>1. job'.sha \in {job.sha, source, NoHash}
      BY <1>0, <1>3 DEF PlanExtent, HashSource, Jobs
    <3>2. QED
      BY <2>2, <2>3, <3>1
  <2>5. WrittenSoFar(job'.info, pack', resident', tool', job'.next, job'.sha, groups')
    BY <2>2, <2>4 DEF WrittenSoFar
  <2>6. QED
    BY <2>2, <2>3, <2>5, WrittenGoesOn DEF Repacking
<1>4. CASE OpenSource
  <2>1. SUFFICES ASSUME history.honest PROVE Written'
    BY <1>0, <1>1, <1>4 DEF OpenSource, Histories
  <2>2. /\ Repacking /\ tool' = "pack" /\ job'.info = job.info /\ job'.sha = job.sha /\ job'.next = 1
        /\ pack' = PackHeader /\ groups' = groups /\ history'.last = history.last
    BY <1>0, <1>4 DEF OpenSource, Repacking, Jobs, Histories, plan
  <2>3. job.sha \in {NoHash, job.info} /\ history.last.verdict # "fail"
    BY <1>0, <2>1, <2>2, OneSource DEF WrittenSoFar
  <2>4. pack' # <<>>
    <3>1. PackHeader \in Seq(Int) /\ Len(PackHeader) # 0
      BY PackHeaderIs, RepackAssumption
    <3>2. QED
      BY <2>2, <3>1
  <2>5. Copied(Files[job'.info], pack', groups', job'.next - 1)
    BY <2>2, HeaderFirst DEF Copied
  <2>6. WrittenSoFar(job'.info, pack', resident', tool', job'.next, job'.sha, groups')
    BY <2>2, <2>3, <2>4, <2>5 DEF WrittenSoFar
  <2>7. QED
    BY <2>2, <2>3, <2>6, WrittenGoesOn DEF Repacking
<1>5. CASE WriteExtent
  <2>1. SUFFICES ASSUME history.honest PROVE Written'
    BY <1>1, <1>5 DEF WriteExtent
  <2>2. /\ Repacking /\ tool = "pack" /\ tool' = "pack" /\ job'.info = job.info /\ job'.sha = job.sha
        /\ job'.next = job.next + 1 /\ groups' = groups /\ history' = history
        /\ pack' = pack \o Extent(Info, Files[job.src_f], groups[job.next])
    BY <1>0, <1>5 DEF WriteExtent, Repacking, Jobs, plan
  <2>3. /\ Plannable(Info) /\ Files[job.src_f] = Info /\ history.last.verdict # "fail"
        /\ job.sha \in {NoHash, job.info} /\ pack # <<>> /\ Copied(Info, pack, groups, job.next - 1)
    BY <1>0, <2>1, <2>2, OneSource DEF WrittenSoFar, Info
  <2>4. /\ PlanOf(Info, groups, off) /\ Len(groups) \in Nat
        /\ job.next \in 1 .. Len(groups) /\ Len(pack) = groups[job.next].offset
    BY <1>0, <1>5, <2>2 DEF Progress, WriteExtent, Position, PlanOf
  <2> DEFINE i == job.next
             ext == Extent(Info, Info, groups[i])
  <2> HIDE DEF i
  <2>5. /\ Plannable(Info) /\ PlanOf(Info, groups, off) /\ i \in 1 .. Len(groups) /\ pack \in Seq(Int)
        /\ Len(pack) = groups[i].offset /\ pack # <<>> /\ Copied(Info, pack, groups, i - 1)
    BY <1>0, <2>3, <2>4 DEF i
  <2>6. Copied(Info, pack \o ext, groups, i)
    BY ONLY <2>5, CopyGrows
  <2>7. pack' = pack \o ext /\ pack' # <<>>
    <3>1. pack' = pack \o ext
      BY <2>2, <2>3 DEF i
    <3>2. Len(pack') = Len(pack) + Len(ext) /\ ext \in Seq(Int) /\ pack' \in Seq(Int)
      BY <1>0, <1>5, <2>3, <3>1, ExtentWritten DEF i
    <3>3. Len(pack) \in Nat /\ Len(pack) # 0 /\ Len(ext) \in Nat
      BY <2>5, <3>2
    <3> HIDE DEF ext
    <3>4. QED
      BY <3>1, <3>2, <3>3
  <2>8. i \in Nat /\ (i + 1) - 1 = i
    BY <2>4 DEF i
  <2>9. Copied(Files[job'.info], pack', groups', job'.next - 1)
    BY <2>2, <2>6, <2>7, <2>8 DEF Info, i
  <2>10. WrittenSoFar(job'.info, pack', resident', tool', job'.next, job'.sha, groups')
    BY <2>2, <2>3, <2>7, <2>9 DEF WrittenSoFar
  <2>11. QED
    BY <2>2, <2>3, <2>10, WrittenGoesOn DEF Repacking
<1>6. CASE WriteResident
  <2>1. SUFFICES ASSUME history.honest PROVE Written'
    BY <1>1, <1>6 DEF WriteResident
  <2>2. /\ Repacking /\ tool = "pack" /\ tool' = "manifest" /\ job' = job /\ pack' = pack
        /\ groups' = groups /\ history' = history
        /\ resident' = write_subset_gguf(Info, Files[job.src_f], Resident(Info), PackVersionKvs)
    BY <1>6 DEF WriteResident, Repacking, plan
  <2>3. /\ Files[job.src_f] = Info /\ history.last.verdict # "fail"
        /\ job.sha \in {NoHash, job.info} /\ pack # <<>> /\ Copied(Info, pack, groups, job.next - 1)
    BY <1>0, <2>1, <2>2, OneSource DEF WrittenSoFar, Info
  <2>4. job.next - 1 = Len(groups)
    <3>1. job.next \in 1 .. Len(groups) + 1 /\ job.next > Len(groups) /\ Len(groups) \in Nat
      BY <1>0, <1>6, <2>2 DEF Progress, WriteResident, PlanOf
    <3>2. QED
      BY <3>1
  <2>5. resident' = ResidentOf(Info, PackVersionKvs)
    BY <2>2, <2>3 DEF ResidentOf
  <2>6. Copied(Info, pack, groups, Len(groups))
    BY <2>3, <2>4
  <2>7. WrittenSoFar(job'.info, pack', resident', tool', job'.next, job'.sha, groups')
    BY <2>2, <2>3, <2>5, <2>6 DEF WrittenSoFar, Info
  <2>8. QED
    BY <2>2, <2>3, <2>7, WrittenGoesOn DEF Repacking
<1>7. CASE WriteManifest
  <2>1. SUFFICES ASSUME history.honest PROVE Written'
    BY <1>0, <1>1, <1>7 DEF WriteManifest, Histories
  <2>2. /\ Repacking /\ tool = "manifest" /\ ~Repacking' /\ source' = source /\ pack' = pack
        /\ resident' = resident /\ history'.last = history.last
        /\ manifest' = Manifest(Info, job.sha, groups, off)
    BY <1>0, <1>7 DEF WriteManifest, Repacking, Histories
  <2>3. /\ job.info = source /\ history.last.verdict # "fail"
        /\ job.sha \in {NoHash, source} /\ pack # <<>> /\ Copied(Info, pack, groups, Len(groups))
        /\ resident = ResidentOf(Info, PackVersionKvs)
    BY <1>0, <2>1, <2>2, OneSource DEF WrittenSoFar, Info
  <2>4. Len(pack) = off
    BY <1>0, <2>2 DEF Progress
  <2>5. manifest'.groups = groups /\ manifest'.sha256 = job.sha /\ manifest'.pack_file_bytes = off
    BY <2>2 DEF Manifest
  <2>6. WrittenFor(source', pack', resident', manifest')
    BY <2>2, <2>3, <2>4, <2>5 DEF WrittenFor, Info
  <2>7. WrittenFor(source, pack, resident, manifest)'
    BY <2>6 DEF WrittenFor, Copied, SliceCopied, ResidentOf
  <2>8. QED
    BY <2>2, <2>3, <2>7 DEF Written
<1>8. CASE CopyEndsEarly
  <2>1. ~history.honest
    BY <1>0, <1>8, CopyIsWhole
  <2>2. QED
    BY <1>1, <1>8, <2>1 DEF CopyEndsEarly
<1>9. QED
  BY <1>2, <1>3, <1>4, <1>5, <1>6, <1>7, <1>8 DEF Repacker

\* At rest, and while nothing has gone wrong, each of the verifier's steps passes.
LEMMA NothingFails ==
  ASSUME Inv, HonestOK, Written, history.honest, ~Repacking
  PROVE  /\ RightSize(manifest, Files[source]) /\ RightHash(manifest, source)
         /\ HeadersRight(manifest, Files[source], resident)
         /\ \A picked \in SUBSET DOMAIN manifest.groups :
              BytesSame(manifest, Files[source], Files[source], resident, pack, picked)
         /\ Plannable(Files[source]) /\ MadeFor(manifest, Files[source])
         /\ WrittenFor(source, pack, resident, manifest)
<1> DEFINE f == Files[source]
<1>1. manifest.whole /\ Repackable(f) /\ MadeFor(manifest, f)
  BY DEF HonestOK
<1>2. WrittenFor(source, pack, resident, manifest)
  BY DEF Written
<1>3. Plannable(f) /\ pack \in Seq(Int)
  BY <1>1, FilesPlannable DEF Inv, Typed
<1>4. manifest.size = file_size(f)
  <2>1. manifest = Manifest(f, manifest.sha256, manifest.groups, manifest.pack_file_bytes)
    BY <1>1 DEF MadeFor
  <2>2. QED
    BY <2>1 DEF Manifest
<1>5. RightSize(manifest, f) /\ RightHash(manifest, source)
  BY <1>1, <1>2, <1>4 DEF RightSize, RightHash, WrittenFor
<1> HIDE DEF f
<1>6. /\ Copied(f, pack, manifest.groups, Len(manifest.groups)) /\ pack # <<>>
      /\ resident = ResidentOf(f, PackVersionKvs) /\ Len(pack) = manifest.pack_file_bytes
  BY <1>2 DEF WrittenFor, f
<1>7. \A picked \in SUBSET DOMAIN manifest.groups :
        HeadersRight(manifest, f, resident) /\ BytesSame(manifest, f, f, resident, pack, picked)
  BY <1>1, <1>3, <1>6, WrittenPasses
<1>8. QED
  BY <1>1, <1>2, <1>3, <1>5, <1>7 DEF f

\* Every step keeps what is written.
LEMMA WrittenStep == Inv /\ HonestOK /\ Written /\ [Next]_vars => Written'
<1> SUFFICES ASSUME Inv, HonestOK, Written, [Next]_vars PROVE Written'
  OBVIOUS
<1>0. /\ Typed /\ Progress /\ history \in Histories
  BY DEF Inv, Typed
<1>1. ASSUME ~history'.honest
      PROVE  Written'
  BY <1>1 DEF Written
<1>2. CASE Repacker
  BY <1>2, RepackerWrites
<1>3. ASSUME NEW by \in {"user", "launcher"}, NEW quick, NEW picked,
             CheckSize(by, quick, picked) \/ CheckHash \/ ReadHeaders
      PROVE  Written'
  <2>1. ~Repacking /\ ~Repacking' /\ UNCHANGED <<source, pack, resident, manifest>>
    BY <1>3, Ended DEF CheckSize, CheckHash, ReadHeaders, Repacking, files
  <2>2. CASE history.honest
    <3>1. /\ RightSize(manifest, Files[source]) /\ RightHash(manifest, source)
          /\ HeadersRight(manifest, Files[source], resident)
      BY <2>1, <2>2, NothingFails
    <3>2. history' = history /\ history.last.verdict # "fail"
      BY <1>3, <2>2, <3>1 DEF CheckSize, CheckHash, ReadHeaders, Written
    <3>3. QED
      BY <2>1, <2>2, <3>2, WrittenKept
  <2>3. CASE ~history.honest
    <3>1. ~history'.honest
      BY <1>0, <1>3, <2>3, FailsTyped DEF CheckSize, CheckHash, ReadHeaders
    <3>2. QED
      BY <1>1, <3>1
  <2>4. QED
    BY <2>2, <2>3
<1>4. CASE Compare
  <2>1. ~Repacking /\ ~Repacking' /\ UNCHANGED <<source, pack, resident, manifest>>
    BY <1>4, Ended DEF Compare, Repacking, files
  <2>2. CASE history.honest
    <3>1. job.picked \in SUBSET DOMAIN manifest.groups
      BY <1>0, <1>4 DEF Compare, Progress
    <3>2. BytesSame(manifest, Info, Files[source], resident, pack, job.picked)
      <4>1. Info = Files[source]
        BY <1>4, <2>1, <2>2 DEF Compare, HonestOK, Info
      <4>2. QED
        BY <2>1, <2>2, <3>1, <4>1, NothingFails
    <3>3. history' = [history EXCEPT !.last = [verdict |-> "pass", info |-> job.info,
                                             of |-> source, picked |-> job.picked]]
      BY <1>4, <3>2 DEF Compare
    <3>4. history'.last.verdict # "fail"
      BY <1>0, <3>3 DEF Histories
    <3>5. QED
      BY <2>1, <2>2, <3>4, WrittenKept
  <2>3. CASE ~history.honest
    <3>1. ~history'.honest
      <4>1. CASE BytesSame(manifest, Info, Files[source], resident, pack, job.picked)
        <5>1. history' = [history EXCEPT !.last = [verdict |-> "pass", info |-> job.info,
                                                 of |-> source, picked |-> job.picked]]
          BY <1>4, <4>1 DEF Compare
        <5>2. QED
          BY <1>0, <2>3, <5>1 DEF Histories
      <4>2. CASE ~BytesSame(manifest, Info, Files[source], resident, pack, job.picked)
        BY <1>0, <1>4, <2>3, <4>2, FailsTyped DEF Compare
      <4>3. QED
        BY <4>1, <4>2
    <3>2. QED
      BY <1>1, <3>1
  <2>4. QED
    BY <2>2, <2>3
<1>5. CASE Launcher
  <2>1. ~Repacking /\ ~Repacking' /\ UNCHANGED <<source, pack, resident, manifest, history>>
    BY <1>5, Ended DEF Launcher, UseExistingPack, Serve, StopServing, Repacking, files
  <2>2. history.honest => history.last.verdict # "fail"
    BY DEF Written
  <2>3. QED
    BY <2>1, <2>2, WrittenKept
<1>6. CASE ReplaceSource \/ KillRepack \/ KillVerify
  <2>1. ~history'.honest
    BY <1>0, <1>6, FaultTyped DEF ReplaceSource, KillRepack, KillVerify
  <2>2. QED
    BY <1>1, <2>1
<1>7. CASE FlipByte
  <2>1. [history EXCEPT !.last = Unverified] \in Histories
    BY <1>0 DEF Histories, Unverified, Ids
  <2>2. ~history'.honest
    BY <1>0, <1>7, <2>1, FaultTyped DEF FlipByte
  <2>3. QED
    BY <1>1, <2>2
<1>8. CASE UNCHANGED vars
  <2>1. UNCHANGED <<source, pack, resident, manifest, tool, job, groups, history>>
    BY <1>8 DEF vars, files, plan
  <2>2. CASE Repacking
    <3>1. CASE history.honest
      <4>1. WrittenSoFar(job'.info, pack', resident', tool', job'.next, job'.sha, groups')
        BY <2>1, <2>2, <3>1 DEF Written
      <4>2. Repacking' /\ history'.last.verdict # "fail"
        BY <2>1, <2>2, <3>1 DEF Repacking, Written
      <4>3. QED
        BY <4>1, <4>2, WrittenGoesOn
    <3>2. CASE ~history.honest
      BY <1>1, <2>1, <3>2
    <3>3. QED
      BY <3>1, <3>2
  <2>3. CASE ~Repacking
    <3>1. ~Repacking'
      BY <2>1, <2>3 DEF Repacking
    <3>2. history.honest => history.last.verdict # "fail"
      BY DEF Written
    <3>3. QED
      BY <2>1, <2>3, <3>1, <3>2, WrittenKept
  <2>4. QED
    BY <2>2, <2>3
<1>9. QED
  BY <1>2, <1>3, <1>4, <1>5, <1>6, <1>7, <1>8 DEF Next, Verifier, Faults

\* A file that the repacker lets through numbers its layers below its block_count.  The
\* repacker copies that number without a look at it (repack_gguf:266), and the runtime
\* checks the manifest's layers against it.
LayersCounted ==
  \A id \in DOMAIN Files : Repackable(Files[id]) =>
    \A layer \in ToSet(MoeLayers(Files[id])) : layer < Lookup(Files[id], "block_count", 0)

\* For every set of files that the path may come to hold: if nothing goes wrong from the
\* start of a repack to the verification, the verification passes, and the runtime takes
\* what was written.
THEOREM HonestPassesTheorem ==
  ASSUME LayersCounted
  PROVE  Spec => []HonestPasses
<1>1. Inv /\ HonestOK /\ Written => HonestPasses
  <2> SUFFICES ASSUME Inv, HonestOK, Written, history.honest
               PROVE  /\ history.last.verdict # "fail"
                      /\ tool = "serve" => RuntimeAccepts(manifest, pack) /\ read_gguf(resident)
    BY DEF HonestPasses
  <2>1. history.last.verdict # "fail"
    BY DEF Written
  <2>2. ASSUME tool = "serve"
        PROVE  RuntimeAccepts(manifest, pack) /\ read_gguf(resident)
    <3> DEFINE f == Files[source]
    <3>1. ~Repacking
      BY <2>2 DEF Repacking
    <3>2. /\ Plannable(f) /\ MadeFor(manifest, f)
          /\ WrittenFor(source, pack, resident, manifest)
      BY <3>1, NothingFails
    <3>3. /\ manifest.whole /\ Repackable(f) /\ source \in DOMAIN Files
          /\ Apart(manifest.groups, manifest.layers, manifest.pack_file_bytes)
      BY <3>1 DEF HonestOK, Inv, PlanInv, ExtentsApart, Typed
    <3>4. \A layer \in ToSet(MoeLayers(f)) : layer < Lookup(f, "block_count", 0)
      BY <3>3 DEF LayersCounted
    <3> HIDE DEF f
    <3>5. /\ Len(pack) = manifest.pack_file_bytes /\ pack[1] = PACK_MAGIC
          /\ resident = ResidentOf(f, PackVersionKvs)
      BY <3>2 DEF WrittenFor, Copied, f
    <3>6. RuntimeAccepts(manifest, pack)
      BY <3>2, <3>3, <3>4, <3>5, WrittenAccepted
    <3>7. read_gguf(resident)
      BY <3>2, <3>5, VersionKvsPlain, ResidentReadable
    <3>8. QED
      BY <3>6, <3>7
  <2>3. QED
    BY <2>1, <2>2
<1>2. Init => HonestOK /\ Written
  BY DEF Init, HonestOK, Written
<1>3. Inv /\ HonestOK /\ Written /\ [Next]_vars => HonestOK' /\ Written'
  BY HonestStep, WrittenStep DEF Inv
<1>4. QED
  BY <1>1, <1>2, <1>3, InvHolds, PTL DEF Spec
=============================================================================
