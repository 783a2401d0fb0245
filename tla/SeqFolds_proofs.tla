--------------------------- MODULE SeqFolds_proofs ---------------------------
(***************************************************************************)
(* Induction on numbers, and what the recursive definitions compute for    *)
(* every sequence: FlattenSeq of the library, and the loops and the sorted *)
(* sequences of SeqFolds.  The provers cannot instantiate an induction     *)
(* theorem whose parameter is a formula; SetInduction has a set instead,   *)
(* that of the numbers which satisfy it.                                   *)
(***************************************************************************)
EXTENDS SeqFolds, FiniteSetTheorems, SequenceTheorems, WellFoundedInduction, TLAPS

\* Every set of numbers that is not empty has a least element.
LEMMA Least ==
  ASSUME NEW T \in SUBSET Nat, T # {}
  PROVE  \E x \in T : \A y \in T : x <= y
<1> DEFINE R == {ss \in Nat \X Nat : ss[1] < ss[2]}
<1>1. IsWellFoundedOn(R, Nat)
  BY NatLessThanWellFounded, Zenon DEF OpToRel
<1>2. \A x, y \in Nat : x < y => <<x, y>> \in R
  OBVIOUS
<1> HIDE DEF R
<1>3. PICK x \in T : \A y \in T : ~(<<y, x>> \in R)
  BY <1>1, WFMin, Zenon
<1>4. ASSUME NEW y \in T PROVE x <= y
  <2>1. x \in Nat /\ y \in Nat
    OBVIOUS
  <2>2. ~(y < x)
    BY <1>2, <1>3, <2>1
  <2>3. QED
    BY <2>1, <2>2
<1>5. QED
  BY <1>4

\* Induction: a set with 0 in it, and with each number the next one, has them all.
LEMMA SetInduction ==
  ASSUME NEW P, 0 \in P, \A n \in Nat : n \in P => n + 1 \in P
  PROVE  Nat \subseteq P
<1> DEFINE T == Nat \ P
<1>1. SUFFICES ASSUME T # {} PROVE FALSE
  OBVIOUS
<1>2. PICK x \in T : \A y \in T : x <= y
  BY <1>1, Least
<1>3. x # 0
  OBVIOUS
<1>4. x - 1 \in Nat /\ x - 1 \notin T
  BY <1>2, <1>3
<1>5. x \in P
  BY <1>4
<1>6. QED
  BY <1>5

\* Functions defined by recursion exist.
IsRecursion(f, S, b, m, step) ==
  f \in [0 .. m -> S] /\ f[0] = b /\ \A i \in 1 .. m : f[i] = step[i][f[i - 1]]

\* A function on 0 .. m can be defined step by step.
LEMMA Recursion ==
  ASSUME NEW S, NEW b \in S, NEW m \in Nat, NEW step \in [1 .. m -> [S -> S]]
  PROVE  \E f : IsRecursion(f, S, b, m, step)
<1> DEFINE Rec(f, n) == f \in [0 .. n -> S] /\ f[0] = b /\ \A i \in 1 .. n : f[i] = step[i][f[i - 1]]
           P == {n \in Nat : n <= m => \E f : Rec(f, n)}
<1>1. 0 \in P
  <2>1. Rec([i \in 0 .. 0 |-> b], 0)
    OBVIOUS
  <2>2. QED
    BY <2>1
<1>2. ASSUME NEW n \in P PROVE n + 1 \in P
  <2>1. n \in Nat /\ n + 1 \in Nat
    OBVIOUS
  <2>2. SUFFICES ASSUME n + 1 <= m PROVE \E f : Rec(f, n + 1)
    BY <2>1
  <2>3. PICK f : Rec(f, n)
    BY <2>1, <2>2
  <2>4. f \in [0 .. n -> S] /\ n + 1 \in 1 .. m
    BY <2>1, <2>2, <2>3
  <2> DEFINE e == step[n + 1][f[n]]
             g == [i \in 0 .. n + 1 |-> IF i = n + 1 THEN e ELSE f[i]]
  <2>5. e \in S
    BY <2>1, <2>4
  <2> HIDE DEF e
  <2>6. g \in [0 .. n + 1 -> S] /\ g[n + 1] = e /\ \A i \in 0 .. n : g[i] = f[i]
    BY <2>1, <2>4, <2>5
  <2> HIDE DEF g
  <2>7. ASSUME NEW i \in 1 .. n + 1 PROVE g[i] = step[i][g[i - 1]]
    <3>1. CASE i = n + 1
      BY <2>1, <2>6, <3>1 DEF e
    <3>2. CASE i # n + 1
      <4>1. i \in 1 .. n /\ i \in 0 .. n /\ i - 1 \in 0 .. n
        BY <2>1, <3>2
      <4>2. f[i] = step[i][f[i - 1]]
        BY <2>3, <4>1
      <4>3. QED
        BY <2>6, <4>1, <4>2
    <3>3. QED
      BY <3>1, <3>2
  <2>8. g[0] = b
    BY <2>1, <2>3, <2>6
  <2>9. Rec(g, n + 1)
    BY <2>6, <2>7, <2>8
  <2>10. QED
    BY <2>9
<1>3. m \in P
  <2> HIDE DEF P
  <2>1. QED
    BY <1>1, <1>2, SetInduction
<1>4. QED
  BY <1>3 DEF IsRecursion

\* FlattenSeq appends one part after the other.
LEMMA Flatten ==
  ASSUME NEW S, NEW ss, ss \in Seq(Seq(S))
  PROVE  \E f \in [0 .. Len(ss) -> Seq(S)] :
           /\ f[0] = <<>>
           /\ \A i \in 1 .. Len(ss) : f[i] = f[i - 1] \o ss[i]
           /\ FlattenSeq(ss) = f[Len(ss)]
<1> DEFINE N == Len(ss)
           T == Seq(S)
           step == [i \in 1 .. N |-> [s \in T |-> s \o ss[i]]]
<1>1. N \in Nat /\ \A i \in 1 .. N : ss[i] \in T
  OBVIOUS
<1>2. step \in [1 .. N -> [T -> T]]
  BY <1>1
<1>3. \A i \in 1 .. N : \A s \in T : step[i][s] = s \o ss[i]
  OBVIOUS
<1>4. <<>> \in T /\ \A s \in T : <<>> \o s = s
  OBVIOUS
<1>5. PICK f : f \in [0 .. N -> T] /\ f[0] = <<>> /\ \A i \in 1 .. N : f[i] = step[i][f[i - 1]]
  <2> DEFINE b == <<>>
  <2>1. N \in Nat /\ b \in T
    BY <1>1, <1>4
  <2>2. \E f : IsRecursion(f, T, b, N, step)
    <3> HIDE DEF b, N, T, step
    <3>1. QED
      BY ONLY <1>2, <2>1, Recursion
  <2>3. QED
    BY <2>2, Zenon DEF IsRecursion
<1>6. ASSUME NEW i \in 1 .. N
      PROVE  i - 1 \in 0 .. N /\ f[i - 1] \in T /\ f[i] = f[i - 1] \o ss[i]
  <2> HIDE DEF N, T, step
  <2>1. i - 1 \in 0 .. N
    BY <1>1
  <2>2. f[i - 1] \in T
    BY <1>5, <2>1
  <2>3. QED
    BY <1>3, <1>5, <2>1, <2>2
<1>7. CASE N = 0
  BY <1>5, <1>7 DEF FlattenSeq
<1>8. CASE N # 0
  <2> DEFINE D == 1 .. N
             Rec(g) == g = [i \in D |-> IF i = 1 THEN ss[i] ELSE g[i - 1] \o ss[i]]
             h == [i \in D |-> f[i]]
             fl == CHOOSE g : Rec(g)
  <2>0. \A i \in D : h[i] = f[i]
    OBVIOUS
  <2>1. Rec(h)
    <3>1. ASSUME NEW i \in D PROVE f[i] = IF i = 1 THEN ss[i] ELSE h[i - 1] \o ss[i]
      <4> HIDE DEF N, T, step, h
      <4>1. CASE i = 1
        <5>1. f[i - 1] = <<>> /\ ss[i] \in T
          BY <1>1, <1>5, <4>1
        <5>2. QED
          BY <1>4, <1>6, <4>1, <5>1
      <4>2. CASE i # 1
        <5>1. i - 1 \in D
          BY <1>1, <4>2
        <5>2. QED
          BY <1>6, <2>0, <4>2, <5>1
      <4>3. QED
        BY <4>1, <4>2
    <3>2. QED
      BY <3>1, Zenon
  <2>2. Rec(fl)
    BY <2>1, Zenon
  <2>3. FlattenSeq(ss) = fl[N]
    BY <1>8, Zenon DEF FlattenSeq
  <2>4. ASSUME NEW i \in D PROVE fl[i] = IF i = 1 THEN ss[i] ELSE fl[i - 1] \o ss[i]
    <3> DEFINE fr == [k \in D |-> IF k = 1 THEN ss[k] ELSE fl[k - 1] \o ss[k]]
    <3>1. fl = fr
      BY <2>2, Zenon
    <3>2. fr[i] = IF i = 1 THEN ss[i] ELSE fl[i - 1] \o ss[i]
      OBVIOUS
    <3>3. QED
      BY <3>1, <3>2, Zenon
  <2> DEFINE P == {n \in Nat : n \in D => fl[n] = f[n]}
  <2>5. 0 \in P
    OBVIOUS
  <2>6. ASSUME NEW n \in P PROVE n + 1 \in P
    <3> HIDE DEF N, T, step, fl, h
    <3>1. n \in Nat /\ n + 1 \in Nat
      OBVIOUS
    <3>2. SUFFICES ASSUME n + 1 \in D PROVE fl[n + 1] = f[n + 1]
      BY <3>1
    <3>3. (n + 1) - 1 = n
      BY <3>1
    <3>4. CASE n = 0
      <4>1. n + 1 = 1 /\ ss[1] \in T
        BY <1>1, <3>2, <3>4
      <4>2. fl[n + 1] = ss[1]
        BY <2>4, <3>2, <4>1
      <4>3. f[n + 1] = f[0] \o ss[1]
        BY <1>6, <3>2, <3>3, <3>4, <4>1
      <4>4. QED
        BY <1>4, <1>5, <4>1, <4>2, <4>3
    <3>5. CASE n # 0
      <4>1. n \in D /\ n + 1 # 1
        BY <1>1, <3>1, <3>2, <3>5
      <4>2. fl[n] = f[n]
        BY <3>1, <4>1
      <4>3. fl[n + 1] = fl[n] \o ss[n + 1]
        BY <2>4, <3>2, <3>3, <4>1
      <4>4. f[n + 1] = f[n] \o ss[n + 1]
        BY <1>6, <3>2, <3>3
      <4>5. QED
        BY <4>2, <4>3, <4>4
    <3>6. QED
      BY <3>4, <3>5
  <2>7. Nat \subseteq P
    <3> HIDE DEF P
    <3>1. QED
      BY <2>5, <2>6, SetInduction
  <2>8. fl[N] = f[N]
    <3> HIDE DEF N, T, step, fl, h
    <3>1. N \in D
      BY <1>1, <1>8
    <3>2. QED
      BY <1>1, <2>7, <3>1
  <2>9. QED
    BY <1>5, <1>6, <2>3, <2>8
<1>9. QED
  BY <1>7, <1>8

\* A recursion has one solution.
Follows(g, f, m, step) ==
  g[0] = f[0] /\ \A i \in 1 .. m : g[i - 1] = f[i - 1] => g[i] = step[i][g[i - 1]]

\* Two functions that begin alike and follow the same steps are equal.
LEMMA RecursionUnique ==
  ASSUME NEW S, NEW b, NEW m \in Nat, NEW step, NEW f, IsRecursion(f, S, b, m, step),
         NEW g, Follows(g, f, m, step)
  PROVE  \A i \in 0 .. m : g[i] = f[i]
<1> DEFINE P == {n \in Nat : n <= m => g[n] = f[n]}
<1>1. 0 \in P
  BY DEF Follows
<1>2. ASSUME NEW n \in P PROVE n + 1 \in P
  <2>1. n \in Nat /\ n + 1 \in Nat
    OBVIOUS
  <2>2. SUFFICES ASSUME n + 1 <= m PROVE g[n + 1] = f[n + 1]
    BY <2>1
  <2>3. n + 1 \in 1 .. m /\ (n + 1) - 1 = n /\ g[n] = f[n]
    BY <2>1, <2>2
  <2>4. QED
    BY <2>3 DEF IsRecursion, Follows
<1>3. Nat \subseteq P
  <2> HIDE DEF P
  <2>1. QED
    BY <1>1, <1>2, SetInduction
<1>4. QED
  BY <1>3

\* The smallest element of a set of numbers.
LEMMA MinIs ==
  ASSUME NEW T \in SUBSET Nat, T # {}
  PROVE  Min(T) \in T /\ \A y \in T : Min(T) <= y
<1>1. \E x \in T : \A y \in T : x <= y
  BY Least
<1>2. QED
  BY <1>1 DEF Min

\* The largest element of a bounded set of numbers.
LEMMA MaxIs ==
  ASSUME NEW n \in Nat, NEW T \in SUBSET (1 .. n), T # {}
  PROVE  Max(T) \in T /\ \A y \in T : Max(T) >= y
<1> DEFINE Bounds == {b \in Nat : \A y \in T : y <= b}
<1>1. n \in Bounds
  OBVIOUS
<1>2. PICK b \in Bounds : \A c \in Bounds : b <= c
  <2> HIDE DEF Bounds
  <2>1. Bounds \in SUBSET Nat
    BY DEF Bounds
  <2>2. QED
    BY <1>1, <2>1, Least
<1>3. b \in T
  <2>1. SUFFICES ASSUME b \notin T PROVE FALSE
    OBVIOUS
  <2>2. b \in Nat /\ \A y \in T : y \in Nat /\ y >= 1 /\ y <= b /\ y # b
    BY <2>1
  <2>3. b - 1 \in Nat /\ \A y \in T : y <= b - 1
    <3>0. PICK z \in T : TRUE
      OBVIOUS
    <3>1. b \in Nat /\ b >= 1
      BY <2>2, <3>0
    <3>2. ASSUME NEW y \in T PROVE y <= b - 1
      <4>1. y \in Nat /\ y <= b /\ y # b
        BY <2>2
      <4>2. QED
        BY ONLY <3>1, <4>1
    <3>3. QED
      BY <3>1, <3>2
  <2>4. b - 1 \in Bounds
    BY <2>3
  <2>5. QED
    BY <1>2, <2>2, <2>4
<1>4. \E x \in T : \A y \in T : x >= y
  BY <1>3
<1>5. QED
  BY <1>4 DEF Max

\* A list comprehension goes through the list once.
Keeps(f, S, s, K) ==
  /\ f \in [0 .. Len(s) -> Seq(S)]
  /\ f[0] = <<>>
  /\ \A i \in 1 .. Len(s) : f[i] = IF s[i] \in K THEN Append(f[i - 1], s[i]) ELSE f[i - 1]
  /\ Keep(s, K) = f[Len(s)]

\* The loop of Keep does what its equation says.
LEMMA KeepIsRecursion ==
  ASSUME NEW S, NEW s, s \in Seq(S), NEW K
  PROVE  \E f : Keeps(f, S, s, K)
<1> DEFINE N == Len(s)
           T == Seq(S)
           E == <<>>
           step == [i \in 1 .. N |-> [v \in T |-> IF s[i] \in K THEN Append(v, s[i]) ELSE v]]
           Body(g, i) == IF i = 0 THEN E ELSE IF s[i] \in K THEN Append(g[i - 1], s[i]) ELSE g[i - 1]
           Rec(g) == g = [i \in 0 .. N |-> Body(g, i)]
           rec == CHOOSE g : Rec(g)
<1>1. N \in Nat /\ E \in T /\ \A i \in 1 .. N : s[i] \in S
  OBVIOUS
<1>2. step \in [1 .. N -> [T -> T]]
  BY <1>1
<1>3. \A i \in 1 .. N : \A v \in T : step[i][v] = IF s[i] \in K THEN Append(v, s[i]) ELSE v
  OBVIOUS
<1>4. Keep(s, K) = rec[N]
  BY Zenon DEF Keep
<1>5. \E f : IsRecursion(f, T, E, N, step)
  <2> HIDE DEF N, T, E, step
  <2>1. QED
    BY ONLY <1>1, <1>2, Recursion
<1>6. PICK f : f \in [0 .. N -> T] /\ f[0] = E /\ \A i \in 1 .. N : f[i] = step[i][f[i - 1]]
  BY <1>5, Zenon DEF IsRecursion
<1> HIDE DEF N, T, E, step
<1>7. ASSUME NEW i \in 1 .. N PROVE f[i] = IF s[i] \in K THEN Append(f[i - 1], s[i]) ELSE f[i - 1]
  <2>1. i - 1 \in 0 .. N
    BY <1>1
  <2>2. f[i - 1] \in T
    BY <1>6, <2>1
  <2>3. QED
    BY <1>3, <1>6, <2>2
<1>8. Rec(f)
  <2>1. ASSUME NEW i \in 0 .. N PROVE f[i] = Body(f, i)
    <3>1. CASE i = 0
      BY <1>6, <3>1
    <3>2. CASE i # 0
      <4>1. i \in 1 .. N
        BY <1>1, <3>2
      <4>2. QED
        BY <1>7, <3>2, <4>1
    <3>3. QED
      BY <3>1, <3>2
  <2> HIDE DEF Body
  <2>2. QED
    BY <1>6, <2>1
<1>9. Rec(rec)
  BY <1>8, Zenon
<1>10. ASSUME NEW i \in 0 .. N PROVE rec[i] = Body(rec, i)
  <2> DEFINE again == [j \in 0 .. N |-> Body(rec, j)]
  <2>1. rec = again
    BY <1>9, Zenon
  <2>2. again[i] = Body(rec, i)
    BY Zenon
  <2>3. QED
    BY <2>1, <2>2, Zenon
<1> HIDE DEF rec
<1>11. rec[0] = f[0]
  BY <1>1, <1>6, <1>10
<1>12. ASSUME NEW i \in 1 .. N, rec[i - 1] = f[i - 1] PROVE rec[i] = step[i][rec[i - 1]]
  <2>1. i - 1 \in 0 .. N /\ i \in 0 .. N /\ i # 0
    BY <1>1
  <2>2. f[i - 1] \in T
    BY <1>6, <2>1
  <2>3. QED
    BY <1>3, <1>10, <1>12, <2>1, <2>2
<1>13. \A i \in 0 .. N : rec[i] = f[i]
  <2>1. IsRecursion(f, T, E, N, step)
    BY <1>6 DEF IsRecursion
  <2>2. Follows(rec, f, N, step)
    BY <1>11, <1>12 DEF Follows
  <2>3. N \in Nat
    BY <1>1
  <2>4. QED
    BY ONLY <2>1, <2>2, <2>3, RecursionUnique
<1>14. Keep(s, K) = f[N]
  BY <1>1, <1>4, <1>13
<1>15. Keeps(f, S, s, K)
  <2>1. f \in [0 .. Len(s) -> Seq(S)] /\ f[0] = <<>> /\ Keep(s, K) = f[Len(s)]
    BY <1>6, <1>14 DEF N, T, E
  <2>2. \A i \in 1 .. Len(s) : f[i] = IF s[i] \in K THEN Append(f[i - 1], s[i]) ELSE f[i - 1]
    BY <1>7 DEF N
  <2>3. QED
    BY <2>1, <2>2, Zenon DEF Keeps
<1>16. QED
  BY <1>15, Zenon

\* A sum goes through the list once.
Sums(f, s) ==
  /\ f \in [0 .. Len(s) -> Nat]
  /\ f[0] = 0
  /\ \A i \in 1 .. Len(s) : f[i] = f[i - 1] + s[i]
  /\ SumOf(s) = f[Len(s)]

\* The loop of SumOf does what its equation says.
LEMMA SumIsRecursion ==
  ASSUME NEW s, s \in Seq(Nat)
  PROVE  \E f : Sums(f, s)
<1> DEFINE N == Len(s)
           T == Nat
           E == 0
           step == [i \in 1 .. N |-> [v \in T |-> v + s[i]]]
           Body(g, i) == IF i = 0 THEN E ELSE g[i - 1] + s[i]
           Rec(g) == g = [i \in 0 .. N |-> Body(g, i)]
           rec == CHOOSE g : Rec(g)
<1>1. N \in Nat /\ E \in T /\ \A i \in 1 .. N : s[i] \in Nat
  OBVIOUS
<1>2. step \in [1 .. N -> [T -> T]]
  BY <1>1
<1>3. \A i \in 1 .. N : \A v \in T : step[i][v] = v + s[i]
  OBVIOUS
<1>4. SumOf(s) = rec[N]
  BY Zenon DEF SumOf
<1>5. \E f : IsRecursion(f, T, E, N, step)
  <2> HIDE DEF N, T, E, step
  <2>1. QED
    BY ONLY <1>1, <1>2, Recursion
<1>6. PICK f : f \in [0 .. N -> T] /\ f[0] = E /\ \A i \in 1 .. N : f[i] = step[i][f[i - 1]]
  BY <1>5, Zenon DEF IsRecursion
<1> HIDE DEF N, T, E, step
<1>7. ASSUME NEW i \in 1 .. N PROVE f[i] = f[i - 1] + s[i]
  <2>1. i - 1 \in 0 .. N
    BY <1>1
  <2>2. f[i - 1] \in T
    BY <1>6, <2>1
  <2>3. QED
    BY <1>3, <1>6, <2>2
<1>8. Rec(f)
  <2>1. ASSUME NEW i \in 0 .. N PROVE f[i] = Body(f, i)
    <3>1. CASE i = 0
      BY <1>6, <3>1
    <3>2. CASE i # 0
      <4>1. i \in 1 .. N
        BY <1>1, <3>2
      <4>2. QED
        BY <1>7, <3>2, <4>1
    <3>3. QED
      BY <3>1, <3>2
  <2> HIDE DEF Body
  <2>2. QED
    BY <1>6, <2>1
<1>9. Rec(rec)
  BY <1>8, Zenon
<1>10. ASSUME NEW i \in 0 .. N PROVE rec[i] = Body(rec, i)
  <2> DEFINE again == [j \in 0 .. N |-> Body(rec, j)]
  <2>1. rec = again
    BY <1>9, Zenon
  <2>2. again[i] = Body(rec, i)
    BY Zenon
  <2>3. QED
    BY <2>1, <2>2, Zenon
<1> HIDE DEF rec
<1>11. rec[0] = f[0]
  BY <1>1, <1>6, <1>10
<1>12. ASSUME NEW i \in 1 .. N, rec[i - 1] = f[i - 1] PROVE rec[i] = step[i][rec[i - 1]]
  <2>1. i - 1 \in 0 .. N /\ i \in 0 .. N /\ i # 0
    BY <1>1
  <2>2. f[i - 1] \in T
    BY <1>6, <2>1
  <2>3. QED
    BY <1>3, <1>10, <1>12, <2>1, <2>2
<1>13. \A i \in 0 .. N : rec[i] = f[i]
  <2>1. IsRecursion(f, T, E, N, step)
    BY <1>6 DEF IsRecursion
  <2>2. Follows(rec, f, N, step)
    BY <1>11, <1>12 DEF Follows
  <2>3. N \in Nat
    BY <1>1
  <2>4. QED
    BY ONLY <2>1, <2>2, <2>3, RecursionUnique
<1>14. SumOf(s) = f[N]
  BY <1>1, <1>4, <1>13
<1>15. Sums(f, s)
  <2>1. f \in [0 .. Len(s) -> Nat] /\ f[0] = 0 /\ SumOf(s) = f[Len(s)]
    BY <1>6, <1>14 DEF N, T, E
  <2>2. \A i \in 1 .. Len(s) : f[i] = f[i - 1] + s[i]
    BY <1>7 DEF N
  <2>3. QED
    BY <2>1, <2>2, Zenon DEF Sums
<1>16. QED
  BY <1>15, Zenon

\* A product goes through the list once.
Products(f, s) ==
  /\ f \in [0 .. Len(s) -> Nat]
  /\ f[0] = 1
  /\ \A i \in 1 .. Len(s) : f[i] = f[i - 1] * s[i]
  /\ ProductOf(s) = f[Len(s)]

\* The loop of ProductOf does what its equation says.
LEMMA ProductIsRecursion ==
  ASSUME NEW s, s \in Seq(Nat)
  PROVE  \E f : Products(f, s)
<1> DEFINE N == Len(s)
           T == Nat
           E == 1
           step == [i \in 1 .. N |-> [v \in T |-> v * s[i]]]
           Body(g, i) == IF i = 0 THEN E ELSE g[i - 1] * s[i]
           Rec(g) == g = [i \in 0 .. N |-> Body(g, i)]
           rec == CHOOSE g : Rec(g)
<1>1. N \in Nat /\ E \in T /\ \A i \in 1 .. N : s[i] \in Nat
  OBVIOUS
<1>2. step \in [1 .. N -> [T -> T]]
  BY <1>1
<1>3. \A i \in 1 .. N : \A v \in T : step[i][v] = v * s[i]
  OBVIOUS
<1>4. ProductOf(s) = rec[N]
  BY Zenon DEF ProductOf
<1>5. \E f : IsRecursion(f, T, E, N, step)
  <2> HIDE DEF N, T, E, step
  <2>1. QED
    BY ONLY <1>1, <1>2, Recursion
<1>6. PICK f : f \in [0 .. N -> T] /\ f[0] = E /\ \A i \in 1 .. N : f[i] = step[i][f[i - 1]]
  BY <1>5, Zenon DEF IsRecursion
<1> HIDE DEF N, T, E, step
<1>7. ASSUME NEW i \in 1 .. N PROVE f[i] = f[i - 1] * s[i]
  <2>1. i - 1 \in 0 .. N
    BY <1>1
  <2>2. f[i - 1] \in T
    BY <1>6, <2>1
  <2>3. QED
    BY <1>3, <1>6, <2>2
<1>8. Rec(f)
  <2>1. ASSUME NEW i \in 0 .. N PROVE f[i] = Body(f, i)
    <3>1. CASE i = 0
      BY <1>6, <3>1
    <3>2. CASE i # 0
      <4>1. i \in 1 .. N
        BY <1>1, <3>2
      <4>2. QED
        BY <1>7, <3>2, <4>1
    <3>3. QED
      BY <3>1, <3>2
  <2> HIDE DEF Body
  <2>2. QED
    BY <1>6, <2>1
<1>9. Rec(rec)
  BY <1>8, Zenon
<1>10. ASSUME NEW i \in 0 .. N PROVE rec[i] = Body(rec, i)
  <2> DEFINE again == [j \in 0 .. N |-> Body(rec, j)]
  <2>1. rec = again
    BY <1>9, Zenon
  <2>2. again[i] = Body(rec, i)
    BY Zenon
  <2>3. QED
    BY <2>1, <2>2, Zenon
<1> HIDE DEF rec
<1>11. rec[0] = f[0]
  BY <1>1, <1>6, <1>10
<1>12. ASSUME NEW i \in 1 .. N, rec[i - 1] = f[i - 1] PROVE rec[i] = step[i][rec[i - 1]]
  <2>1. i - 1 \in 0 .. N /\ i \in 0 .. N /\ i # 0
    BY <1>1
  <2>2. f[i - 1] \in T
    BY <1>6, <2>1
  <2>3. QED
    BY <1>3, <1>10, <1>12, <2>1, <2>2
<1>13. \A i \in 0 .. N : rec[i] = f[i]
  <2>1. IsRecursion(f, T, E, N, step)
    BY <1>6 DEF IsRecursion
  <2>2. Follows(rec, f, N, step)
    BY <1>11, <1>12 DEF Follows
  <2>3. N \in Nat
    BY <1>1
  <2>4. QED
    BY ONLY <2>1, <2>2, <2>3, RecursionUnique
<1>14. ProductOf(s) = f[N]
  BY <1>1, <1>4, <1>13
<1>15. Products(f, s)
  <2>1. f \in [0 .. Len(s) -> Nat] /\ f[0] = 1 /\ ProductOf(s) = f[Len(s)]
    BY <1>6, <1>14 DEF N, T, E
  <2>2. \A i \in 1 .. Len(s) : f[i] = f[i - 1] * s[i]
    BY <1>7 DEF N
  <2>3. QED
    BY <2>1, <2>2, Zenon DEF Products
<1>16. QED
  BY <1>15, Zenon

\* What a list comprehension keeps: it goes up through the list, and nothing of K is lost.
IsSelection(e, s, K, kept) ==
  /\ e \in [1 .. Len(kept) -> 1 .. Len(s)]
  /\ \A k \in 1 .. Len(kept) : kept[k] = s[e[k]] /\ s[e[k]] \in K
  /\ \A j, k \in 1 .. Len(kept) : j < k => e[j] < e[k]
  /\ \A i \in 1 .. Len(s) : s[i] \in K => \E k \in 1 .. Len(kept) : e[k] = i

\* Keep selects the elements in K and no others, in their order.
LEMMA KeepIs ==
  ASSUME NEW S, NEW s, s \in Seq(S), NEW K
  PROVE  Keep(s, K) \in Seq(S) /\ \E e : IsSelection(e, s, K, Keep(s, K))
<1> DEFINE N == Len(s)
<1>0. PICK f : Keeps(f, S, s, K)
  BY KeepIsRecursion
<1>1. /\ f \in [0 .. N -> Seq(S)]
      /\ f[0] = <<>>
      /\ \A i \in 1 .. N : f[i] = IF s[i] \in K THEN Append(f[i - 1], s[i]) ELSE f[i - 1]
      /\ Keep(s, K) = f[N]
  BY <1>0, Zenon DEF Keeps
<1> DEFINE Sel(e, n, kept) ==
             /\ e \in [1 .. Len(kept) -> 1 .. n]
             /\ \A k \in 1 .. Len(kept) : kept[k] = s[e[k]] /\ s[e[k]] \in K
             /\ \A j, k \in 1 .. Len(kept) : j < k => e[j] < e[k]
             /\ \A i \in 1 .. n : s[i] \in K => \E k \in 1 .. Len(kept) : e[k] = i
           P == {n \in Nat : n <= N => \E e : Sel(e, n, f[n])}
<1>2. N \in Nat
  OBVIOUS
<1>3. 0 \in P
  <2> DEFINE e == [k \in 1 .. 0 |-> 0]
  <2>1. Len(f[0]) = 0 /\ 1 .. 0 = {}
    BY <1>1
  <2>2. Sel(e, 0, f[0])
    BY <2>1
  <2>3. QED
    BY <2>2
<1>4. ASSUME NEW n \in P PROVE n + 1 \in P
  <2>1. n \in Nat /\ n + 1 \in Nat /\ (n + 1) - 1 = n
    OBVIOUS
  <2>2. SUFFICES ASSUME n + 1 <= N PROVE \E e : Sel(e, n + 1, f[n + 1])
    BY <2>1
  <2>3. n <= N /\ n + 1 \in 1 .. N /\ n \in 0 .. N
    BY <1>2, <2>1, <2>2
  <2>4. PICK e : Sel(e, n, f[n])
    <3> HIDE DEF Sel
    <3>1. QED
      BY <2>3
  <2> DEFINE old == f[n]
             L == Len(old)
  <2>5. old \in Seq(S) /\ L \in Nat
    BY <1>1, <2>3
  <2>6. f[n + 1] = IF s[n + 1] \in K THEN Append(old, s[n + 1]) ELSE old
    BY <1>1, <2>1, <2>3
  <2>7. s[n + 1] \in S
    BY <2>3
  <2> HIDE DEF old, N
  <2>8. CASE s[n + 1] \notin K
    <3>1. f[n + 1] = old
      BY <2>6, <2>8
    <3>2. Sel(e, n, old)
      BY <2>4 DEF old
    <3>3. Sel(e, n + 1, old)
      BY <2>1, <2>5, <2>8, <3>2
    <3>4. QED
      BY <3>1, <3>3
  <2>9. CASE s[n + 1] \in K
    <3> DEFINE new == Append(old, s[n + 1])
               g == [k \in 1 .. L + 1 |-> IF k = L + 1 THEN n + 1 ELSE e[k]]
    <3>1. /\ Len(new) = L + 1
          /\ new[L + 1] = s[n + 1]
          /\ \A k \in 1 .. L : new[k] = old[k]
      BY <2>5, <2>7
    <3>2. /\ e \in [1 .. L -> 1 .. n]
          /\ \A k \in 1 .. L : old[k] = s[e[k]] /\ s[e[k]] \in K
          /\ \A j, k \in 1 .. L : j < k => e[j] < e[k]
          /\ \A i \in 1 .. n : s[i] \in K => \E k \in 1 .. L : e[k] = i
      BY <2>4 DEF old
    <3>3. /\ \A k \in 1 .. L : g[k] = e[k] /\ g[k] \in 1 .. n
          /\ g[L + 1] = n + 1
          /\ g \in [1 .. L + 1 -> 1 .. n + 1]
      <4>1. ASSUME NEW k \in 1 .. L PROVE g[k] = e[k] /\ e[k] \in 1 .. n
        BY <2>5, <3>2
      <4>2. g[L + 1] = n + 1
        BY <2>5
      <4>3. ASSUME NEW k \in 1 .. L + 1
            PROVE  (IF k = L + 1 THEN n + 1 ELSE e[k]) \in 1 .. n + 1
        <5> HIDE DEF L
        <5>1. CASE k = L + 1
          BY <2>1, <5>1
        <5>2. CASE k # L + 1
          BY <2>1, <2>5, <3>2, <5>2
        <5>3. QED
          BY <5>1, <5>2
      <4>4. QED
        BY <4>1, <4>2, <4>3
    <3> HIDE DEF new, g, L
    <3>4. ASSUME NEW k \in 1 .. L + 1 PROVE new[k] = s[g[k]] /\ s[g[k]] \in K
      <4>1. CASE k \in 1 .. L
        <5>1. new[k] = old[k] /\ old[k] = s[e[k]] /\ s[e[k]] \in K /\ g[k] = e[k]
          BY <3>1, <3>2, <3>3, <4>1
        <5>2. QED
          BY <5>1
      <4>2. CASE k = L + 1
        <5>1. new[k] = s[n + 1] /\ g[k] = n + 1
          BY <3>1, <3>3, <4>2
        <5>2. QED
          BY <2>9, <5>1
      <4>3. QED
        BY <2>5, <4>1, <4>2
    <3>5. \A j, k \in 1 .. L + 1 : j < k => g[j] < g[k]
      <4>1. SUFFICES ASSUME NEW j \in 1 .. L + 1, NEW k \in 1 .. L + 1, j < k
                     PROVE  g[j] < g[k]
        OBVIOUS
      <4>2. j \in 1 .. L
        BY <2>5, <4>1
      <4>3. CASE k \in 1 .. L
        BY <3>2, <3>3, <4>1, <4>2, <4>3
      <4>4. CASE k = L + 1
        BY <2>1, <3>3, <4>2, <4>4
      <4>5. QED
        BY <2>5, <4>3, <4>4
    <3>6. \A i \in 1 .. n + 1 : s[i] \in K => \E k \in 1 .. L + 1 : g[k] = i
      <4>1. SUFFICES ASSUME NEW i \in 1 .. n + 1, s[i] \in K
                     PROVE  \E k \in 1 .. L + 1 : g[k] = i
        OBVIOUS
      <4>2. CASE i \in 1 .. n
        <5>1. PICK k \in 1 .. L : e[k] = i
          BY <3>2, <4>1, <4>2
        <5>2. k \in 1 .. L + 1 /\ g[k] = i
          BY <2>5, <3>3, <5>1
        <5>3. QED
          BY <5>2
      <4>3. CASE i = n + 1
        <5>1. L + 1 \in 1 .. L + 1
          BY <2>5
        <5>2. QED
          BY <3>3, <4>3, <5>1
      <4>4. QED
        BY <2>1, <4>2, <4>3
    <3>7. Sel(g, n + 1, new)
      BY <3>1, <3>3, <3>4, <3>5, <3>6
    <3>8. f[n + 1] = new
      BY <2>6, <2>9 DEF new
    <3>9. QED
      BY <3>7, <3>8
  <2>10. QED
    BY <2>8, <2>9
<1>5. Nat \subseteq P
  <2> HIDE DEF P
  <2>1. QED
    BY <1>3, <1>4, SetInduction
<1>6. \E e : Sel(e, N, f[N])
  <2> HIDE DEF Sel
  <2>1. QED
    BY <1>2, <1>5
<1>7. PICK e : Sel(e, N, f[N])
  BY <1>6
<1>8. IsSelection(e, s, K, Keep(s, K))
  BY <1>1, <1>7, Zenon DEF IsSelection
<1>9. Keep(s, K) \in Seq(S)
  <2> HIDE DEF N
  <2>1. QED
    BY <1>1, <1>2
<1>10. QED
  BY <1>8, <1>9

\* Sorting a set loses nothing of it, and the order is strict.
Sorts(s, S, n) ==
  s \in [1 .. n -> S] /\ ToSet(s) = S /\ \A i, j \in DOMAIN s : i < j => s[i] < s[j]

\* A finite set of numbers can be put in order.
LEMMA SortedExists ==
  ASSUME NEW n \in Nat, NEW S \in SUBSET Nat, IsFiniteSet(S), Cardinality(S) = n
  PROVE  \E s : Sorts(s, S, n)
<1> DEFINE P == {k \in Nat : \A T \in SUBSET Nat :
                    IsFiniteSet(T) /\ Cardinality(T) = k => \E s : Sorts(s, T, k)}
<1>1. 0 \in P
  <2>1. SUFFICES ASSUME NEW T \in SUBSET Nat, IsFiniteSet(T), Cardinality(T) = 0
                 PROVE  \E s : Sorts(s, T, 0)
    OBVIOUS
  <2>2. T = {}
    BY <2>1, FS_EmptySet
  <2>3. 1 .. 0 = {}
    OBVIOUS
  <2> DEFINE s == [i \in 1 .. 0 |-> 0]
  <2>4. s \in [1 .. 0 -> T] /\ DOMAIN s = {}
    BY <2>3
  <2>5. ToSet(s) = {}
    BY <2>4 DEF ToSet
  <2>6. Sorts(s, T, 0)
    BY <2>2, <2>4, <2>5 DEF Sorts
  <2>7. QED
    BY <2>6
<1>2. ASSUME NEW k \in Nat, k \in P PROVE k + 1 \in P
  <2>1. SUFFICES ASSUME NEW T \in SUBSET Nat, IsFiniteSet(T), Cardinality(T) = k + 1
                 PROVE  \E s : Sorts(s, T, k + 1)
    OBVIOUS
  <2>2. T # {}
    BY <2>1, FS_EmptySet
  <2>3. PICK x \in T : \A y \in T : x <= y
    BY <2>2, Least
  <2> DEFINE R == T \ {x}
  <2>4. IsFiniteSet(R) /\ Cardinality(R) = k /\ R \in SUBSET Nat
    <3>1. IsFiniteSet(R) /\ Cardinality(R) = (k + 1) - 1
      BY <2>1, <2>3, FS_RemoveElement
    <3>2. QED
      BY <3>1
  <2>5. PICK s : Sorts(s, R, k)
    BY <1>2, <2>4
  <2>6. s \in [1 .. k -> R] /\ ToSet(s) = R /\ \A i, j \in 1 .. k : i < j => s[i] < s[j]
    BY <2>5 DEF Sorts
  <2> DEFINE t == [i \in 1 .. k + 1 |-> IF i = 1 THEN x ELSE s[i - 1]]
  <2>7. \A i \in 1 .. k + 1 : i # 1 => i - 1 \in 1 .. k
    OBVIOUS
  <2>8. t \in [1 .. k + 1 -> T]
    BY <2>3, <2>6, <2>7
  <2>9. T \subseteq ToSet(t)
    <3>1. SUFFICES ASSUME NEW y \in T PROVE \E i \in 1 .. k + 1 : t[i] = y
      BY <2>8 DEF ToSet
    <3>2. CASE y = x
      <4>1. 1 \in 1 .. k + 1 /\ t[1] = x
        OBVIOUS
      <4>2. QED
        BY <3>2, <4>1
    <3>3. CASE y # x
      <4>1. y \in ToSet(s)
        BY <2>6, <3>3
      <4>2. PICK i \in 1 .. k : s[i] = y
        BY <2>6, <4>1 DEF ToSet
      <4>3. i + 1 \in 1 .. k + 1 /\ i + 1 # 1 /\ (i + 1) - 1 = i
        OBVIOUS
      <4>4. t[i + 1] = y
        BY <4>2, <4>3
      <4>5. QED
        BY <4>3, <4>4
    <3>4. QED
      BY <3>2, <3>3
  <2>10. ToSet(t) = T
    <3>1. ToSet(t) \subseteq T
      BY <2>8 DEF ToSet
    <3>2. QED
      BY <2>9, <3>1
  <2>11. ASSUME NEW i \in 1 .. k + 1, NEW j \in 1 .. k + 1, i < j PROVE t[i] < t[j]
    <3>1. j # 1 /\ j - 1 \in 1 .. k /\ t[j] = s[j - 1]
      BY <2>7, <2>11
    <3>2. CASE i = 1
      <4>1. s[j - 1] \in T /\ s[j - 1] # x /\ s[j - 1] \in Nat /\ x \in Nat
        BY <2>6, <3>1
      <4>2. QED
        BY <2>3, <3>1, <3>2, <4>1
    <3>3. CASE i # 1
      <4>1. i - 1 \in 1 .. k /\ t[i] = s[i - 1] /\ i - 1 < j - 1
        BY <2>7, <2>11, <3>3
      <4>2. QED
        BY <2>6, <3>1, <4>1
    <3>4. QED
      BY <3>2, <3>3
  <2>12. Sorts(t, T, k + 1)
    <3> HIDE DEF t
    <3>1. DOMAIN t = 1 .. k + 1
      BY <2>8
    <3>2. QED
      BY <2>8, <2>10, <2>11, <3>1 DEF Sorts
  <2>13. QED
    BY <2>12
<1>3. Nat \subseteq P
  <2> HIDE DEF P
  <2>1. QED
    BY <1>1, <1>2, SetInduction
<1>4. QED
  BY <1>3

\* Sorted gives the numbers of the set, each once, from the smallest to the largest.
LEMMA SortedIs ==
  ASSUME NEW S \in SUBSET Nat, IsFiniteSet(S)
  PROVE  /\ Sorted(S) \in Seq(Nat)
         /\ ToSet(Sorted(S)) = S
         /\ \A i, j \in 1 .. Len(Sorted(S)) : i < j => Sorted(S)[i] < Sorted(S)[j]
<1> DEFINE n == Cardinality(S)
<1>1. n \in Nat
  BY FS_CardinalityType
<1>2. PICK s : Sorts(s, S, n)
  BY <1>1, SortedExists
<1>3. s \in [1 .. n -> S] /\ ToSet(s) = S /\ \A i, j \in DOMAIN s : i < j => s[i] < s[j]
  BY <1>2 DEF Sorts
<1>4. /\ Sorted(S) \in [1 .. n -> S]
      /\ ToSet(Sorted(S)) = S
      /\ \A i, j \in DOMAIN Sorted(S) : i < j => Sorted(S)[i] < Sorted(S)[j]
  BY <1>3, Zenon DEF Sorted
<1>5. Sorted(S) \in Seq(Nat) /\ DOMAIN Sorted(S) = 1 .. Len(Sorted(S))
  <2> DEFINE t == Sorted(S)
  <2> HIDE DEF t
  <2>1. t \in [1 .. n -> S]
    BY <1>4 DEF t
  <2> HIDE DEF n
  <2>2. t \in [1 .. n -> Nat]
    BY <2>1
  <2>3. t \in Seq(Nat) /\ DOMAIN t = 1 .. Len(t)
    BY <1>1, <2>2
  <2>4. QED
    BY <2>3 DEF t
<1>6. QED
  BY <1>4, <1>5

-----------------------------------------------------------------------------
(* Blocks that are joined: where each starts, and what is there.           *)

\* at[i] is where block i + 1 starts, and where block i ends.
Places(at, ss) ==
  /\ at \in [0 .. Len(ss) -> Nat]
  /\ at[0] = 0
  /\ \A i \in 1 .. Len(ss) : at[i] = at[i - 1] + Len(ss[i])

\* Two sequences joined.
LEMMA ConcatIs ==
  ASSUME NEW S, NEW a, a \in Seq(S), NEW b, b \in Seq(S)
  PROVE  /\ a \o b \in Seq(S)
         /\ Len(a \o b) = Len(a) + Len(b)
         /\ \A p \in 1 .. Len(a) : (a \o b)[p] = a[p]
         /\ \A k \in 1 .. Len(b) : (a \o b)[Len(a) + k] = b[k]
<1>1. Len(a \o b) = Len(a) + Len(b)
  OBVIOUS
<1>2. ASSUME NEW k \in 1 .. Len(b) PROVE (a \o b)[Len(a) + k] = b[k]
  <2>1. Len(a) \in Nat /\ Len(b) \in Nat
    OBVIOUS
  <2>2. Len(a) + k \in 1 .. Len(a) + Len(b) /\ Len(a) + k > Len(a) /\ (Len(a) + k) - Len(a) = k
    BY <2>1
  <2>3. QED
    BY <2>2
<1>3. QED
  BY <1>1, <1>2

\* Where the elements of each part are in the flattened sequence.
LEMMA FlattenParts ==
  ASSUME NEW S, NEW ss, ss \in Seq(Seq(S)), NEW at, Places(at, ss)
  PROVE  /\ FlattenSeq(ss) \in Seq(S)
         /\ Len(FlattenSeq(ss)) = at[Len(ss)]
         /\ \A i \in 1 .. Len(ss) : \A k \in 1 .. Len(ss[i]) :
              /\ at[i - 1] + k \in 1 .. Len(FlattenSeq(ss))
              /\ FlattenSeq(ss)[at[i - 1] + k] = ss[i][k]
<1> DEFINE N == Len(ss)
<1>1. N \in Nat /\ \A i \in 1 .. N : ss[i] \in Seq(S) /\ Len(ss[i]) \in Nat
  OBVIOUS
<1>2. PICK f \in [0 .. N -> Seq(S)] :
        /\ f[0] = <<>>
        /\ \A i \in 1 .. N : f[i] = f[i - 1] \o ss[i]
        /\ FlattenSeq(ss) = f[N]
  BY Flatten
<1>3. at \in [0 .. N -> Nat] /\ at[0] = 0 /\ \A i \in 1 .. N : at[i] = at[i - 1] + Len(ss[i])
  BY DEF Places
<1> HIDE DEF N
<1> DEFINE Good(n) == /\ Len(f[n]) = at[n]
                      /\ \A i \in 1 .. n : \A k \in 1 .. Len(ss[i]) :
                           at[i - 1] + k \in 1 .. at[n] /\ f[n][at[i - 1] + k] = ss[i][k]
           P == {n \in Nat : n <= N => Good(n)}
<1>4. 0 \in P
  BY <1>2, <1>3
<1>5. ASSUME NEW n \in Nat, n \in P PROVE n + 1 \in P
  <2>1. SUFFICES ASSUME n + 1 <= N PROVE Good(n + 1)
    OBVIOUS
  <2>2. n + 1 \in 1 .. N /\ (n + 1) - 1 = n /\ n \in 0 .. N /\ n + 1 \in 0 .. N
    BY <1>1, <2>1
  <2>3. Good(n)
    BY <1>5, <2>1, <1>1
  <2> DEFINE old == f[n]
             new == ss[n + 1]
  <2>4. f[n + 1] = old \o new /\ old \in Seq(S) /\ new \in Seq(S)
    BY <1>1, <1>2, <2>2
  <2>5. at[n + 1] = at[n] + Len(new) /\ at[n] \in Nat /\ at[n + 1] \in Nat
    BY <1>3, <2>2
  <2> HIDE DEF new
  <2>6. Len(old) = at[n]
    BY <2>3
  <2>7. ASSUME NEW i \in 1 .. n, NEW k \in 1 .. Len(ss[i])
        PROVE  at[i - 1] + k \in 1 .. at[n] /\ old[at[i - 1] + k] = ss[i][k]
    BY <2>3
  <2> HIDE DEF old
  <2>8. Len(old \o new) = at[n + 1]
    <3>1. Len(old \o new) = Len(old) + Len(new)
      BY <2>4, ConcatIs
    <3>2. QED
      BY <2>5, <2>6, <3>1
  <2>9. ASSUME NEW i \in 1 .. n + 1, NEW k \in 1 .. Len(ss[i])
        PROVE  at[i - 1] + k \in 1 .. at[n + 1] /\ (old \o new)[at[i - 1] + k] = ss[i][k]
    <3>1. CASE i = n + 1
      <4>1. k \in 1 .. Len(new) /\ i - 1 = n
        BY <3>1, <2>2 DEF new
      <4>2. at[n] + k \in Len(old) + 1 .. Len(old) + Len(new)
        <5>1. Len(old) \in Nat /\ Len(new) \in Nat
          BY <2>4
        <5>2. QED
          BY ONLY <2>6, <4>1, <5>1
      <4>3. (old \o new)[at[n] + k] = new[k]
        <5>1. old \in Seq(S) /\ new \in Seq(S)
          BY <2>4
        <5>2. \A j \in 1 .. Len(new) : (old \o new)[Len(old) + j] = new[j]
          BY ONLY <5>1, ConcatIs
        <5>3. QED
          BY <2>6, <4>1, <5>2
      <4>4. at[n] + k \in 1 .. at[n + 1]
        <5>1. Len(new) \in Nat
          BY <2>4
        <5>2. QED
          BY ONLY <2>5, <4>1, <5>1
      <4>5. QED
        BY <3>1, <4>1, <4>3, <4>4 DEF new
    <3>2. CASE i # n + 1
      <4>1. i \in 1 .. n
        BY <3>2
      <4>2. at[i - 1] + k \in 1 .. Len(old) /\ old[at[i - 1] + k] = ss[i][k]
        BY <2>6, <2>7, <4>1
      <4> DEFINE p == at[i - 1] + k
      <4> HIDE DEF p
      <4>3. p \in 1 .. Len(old)
        BY <4>2 DEF p
      <4>4. (old \o new)[p] = old[p]
        BY <2>4, <4>3
      <4>5. p \in 1 .. at[n + 1]
        BY <2>4, <2>5, <2>6, <4>3
      <4>6. QED
        BY <4>2, <4>4, <4>5 DEF p
    <3>3. QED
      BY <3>1, <3>2
  <2>10. QED
    BY <2>4, <2>8, <2>9
<1>6. Nat \subseteq P
  <2> HIDE DEF P
  <2>1. QED
    BY <1>4, <1>5, SetInduction
<1>7. Good(N)
  <2> HIDE DEF Good
  <2>1. QED
    BY <1>1, <1>6
<1>8. N \in 0 .. N
  BY <1>1
<1>9. FlattenSeq(ss) \in Seq(S)
  BY <1>2, <1>8
<1>10. QED
  BY <1>2, <1>7, <1>9 DEF N

-----------------------------------------------------------------------------
(* Division, and the elements of a sequence.                               *)

\* Division by a positive number, as the provers know it.
LEMMA Division ==
  ASSUME NEW n \in Int, NEW a \in Nat \ {0}
  PROVE  /\ n \div a \in Int
         /\ n % a \in 0 .. a - 1
         /\ n = (a * (n \div a)) + (n % a)
  OBVIOUS

\* One more row of W elements.
LEMMA NextRow ==
  ASSUME NEW d \in Nat, NEW W \in Nat
  PROVE  d * W \in Nat /\ (d + 1) * W = d * W + W
  OBVIOUS

\* The multiples of a number are those without a remainder.
LEMMA Multiple ==
  ASSUME NEW k \in Int, NEW a \in Nat \ {0}
  PROVE  (a * k) % a = 0
<1> DEFINE n == a * k
           q == n \div a
           r == n % a
<1>1. n \in Int
  OBVIOUS
<1>2. q \in Int /\ r \in 0 .. a - 1 /\ n = (a * q) + r
  BY <1>1, Division
<1>3. a * (k - q) = r
  BY <1>2
<1>4. k - q < 1
  <2>1. SUFFICES ASSUME k - q >= 1 PROVE FALSE
    BY <1>2
  <2>2. a * (k - q) >= a
    BY <2>1, <1>2
  <2>3. QED
    BY <2>2, <1>3, <1>2
<1>5. k - q > -1
  <2>1. SUFFICES ASSUME k - q <= -1 PROVE FALSE
    BY <1>2
  <2>2. a * (k - q) <= -a
    BY <2>1, <1>2
  <2>3. QED
    BY <2>2, <1>3, <1>2
<1>6. k - q = 0
  BY <1>2, <1>4, <1>5
<1>7. QED
  BY <1>3, <1>6

\* Counting through m rows of n, the row stays below m.
LEMMA RowBound ==
  ASSUME NEW k \in Nat, NEW m \in Nat, NEW n \in Nat \ {0}, k < m * n
  PROVE  k \div n \in 0 .. m - 1
<1> DEFINE q == k \div n
           r == k % n
<1>1. q \in Int /\ r \in 0 .. n - 1 /\ k = (n * q) + r
  BY Division
<1> HIDE DEF q, r
<1>2. q >= 0
  <2>1. SUFFICES ASSUME q <= -1 PROVE FALSE
    BY <1>1
  <2>2. n * q <= -n
    BY <2>1, <1>1
  <2>3. QED
    BY <2>2, <1>1
<1>3. q < m
  <2>1. SUFFICES ASSUME q >= m PROVE FALSE
    BY <1>1
  <2>2. n * q >= n * m
    BY <2>1, <1>1
  <2>3. QED
    BY <2>2, <1>1
<1>4. QED
  BY <1>1, <1>2, <1>3 DEF q

\* A product divided by a factor.
LEMMA ExactDivision ==
  ASSUME NEW k \in Int, NEW a \in Nat \ {0}
  PROVE  (a * k) \div a = k
<1> DEFINE n == a * k
           q == n \div a
           r == n % a
<1>1. n \in Int
  OBVIOUS
<1>2. q \in Int /\ r \in 0 .. a - 1 /\ n = (a * q) + r
  BY <1>1, Division
<1>3. r = 0
  BY Multiple
<1>4. a * (k - q) = 0
  BY <1>2, <1>3
<1>5. k - q = 0
  <2>1. CASE k - q >= 1
    <3>1. a * (k - q) >= a
      BY <1>2, <2>1
    <3>2. QED
      BY <1>4, <3>1
  <2>2. CASE k - q <= -1
    <3>1. a * (k - q) <= -a
      BY <1>2, <2>2
    <3>2. QED
      BY <1>4, <3>1
  <2>3. QED
    BY <1>2, <2>1, <2>2
<1>6. QED
  BY <1>2, <1>5

\* A number that is not negative, divided.
LEMMA NatDivision ==
  ASSUME NEW n \in Nat, NEW a \in Nat \ {0}
  PROVE  n \div a \in Nat
<1> DEFINE q == n \div a
           r == n % a
<1>1. q \in Int /\ r \in 0 .. a - 1 /\ n = (a * q) + r
  BY Division
<1> HIDE DEF q, r
<1>2. q >= 0
  <2>1. SUFFICES ASSUME q <= -1 PROVE FALSE
    BY <1>1
  <2>2. a * q <= -a
    BY <1>1, <2>1
  <2>3. QED
    BY <1>1, <2>2
<1>3. QED
  BY <1>1, <1>2 DEF q

\* The elements of a sequence.
LEMMA Elements ==
  ASSUME NEW S, NEW s, s \in Seq(S)
  PROVE  /\ DOMAIN s = 1 .. Len(s)
         /\ Len(s) \in Nat
         /\ \A i \in 1 .. Len(s) : s[i] \in ToSet(s) /\ s[i] \in S
         /\ \A x \in ToSet(s) : x \in S /\ \E i \in 1 .. Len(s) : s[i] = x
<1>1. DOMAIN s = 1 .. Len(s) /\ Len(s) \in Nat
  OBVIOUS
<1>2. \A i \in 1 .. Len(s) : s[i] \in S
  OBVIOUS
<1>3. QED
  BY <1>1, <1>2 DEF ToSet

\* A list comprehension has the elements of the list that are in the set.
LEMMA KeepSet ==
  ASSUME NEW S, NEW s, s \in Seq(S), NEW K
  PROVE  Keep(s, K) \in Seq(S) /\ ToSet(Keep(s, K)) = ToSet(s) \cap K
<1> DEFINE kept == Keep(s, K)
<1>1. kept \in Seq(S)
  BY KeepIs
<1>2. PICK e : IsSelection(e, s, K, kept)
  BY KeepIs
<1> HIDE DEF kept
<1>3. ToSet(kept) \subseteq ToSet(s) \cap K
  <2>1. SUFFICES ASSUME NEW x \in ToSet(kept) PROVE x \in ToSet(s) \cap K
    OBVIOUS
  <2>2. PICK k \in 1 .. Len(kept) : kept[k] = x
    BY <1>1, Elements
  <2>3. x = s[e[k]] /\ x \in K /\ e[k] \in 1 .. Len(s)
    BY <1>2, <2>2 DEF IsSelection
  <2>4. QED
    BY <2>3, Elements
<1>4. ToSet(s) \cap K \subseteq ToSet(kept)
  <2>1. SUFFICES ASSUME NEW x \in ToSet(s) \cap K PROVE x \in ToSet(kept)
    OBVIOUS
  <2>2. PICK i \in 1 .. Len(s) : s[i] = x
    BY Elements
  <2>3. PICK k \in 1 .. Len(kept) : e[k] = i
    BY <1>2, <2>1, <2>2 DEF IsSelection
  <2>4. kept[k] = x
    BY <1>2, <2>2, <2>3 DEF IsSelection
  <2>5. QED
    BY <1>1, <2>4, Elements
<1>5. QED
  BY <1>1, <1>3, <1>4 DEF kept

\* Keeping elements of the sequence keeps just those.
LEMMA KeepSubset ==
  ASSUME NEW S, NEW s, s \in Seq(S), NEW K, K \subseteq ToSet(s)
  PROVE  Keep(s, K) \in Seq(S) /\ ToSet(Keep(s, K)) = K
<1>1. Keep(s, K) \in Seq(S) /\ ToSet(Keep(s, K)) = ToSet(s) \cap K
  BY KeepSet
<1>2. ToSet(s) \cap K = K
  OBVIOUS
<1>3. QED
  BY <1>1, <1>2

-----------------------------------------------------------------------------
(* What is kept, and flattened, of a list that grows.                      *)

\* Induction up to a number.
LEMMA UpTo ==
  ASSUME NEW N \in Nat, NEW P, 0 \in P, \A n \in 0 .. N - 1 : n \in P => n + 1 \in P
  PROVE  N \in P /\ \A n \in 0 .. N : n \in P
<1> DEFINE Q == {n \in Nat : n <= N => n \in P}
<1>1. 0 \in Q
  OBVIOUS
<1>2. ASSUME NEW n \in Nat, n \in Q PROVE n + 1 \in Q
  <2>1. SUFFICES ASSUME n + 1 <= N PROVE n + 1 \in P
    BY <1>2
  <2>2. n \in 0 .. N - 1 /\ n \in P
    BY <1>2, <2>1
  <2>3. QED
    BY <2>2
<1>3. Nat \subseteq Q
  <2> HIDE DEF Q
  <2>1. QED
    BY <1>1, <1>2, SetInduction
<1>4. QED
  BY <1>3

\* A sequence is one of the sets that have its elements.
LEMMA Retyped ==
  ASSUME NEW S, NEW s, s \in Seq(S), NEW U, \A i \in 1 .. Len(s) : s[i] \in U
  PROVE  s \in Seq(U)
<1> DEFINE n == Len(s)
<1>1. n \in Nat /\ s = [i \in 1 .. n |-> s[i]]
  OBVIOUS
<1> HIDE DEF n
<1>2. s \in [1 .. n -> U]
  BY <1>1 DEF n
<1>3. QED
  BY <1>1, <1>2

\* One more element of the list.
LEMMA KeepAppend ==
  ASSUME NEW S, NEW s, s \in Seq(S), NEW x \in S, NEW K
  PROVE  Keep(Append(s, x), K) = IF x \in K THEN Append(Keep(s, K), x) ELSE Keep(s, K)
<1> DEFINE n == Len(s)
           more == Append(s, x)
<1>1. n \in Nat /\ more \in Seq(S) /\ Len(more) = n + 1 /\ more[n + 1] = x
      /\ \A i \in 1 .. n : more[i] = s[i]
  OBVIOUS
<1> HIDE DEF more
<1>2. PICK f : Keeps(f, S, s, K)
  BY KeepIsRecursion
<1>3. PICK g : Keeps(g, S, more, K)
  BY <1>1, KeepIsRecursion
<1>4. /\ f[0] = <<>> /\ Keep(s, K) = f[n]
      /\ \A i \in 1 .. n : f[i] = IF s[i] \in K THEN Append(f[i - 1], s[i]) ELSE f[i - 1]
  BY <1>2 DEF Keeps
<1>5. /\ g[0] = <<>> /\ Keep(more, K) = g[n + 1]
      /\ \A i \in 1 .. n + 1 : g[i] = IF more[i] \in K THEN Append(g[i - 1], more[i]) ELSE g[i - 1]
  BY <1>1, <1>3 DEF Keeps
<1> HIDE DEF n
<1> DEFINE P == {i \in 0 .. n : g[i] = f[i]}
<1>6. 0 \in P
  BY <1>1, <1>4, <1>5
<1>7. ASSUME NEW i \in 0 .. n - 1, i \in P PROVE i + 1 \in P
  <2>1. i + 1 \in 1 .. n /\ i + 1 \in 1 .. n + 1 /\ i + 1 \in 0 .. n /\ (i + 1) - 1 = i
    BY <1>1
  <2>2. g[i] = f[i] /\ more[i + 1] = s[i + 1]
    BY <1>1, <1>7, <2>1
  <2>3. QED
    BY <1>4, <1>5, <2>1, <2>2
<1>8. n \in P
  <2> HIDE DEF P
  <2>1. QED
    BY ONLY <1>1, <1>6, <1>7, UpTo
<1>9. n + 1 \in 1 .. n + 1 /\ (n + 1) - 1 = n
  BY <1>1
<1>10. g[n + 1] = IF x \in K THEN Append(g[n], x) ELSE g[n]
  BY <1>1, <1>5, <1>9
<1>11. QED
  BY <1>4, <1>5, <1>8, <1>10 DEF more

\* Only the elements of the list tell one condition from another.
LEMMA KeepSame ==
  ASSUME NEW S, NEW s, s \in Seq(S), NEW K, NEW M, \A i \in 1 .. Len(s) : s[i] \in K <=> s[i] \in M
  PROVE  Keep(s, K) = Keep(s, M)
<1> DEFINE n == Len(s)
<1>1. n \in Nat
  OBVIOUS
<1>2. PICK f : Keeps(f, S, s, K)
  BY KeepIsRecursion
<1>3. PICK g : Keeps(g, S, s, M)
  BY KeepIsRecursion
<1>4. /\ f[0] = <<>> /\ Keep(s, K) = f[n]
      /\ \A i \in 1 .. n : f[i] = IF s[i] \in K THEN Append(f[i - 1], s[i]) ELSE f[i - 1]
  BY <1>2 DEF Keeps
<1>5. /\ g[0] = <<>> /\ Keep(s, M) = g[n]
      /\ \A i \in 1 .. n : g[i] = IF s[i] \in M THEN Append(g[i - 1], s[i]) ELSE g[i - 1]
  BY <1>3 DEF Keeps
<1>6. \A i \in 1 .. n : s[i] \in K <=> s[i] \in M
  OBVIOUS
<1> HIDE DEF n
<1> DEFINE P == {i \in 0 .. n : g[i] = f[i]}
<1>7. 0 \in P
  BY <1>1, <1>4, <1>5
<1>8. ASSUME NEW i \in 0 .. n - 1, i \in P PROVE i + 1 \in P
  <2>1. i + 1 \in 1 .. n /\ i + 1 \in 0 .. n /\ (i + 1) - 1 = i
    BY <1>1
  <2>2. QED
    BY <1>4, <1>5, <1>6, <1>8, <2>1
<1>9. n \in P
  <2> HIDE DEF P
  <2>1. QED
    BY ONLY <1>1, <1>7, <1>8, UpTo
<1>10. QED
  BY <1>4, <1>5, <1>9

\* A condition that all elements satisfy keeps the list as it is.
LEMMA KeepAll ==
  ASSUME NEW S, NEW s, s \in Seq(S), NEW K, \A i \in 1 .. Len(s) : s[i] \in K
  PROVE  Keep(s, K) = s
<1> DEFINE n == Len(s)
           Prefix(t, i) == t \in Seq(S) /\ Len(t) = i /\ \A j \in 1 .. i : t[j] = s[j]
<1>1. n \in Nat /\ \A i \in 1 .. n : s[i] \in S /\ s[i] \in K
  OBVIOUS
<1>2. PICK f : Keeps(f, S, s, K)
  BY KeepIsRecursion
<1>3. /\ f[0] = <<>> /\ Keep(s, K) = f[n]
      /\ \A i \in 1 .. n : f[i] = IF s[i] \in K THEN Append(f[i - 1], s[i]) ELSE f[i - 1]
  BY <1>2 DEF Keeps
<1> HIDE DEF n
<1> DEFINE P == {i \in 0 .. n : Prefix(f[i], i)}
<1>4. 0 \in P
  <2> DEFINE e == <<>>
  <2>1. e \in Seq(S) /\ Len(e) = 0 /\ f[0] = e
    BY <1>3
  <2> HIDE DEF e
  <2>2. Prefix(f[0], 0)
    BY <2>1
  <2>3. QED
    BY <1>1, <2>2
<1>5. ASSUME NEW i \in 0 .. n - 1, i \in P PROVE i + 1 \in P
  <2>1. i \in Nat /\ i + 1 \in 1 .. n /\ i + 1 \in 0 .. n /\ (i + 1) - 1 = i
    BY <1>1
  <2> DEFINE t == f[i]
             x == s[i + 1]
             u == f[i + 1]
  <2>2. u = Append(t, x) /\ x \in S
    BY <1>1, <1>3, <2>1
  <2>3. t \in Seq(S) /\ Len(t) = i /\ \A j \in 1 .. i : t[j] = s[j]
    BY <1>5
  <2> HIDE DEF t, u
  <2>4. u \in Seq(S) /\ Len(u) = i + 1 /\ u[i + 1] = x /\ \A j \in 1 .. i : u[j] = t[j]
    BY <2>1, <2>2, <2>3
  <2>5. \A j \in 1 .. i + 1 : j = i + 1 \/ j \in 1 .. i
    BY <2>1
  <2>6. \A j \in 1 .. i + 1 : u[j] = s[j]
    BY <2>3, <2>4, <2>5
  <2>7. QED
    BY <2>1, <2>4, <2>6 DEF u
<1>6. n \in P
  <2> HIDE DEF P
  <2>1. QED
    BY ONLY <1>1, <1>4, <1>5, UpTo
<1> DEFINE t == f[n]
<1>7. t \in Seq(S) /\ Len(t) = n /\ \A j \in 1 .. n : t[j] = s[j]
  BY <1>6
<1> HIDE DEF t
<1>8. t = s
  BY <1>7, SeqEqual DEF n
<1>9. QED
  BY <1>3, <1>8 DEF t

\* The elements in K come before those in M.
Split(s, K, M) ==
  /\ \A i \in 1 .. Len(s) : ~(s[i] \in K /\ s[i] \in M)
  /\ \A i, j \in 1 .. Len(s) : s[i] \in M /\ s[j] \in K => j < i

\* What is kept of two parts of a list that come one after the other.
LEMMA KeepSplit ==
  ASSUME NEW S, NEW s, s \in Seq(S), NEW K, NEW M, Split(s, K, M)
  PROVE  Keep(s, K) \o Keep(s, M) = Keep(s, K \cup M)
<1> DEFINE N == Len(s)
           U == K \cup M
<1>1. N \in Nat /\ \A i \in 1 .. N : s[i] \in S
  OBVIOUS
<1>2. PICK f : Keeps(f, S, s, K)
  BY KeepIsRecursion
<1>3. PICK g : Keeps(g, S, s, M)
  BY KeepIsRecursion
<1>4. PICK h : Keeps(h, S, s, U)
  BY KeepIsRecursion
<1>5. /\ f \in [0 .. N -> Seq(S)] /\ f[0] = <<>> /\ Keep(s, K) = f[N]
      /\ \A i \in 1 .. N : f[i] = IF s[i] \in K THEN Append(f[i - 1], s[i]) ELSE f[i - 1]
  BY <1>2 DEF Keeps
<1>6. /\ g \in [0 .. N -> Seq(S)] /\ g[0] = <<>> /\ Keep(s, M) = g[N]
      /\ \A i \in 1 .. N : g[i] = IF s[i] \in M THEN Append(g[i - 1], s[i]) ELSE g[i - 1]
  BY <1>3 DEF Keeps
<1>7. /\ h[0] = <<>> /\ Keep(s, U) = h[N]
      /\ \A i \in 1 .. N : h[i] = IF s[i] \in U THEN Append(h[i - 1], s[i]) ELSE h[i - 1]
  BY <1>4 DEF Keeps
<1>8. /\ \A i \in 1 .. N : ~(s[i] \in K /\ s[i] \in M)
      /\ \A i, j \in 1 .. N : s[i] \in M /\ s[j] \in K => j < i
  BY DEF Split
<1> HIDE DEF N
<1> DEFINE Begun(i) == \E j \in 1 .. i : s[j] \in M
           P == {i \in 0 .. N : h[i] = f[i] \o g[i] /\ (g[i] = <<>> \/ Begun(i))}
<1>9. 0 \in P
  <2>1. <<>> \o <<>> = <<>>
    OBVIOUS
  <2>2. h[0] = f[0] \o g[0] /\ g[0] = <<>>
    BY <1>5, <1>6, <1>7, <2>1
  <2>3. 0 \in 0 .. N
    BY <1>1
  <2>4. h[0] = f[0] \o g[0] /\ (g[0] = <<>> \/ Begun(0))
    BY ONLY <2>2
  <2>5. QED
    BY ONLY <2>3, <2>4, Zenon
<1>10. ASSUME NEW i \in 0 .. N - 1, i \in P PROVE i + 1 \in P
  <2> DEFINE x == s[i + 1]
             a == f[i]
             b == g[i]
             a2 == f[i + 1]
             b2 == g[i + 1]
             c2 == h[i + 1]
  <2>1. i \in 0 .. N /\ i + 1 \in 1 .. N /\ i + 1 \in 0 .. N /\ (i + 1) - 1 = i /\ i \in Nat
    BY <1>1
  <2>2. /\ a2 = IF x \in K THEN Append(a, x) ELSE a
        /\ b2 = IF x \in M THEN Append(b, x) ELSE b
        /\ c2 = IF x \in U THEN Append(h[i], x) ELSE h[i]
    BY <1>5, <1>6, <1>7, <2>1
  <2>3. /\ h[i] = a \o b /\ (b = <<>> \/ Begun(i))
        /\ a \in Seq(S) /\ b \in Seq(S) /\ x \in S
    BY <1>1, <1>5, <1>6, <1>10, <2>1
  <2>4. Begun(i) => Begun(i + 1) /\ ~(x \in K)
    <3>1. SUFFICES ASSUME NEW j \in 1 .. i, s[j] \in M PROVE Begun(i + 1) /\ ~(x \in K)
      OBVIOUS
    <3>2. j \in 1 .. i + 1 /\ j \in 1 .. N /\ ~(i + 1 < j)
      BY <1>1, <2>1
    <3>3. QED
      BY <1>8, <2>1, <3>1, <3>2
  <2>5. x \in M => Begun(i + 1)
    <3>1. i + 1 \in 1 .. i + 1
      BY <2>1
    <3>2. QED
      BY <3>1
  <2>6. ~(x \in K /\ x \in M)
    BY <1>8, <2>1
  <2> HIDE DEF x, a, b, a2, b2, c2, Begun
  <2>7. CASE x \in K
    <3>1. b = <<>> /\ a2 = Append(a, x) /\ b2 = b
      BY <2>2, <2>3, <2>4, <2>6, <2>7
    <3>2. c2 = Append(a \o b, x)
      BY <2>2, <2>3, <2>7
    <3>3. c2 = a2 \o b2
      BY <2>3, <3>1, <3>2
    <3>4. QED
      BY <2>1, <3>1, <3>3 DEF a2, b2, c2
  <2>8. CASE x \in M
    <3>1. a2 = a /\ b2 = Append(b, x) /\ c2 = Append(a \o b, x)
      BY <2>2, <2>3, <2>6, <2>8
    <3>2. c2 = a2 \o b2
      <4>1. a \in Seq(S) /\ b \in Seq(S) /\ a \o b \in Seq(S) /\ <<x>> \in Seq(S)
        BY <2>3, ConcatProperties
      <4>2. Append(a \o b, x) = (a \o b) \o <<x>> /\ Append(b, x) = b \o <<x>>
        BY <2>3, <4>1, AppendIsConcat
      <4>3. (a \o b) \o <<x>> = a \o (b \o <<x>>)
        BY ONLY <4>1, ConcatAssociative
      <4>4. QED
        BY <3>1, <4>2, <4>3
    <3>3. QED
      BY <2>1, <2>5, <2>8, <3>2 DEF a2, b2, c2
  <2>9. CASE x \notin U
    <3>1. a2 = a /\ b2 = b /\ c2 = a \o b
      BY <2>2, <2>3, <2>9
    <3>2. QED
      BY <2>1, <2>3, <2>4, <3>1 DEF a2, b2, c2
  <2>10. QED
    BY <2>7, <2>8, <2>9
<1>11. N \in P
  <2> HIDE DEF P
  <2>1. QED
    BY ONLY <1>1, <1>9, <1>10, UpTo
<1>12. QED
  BY <1>5, <1>6, <1>7, <1>11

\* A list comprehension without a condition.
Mapped(g, s) == [i \in 1 .. Len(s) |-> g[s[i]]]

\* An element satisfies a condition if, and only if, its image satisfies the other one.
Agree(g, S, T, s, K, M) == g \in [S -> T] /\ \A i \in 1 .. Len(s) : s[i] \in K <=> g[s[i]] \in M

\* Two lists, kept by conditions that agree on an element and its image, are images as well.
LEMMA KeepImage ==
  ASSUME NEW S, NEW s, s \in Seq(S), NEW T, NEW g, NEW K, NEW M, Agree(g, S, T, s, K, M)
  PROVE  Keep(Mapped(g, s), M) = Mapped(g, Keep(s, K))
<1> DEFINE N == Len(s)
           t == Mapped(g, s)
<1>1. N \in Nat /\ \A i \in 1 .. N : s[i] \in S
  OBVIOUS
<1>2. g \in [S -> T] /\ \A i \in 1 .. N : s[i] \in K <=> g[s[i]] \in M
  BY DEF Agree
<1>3. \A i \in 1 .. N : g[s[i]] \in T
  BY <1>1, <1>2
<1>4. t = [i \in 1 .. N |-> g[s[i]]]
  BY DEF Mapped
<1>5. t \in Seq(T) /\ Len(t) = N /\ \A i \in 1 .. N : t[i] = g[s[i]]
  BY <1>1, <1>3, <1>4
<1> HIDE DEF t
<1>6. PICK f : Keeps(f, S, s, K)
  BY KeepIsRecursion
<1>7. PICK h : Keeps(h, T, t, M)
  BY <1>5, KeepIsRecursion
<1>8. /\ f \in [0 .. N -> Seq(S)] /\ f[0] = <<>> /\ Keep(s, K) = f[N]
      /\ \A i \in 1 .. N : f[i] = IF s[i] \in K THEN Append(f[i - 1], s[i]) ELSE f[i - 1]
  BY <1>6 DEF Keeps
<1>9. /\ h[0] = <<>> /\ Keep(t, M) = h[N]
      /\ \A i \in 1 .. N : h[i] = IF t[i] \in M THEN Append(h[i - 1], t[i]) ELSE h[i - 1]
  BY <1>5, <1>7 DEF Keeps
<1> HIDE DEF N
<1> DEFINE P == {i \in 0 .. N : h[i] = Mapped(g, f[i])}
<1>10. 0 \in P
  <2>1. Mapped(g, <<>>) = <<>>
    BY DEF Mapped
  <2>2. QED
    BY <1>1, <1>8, <1>9, <2>1
<1>11. ASSUME NEW i \in 0 .. N - 1, i \in P PROVE i + 1 \in P
  <2> DEFINE x == s[i + 1]
             a == f[i]
             a2 == f[i + 1]
             b2 == h[i + 1]
  <2>1. i \in 0 .. N /\ i + 1 \in 1 .. N /\ i + 1 \in 0 .. N /\ (i + 1) - 1 = i
    BY <1>1
  <2>2. /\ a2 = IF x \in K THEN Append(a, x) ELSE a
        /\ b2 = IF g[x] \in M THEN Append(h[i], g[x]) ELSE h[i]
    BY <1>5, <1>8, <1>9, <2>1
  <2>3. h[i] = Mapped(g, a) /\ a \in Seq(S) /\ x \in S /\ (x \in K <=> g[x] \in M)
    BY <1>1, <1>2, <1>8, <1>11, <2>1
  <2> HIDE DEF x, a, a2, b2
  <2>4. Append(Mapped(g, a), g[x]) = Mapped(g, Append(a, x))
    <3> DEFINE n == Len(a)
               m == Mapped(g, a)
               l == Append(m, g[x])
               r == Mapped(g, Append(a, x))
    <3>1. n \in Nat /\ \A k \in 1 .. n : a[k] \in S
      BY <2>3
    <3>2. m = [k \in 1 .. n |-> g[a[k]]]
      BY DEF Mapped
    <3>3. m \in Seq(T) /\ Len(m) = n /\ (\A k \in 1 .. n : m[k] = g[a[k]]) /\ g[x] \in T
      BY <1>2, <2>3, <3>1, <3>2
    <3> HIDE DEF m
    <3>4. l \in Seq(T) /\ Len(l) = n + 1 /\ l[n + 1] = g[x] /\ \A k \in 1 .. n : l[k] = m[k]
      BY <3>1, <3>3
    <3>5. Len(Append(a, x)) = n + 1 /\ Append(a, x)[n + 1] = x /\ \A k \in 1 .. n : Append(a, x)[k] = a[k]
      BY <2>3
    <3>6. r = [k \in 1 .. n + 1 |-> g[Append(a, x)[k]]]
      BY <3>5 DEF Mapped
    <3>7. \A k \in 1 .. n + 1 : k = n + 1 \/ k \in 1 .. n
      BY <3>1
    <3>8. \A k \in 1 .. n + 1 : g[Append(a, x)[k]] \in T
      BY <3>1, <1>2, <2>3, <3>5, <3>7
    <3>9. r \in Seq(T) /\ Len(r) = n + 1 /\ \A k \in 1 .. n + 1 : r[k] = g[Append(a, x)[k]]
      BY <3>1, <3>6, <3>8
    <3> HIDE DEF l, r, n
    <3>10. \A k \in 1 .. n + 1 : l[k] = r[k]
      <4>1. SUFFICES ASSUME NEW k \in 1 .. n + 1 PROVE l[k] = r[k]
        OBVIOUS
      <4>2. r[k] = g[Append(a, x)[k]]
        BY <3>9, <4>1
      <4>3. CASE k = n + 1
        BY <3>4, <3>5, <4>2, <4>3
      <4>4. CASE k \in 1 .. n
        BY <3>3, <3>4, <3>5, <4>2, <4>4
      <4>5. QED
        BY <3>7, <4>1, <4>3, <4>4
    <3>11. l = r
      BY <3>4, <3>9, <3>10, SeqEqual
    <3>12. QED
      BY <3>11 DEF l, r, m
  <2>5. b2 = Mapped(g, a2)
    BY <2>2, <2>3, <2>4
  <2>6. QED
    BY <2>1, <2>5 DEF a2, b2
<1>12. N \in P
  <2> HIDE DEF P
  <2>1. QED
    BY ONLY <1>1, <1>10, <1>11, UpTo
<1>13. QED
  BY <1>8, <1>9, <1>12 DEF t

\* One more part.
LEMMA FlattenAppend ==
  ASSUME NEW S, NEW ss, ss \in Seq(Seq(S)), NEW x, x \in Seq(S)
  PROVE  /\ FlattenSeq(ss) \in Seq(S) /\ FlattenSeq(Append(ss, x)) \in Seq(S)
         /\ FlattenSeq(Append(ss, x)) = FlattenSeq(ss) \o x
<1> DEFINE n == Len(ss)
           more == Append(ss, x)
<1>1. n \in Nat /\ more \in Seq(Seq(S)) /\ Len(more) = n + 1 /\ more[n + 1] = x
      /\ \A i \in 1 .. n : more[i] = ss[i]
  OBVIOUS
<1> HIDE DEF more
<1>2. PICK f \in [0 .. n -> Seq(S)] :
        f[0] = <<>> /\ (\A i \in 1 .. n : f[i] = f[i - 1] \o ss[i]) /\ FlattenSeq(ss) = f[n]
  BY Flatten
<1>3. PICK g \in [0 .. Len(more) -> Seq(S)] :
        /\ g[0] = <<>>
        /\ \A i \in 1 .. Len(more) : g[i] = g[i - 1] \o more[i]
        /\ FlattenSeq(more) = g[Len(more)]
  BY <1>1, Flatten
<1> HIDE DEF n
<1> DEFINE P == {i \in 0 .. n : g[i] = f[i]}
<1>4. 0 \in P
  BY <1>1, <1>2, <1>3
<1>5. ASSUME NEW i \in 0 .. n - 1, i \in P PROVE i + 1 \in P
  <2>1. i + 1 \in 1 .. n /\ i + 1 \in 1 .. n + 1 /\ i + 1 \in 0 .. n /\ (i + 1) - 1 = i
    BY <1>1
  <2>2. g[i] = f[i] /\ more[i + 1] = ss[i + 1]
    BY <1>1, <1>5, <2>1
  <2>3. f[i + 1] = f[i] \o ss[i + 1]
    BY ONLY <1>2, <2>1
  <2>4. g[i + 1] = g[i] \o more[i + 1]
    BY ONLY <1>1, <1>3, <2>1
  <2>5. g[i + 1] = f[i + 1]
    BY ONLY <2>2, <2>3, <2>4
  <2>6. QED
    BY <2>1, <2>5
<1>6. n \in P
  <2> HIDE DEF P
  <2>1. QED
    BY ONLY <1>1, <1>4, <1>5, UpTo
<1>7. n + 1 \in 1 .. n + 1 /\ (n + 1) - 1 = n /\ n \in 0 .. n /\ n + 1 \in 0 .. n + 1
  BY <1>1
<1>8. g[n + 1] = g[n] \o x
  BY <1>1, <1>3, <1>7
<1>9. g[n] = f[n] /\ f[n] \in Seq(S)
  BY <1>2, <1>6, <1>7
<1>10. FlattenSeq(more) = g[n + 1] /\ FlattenSeq(ss) = f[n]
  BY ONLY <1>1, <1>2, <1>3
<1>11. f[n] \o x \in Seq(S)
  BY ONLY <1>9, x \in Seq(S), ConcatProperties
<1>12. QED
  BY <1>8, <1>9, <1>10, <1>11 DEF more

\* One more element before the list.
LEMMA KeepBefore ==
  ASSUME NEW S, NEW s, s \in Seq(S), NEW x \in S, NEW K
  PROVE  Keep(<<x>> \o s, K) = IF x \in K THEN <<x>> \o Keep(s, K) ELSE Keep(s, K)
<1> DEFINE n == Len(s)
           more == <<x>> \o s
           before == IF x \in K THEN <<x>> ELSE <<>>
<1>1. n \in Nat /\ more \in Seq(S) /\ Len(more) = n + 1 /\ more[1] = x
      /\ \A i \in 1 .. n : more[i + 1] = s[i] /\ s[i] \in S
  OBVIOUS
<1>2. before \in Seq(S)
  OBVIOUS
<1> HIDE DEF more
<1>3. PICK f : Keeps(f, S, s, K)
  BY KeepIsRecursion
<1>4. PICK g : Keeps(g, S, more, K)
  BY <1>1, KeepIsRecursion
<1>5. /\ f \in [0 .. n -> Seq(S)] /\ f[0] = <<>> /\ Keep(s, K) = f[n]
      /\ \A i \in 1 .. n : f[i] = IF s[i] \in K THEN Append(f[i - 1], s[i]) ELSE f[i - 1]
  BY <1>3 DEF Keeps
<1>6. /\ g[0] = <<>> /\ Keep(more, K) = g[n + 1]
      /\ \A i \in 1 .. n + 1 : g[i] = IF more[i] \in K THEN Append(g[i - 1], more[i]) ELSE g[i - 1]
  BY <1>1, <1>4 DEF Keeps
<1> HIDE DEF n
<1> DEFINE P == {i \in 0 .. n : g[i + 1] = before \o f[i]}
<1>7. 0 \in P
  <2>1. 1 \in 1 .. n + 1 /\ 1 - 1 = 0 /\ 0 + 1 = 1 /\ 0 \in 0 .. n
    BY <1>1
  <2>2. g[1] = IF x \in K THEN Append(<<>>, x) ELSE <<>>
    BY <1>1, <1>6, <2>1
  <2>3. Append(<<>>, x) = <<x>>
    OBVIOUS
  <2>4. g[1] = before
    BY <2>2, <2>3
  <2> HIDE DEF before
  <2>5. before \o <<>> = before
    BY <1>2, ConcatEmptySeq
  <2>6. QED
    BY <1>5, <2>1, <2>4, <2>5
<1> HIDE DEF before
<1>8. ASSUME NEW i \in 0 .. n - 1, i \in P PROVE i + 1 \in P
  <2> DEFINE y == s[i + 1]
             a == f[i]
             a2 == f[i + 1]
             b2 == g[(i + 1) + 1]
  <2>1. /\ i \in 0 .. n /\ i + 1 \in 1 .. n /\ i + 1 \in 0 .. n /\ (i + 1) - 1 = i
        /\ (i + 1) + 1 \in 1 .. n + 1 /\ ((i + 1) + 1) - 1 = i + 1
    BY <1>1
  <2>2. /\ a2 = IF y \in K THEN Append(a, y) ELSE a
        /\ b2 = IF y \in K THEN Append(g[i + 1], y) ELSE g[i + 1]
    <3>1. a2 = IF y \in K THEN Append(f[(i + 1) - 1], y) ELSE f[(i + 1) - 1]
      BY ONLY <1>5, <2>1
    <3>2. more[(i + 1) + 1] = y
      BY ONLY <1>1, <2>1
    <3> DEFINE j == (i + 1) + 1
    <3>3. b2 = IF more[j] \in K THEN Append(g[j - 1], more[j]) ELSE g[j - 1]
      BY ONLY <1>6, <2>1
    <3>4. QED
      BY ONLY <2>1, <3>1, <3>2, <3>3
  <2>3. g[i + 1] = before \o a /\ a \in Seq(S) /\ y \in S
    BY <1>1, <1>5, <1>8, <2>1
  <2> HIDE DEF y, a, a2, b2
  <2>4. Append(before \o a, y) = before \o Append(a, y)
    <3>1. before \o a \in Seq(S) /\ <<y>> \in Seq(S)
      BY <1>2, <2>3, ConcatProperties
    <3>2. Append(before \o a, y) = (before \o a) \o <<y>> /\ Append(a, y) = a \o <<y>>
      BY <2>3, <3>1, AppendIsConcat
    <3> DEFINE z == <<y>>
    <3>3. before \in Seq(S) /\ a \in Seq(S) /\ z \in Seq(S)
      BY <1>2, <2>3, <3>1
    <3> HIDE DEF z
    <3>4. (before \o a) \o z = before \o (a \o z)
      BY ONLY <3>3, ConcatAssociative
    <3>5. QED
      BY <3>2, <3>4 DEF z
  <2>5. b2 = before \o a2
    BY <2>2, <2>3, <2>4
  <2>6. QED
    BY <2>1, <2>5 DEF a2, b2
<1>9. n \in P
  <2> HIDE DEF P
  <2>1. QED
    BY ONLY <1>1, <1>7, <1>8, UpTo
<1>10. Keep(more, K) = before \o Keep(s, K)
  BY <1>5, <1>6, <1>9
<1>11. CASE x \in K
  BY <1>10, <1>11 DEF before, more
<1>12. CASE x \notin K
  <2>1. n \in 0 .. n
    BY <1>1
  <2>2. Keep(s, K) \in Seq(S)
    BY <1>5, <2>1
  <2>3. <<>> \o Keep(s, K) = Keep(s, K)
    BY <2>2, ConcatEmptySeq
  <2>4. QED
    BY <1>10, <1>12, <2>3 DEF before, more
<1>13. QED
  BY <1>11, <1>12

\* Every sequence of parts has its places.
LEMMA PlacesExist ==
  ASSUME NEW S, NEW ss, ss \in Seq(Seq(S))
  PROVE  \E at : Places(at, ss)
<1> DEFINE n == Len(ss)
           step == [i \in 1 .. n |-> [v \in Nat |-> v + Len(ss[i])]]
<1>1. n \in Nat /\ \A i \in 1 .. n : Len(ss[i]) \in Nat
  OBVIOUS
<1>2. step \in [1 .. n -> [Nat -> Nat]] /\ \A i \in 1 .. n : \A v \in Nat : step[i][v] = v + Len(ss[i])
  BY <1>1
<1> HIDE DEF n, step
<1>3. \E f : IsRecursion(f, Nat, 0, n, step)
  BY <1>1, <1>2, Recursion
<1>4. PICK at : at \in [0 .. n -> Nat] /\ at[0] = 0 /\ \A i \in 1 .. n : at[i] = step[i][at[i - 1]]
  BY <1>3, Zenon DEF IsRecursion
<1>5. ASSUME NEW i \in 1 .. n PROVE at[i] = at[i - 1] + Len(ss[i])
  <2>1. i - 1 \in 0 .. n
    BY <1>1
  <2>2. QED
    BY <1>2, <1>4, <2>1
<1>6. Places(at, ss)
  BY <1>4, <1>5 DEF Places, n
<1>7. QED
  BY <1>6

\* The flattened sequence has the elements of the parts.
LEMMA FlattenElements ==
  ASSUME NEW S, NEW ss, ss \in Seq(Seq(S))
  PROVE  /\ FlattenSeq(ss) \in Seq(S)
         /\ ToSet(FlattenSeq(ss)) = UNION {ToSet(s) : s \in ToSet(ss)}
<1> DEFINE n == Len(ss)
           U(i) == UNION {ToSet(ss[j]) : j \in 1 .. i}
<1>1. n \in Nat /\ \A i \in 1 .. n : ss[i] \in Seq(S)
  OBVIOUS
<1>2. PICK f \in [0 .. n -> Seq(S)] :
        f[0] = <<>> /\ (\A i \in 1 .. n : f[i] = f[i - 1] \o ss[i]) /\ FlattenSeq(ss) = f[n]
  BY Flatten
<1>3. U(n) = UNION {ToSet(s) : s \in ToSet(ss)}
  <2>1. DOMAIN ss = 1 .. n
    OBVIOUS
  <2>2. ToSet(ss) = {ss[j] : j \in 1 .. n}
    BY <2>1 DEF ToSet
  <2>3. QED
    BY <2>2
<1> HIDE DEF n
<1> DEFINE P == {i \in 0 .. n : ToSet(f[i]) = U(i)}
<1>4. 0 \in P
  <2>1. ToSet(<<>>) = {}
    BY DEF ToSet
  <2>2. U(0) = {}
    OBVIOUS
  <2>3. QED
    BY <1>1, <1>2, <2>1, <2>2
<1>5. ASSUME NEW i \in 0 .. n - 1, i \in P PROVE i + 1 \in P
  <2> DEFINE a == f[i]
             b == ss[i + 1]
             c == f[i + 1]
  <2>1. i \in 0 .. n /\ i + 1 \in 1 .. n /\ i + 1 \in 0 .. n /\ (i + 1) - 1 = i /\ i \in Nat
    BY <1>1
  <2>2. c = a \o b /\ a \in Seq(S) /\ b \in Seq(S) /\ ToSet(a) = U(i)
    BY <1>1, <1>2, <1>5, <2>1
  <2>3. U(i + 1) = U(i) \cup ToSet(b)
    <3>1. \A j : j \in 1 .. i + 1 <=> j \in 1 .. i \/ j = i + 1
      BY <2>1
    <3>2. QED
      BY <3>1
  <2> HIDE DEF U, a, b, c
  <2>4. /\ c \in Seq(S) /\ Len(c) = Len(a) + Len(b) /\ Len(a) \in Nat /\ Len(b) \in Nat
        /\ \A p \in 1 .. Len(a) : c[p] = a[p]
        /\ \A k \in 1 .. Len(b) : c[Len(a) + k] = b[k]
    BY <2>2, ConcatIs
  <2>5. ASSUME NEW x \in ToSet(c) PROVE x \in ToSet(a) \cup ToSet(b)
    <3>1. PICK p \in 1 .. Len(c) : c[p] = x
      BY <2>4, Elements
    <3>2. CASE p \in 1 .. Len(a)
      BY <2>2, <2>4, <3>1, <3>2, Elements
    <3>3. CASE p \notin 1 .. Len(a)
      <4> DEFINE k == p - Len(a)
      <4>1. k \in 1 .. Len(b) /\ Len(a) + k = p
        BY <2>4, <3>3
      <4> HIDE DEF k
      <4>2. x = b[k]
        BY <2>4, <3>1, <4>1
      <4>3. QED
        BY <2>2, <4>1, <4>2, Elements
    <3>4. QED
      BY <3>2, <3>3
  <2>6. ASSUME NEW x \in ToSet(a) PROVE x \in ToSet(c)
    <3>1. PICK p \in 1 .. Len(a) : a[p] = x
      BY <2>2, Elements
    <3>2. p \in 1 .. Len(c) /\ c[p] = x
      BY <2>4, <3>1
    <3>3. QED
      BY <2>4, <3>2, Elements
  <2>7. ASSUME NEW x \in ToSet(b) PROVE x \in ToSet(c)
    <3>1. PICK k \in 1 .. Len(b) : b[k] = x
      BY <2>2, Elements
    <3>2. Len(a) + k \in 1 .. Len(c) /\ c[Len(a) + k] = x
      BY <2>4, <3>1
    <3>3. QED
      BY <2>4, <3>2, Elements
  <2>8. ToSet(c) = ToSet(a) \cup ToSet(b)
    BY <2>5, <2>6, <2>7
  <2>9. QED
    BY <2>1, <2>2, <2>3, <2>8 DEF c
<1>6. n \in P
  <2> HIDE DEF P
  <2>1. QED
    BY ONLY <1>1, <1>4, <1>5, UpTo
<1>7. n \in 0 .. n
  BY <1>1
<1>8. FlattenSeq(ss) \in Seq(S) /\ ToSet(FlattenSeq(ss)) = U(n)
  BY <1>2, <1>6, <1>7
<1>9. QED
  BY <1>3, <1>8
=============================================================================
