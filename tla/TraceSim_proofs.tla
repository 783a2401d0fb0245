--------------------------- MODULE TraceSim_proofs ---------------------------
(***************************************************************************)
(* Proofs about routing traces, for every model, batch size and sequence   *)
(* of runs: the post-processed trace is what was routed, and what the      *)
(* simulators say of a trace is in order, for every capacity.              *)
(***************************************************************************)
EXTENDS TraceSim, SeqFolds_proofs

-----------------------------------------------------------------------------
(* The steps of a file (sim/trace_post.py).                                *)

NonEmpty(R) == Seq(R) \ {<<>>}

Accumulators(R) == [steps : Seq(NonEmpty(R)), current : Seq(R)]

NothingRead == [steps |-> <<>>, current |-> <<>>]

\* A file is read line by line.
Reads(f, R, file) ==
  /\ f \in [0 .. Len(file) -> Accumulators(R)]
  /\ f[0] = NothingRead
  /\ \A i \in 1 .. Len(file) : f[i] = Read(f[i - 1], file[i])
  /\ Parsed(file) = f[Len(file)]

\* One line of the file.
LEMMA ReadIs ==
  ASSUME NEW R, NEW acc \in Accumulators(R), NEW rec \in R
  PROVE  /\ Read(acc, rec) \in Accumulators(R)
         /\ Read(acc, rec).current # <<>>
         /\ Last(Read(acc, rec).current) = rec
<1> DEFINE steps == acc.steps
           current == acc.current
           T == NonEmpty(R)
<1>1. steps \in Seq(T) /\ current \in Seq(R) /\ acc = [steps |-> steps, current |-> current]
  BY DEF Accumulators
<1>2. CASE current # <<>> /\ Resets(Last(current), rec)
  <2>1. Read(acc, rec) = [steps |-> Append(steps, current), current |-> <<rec>>]
    BY <1>2 DEF Read
  <2>2. current \in T
    BY <1>1, <1>2 DEF NonEmpty
  <2> HIDE DEF T
  <2>3. Append(steps, current) \in Seq(T)
    BY <1>1, <2>2
  <2>4. <<rec>> \in Seq(R) /\ <<rec>> # <<>> /\ Last(<<rec>>) = rec
    BY DEF Last
  <2> HIDE DEF steps, current
  <2>5. QED
    BY <2>1, <2>3, <2>4 DEF Accumulators, T
<1>3. CASE ~(current # <<>> /\ Resets(Last(current), rec))
  <2>1. Read(acc, rec) = [acc EXCEPT !.current = Append(current, rec)]
    BY <1>3, Zenon DEF Read
  <2> HIDE DEF steps, current, T
  <2>2. Read(acc, rec) = [steps |-> steps, current |-> Append(current, rec)]
    BY <1>1, <2>1
  <2> DEFINE more == Append(current, rec)
  <2>3. more \in Seq(R) /\ more # <<>>
    BY <1>1, AppendProperties
  <2>4. Last(more) = rec
    <3>1. Len(more) = Len(current) + 1 /\ more[Len(current) + 1] = rec
      BY <1>1
    <3>2. QED
      BY <3>1 DEF Last
  <2>5. Read(acc, rec) = [steps |-> steps, current |-> more] /\ steps \in Seq(NonEmpty(R))
    BY <1>1, <2>2 DEF T
  <2> HIDE DEF more
  <2>6. QED
    BY <2>3, <2>4, <2>5 DEF Accumulators
<1>4. QED
  BY <1>2, <1>3

\* The loop of parse_steps does what its equation says.
LEMMA ParsedIsRecursion ==
  ASSUME NEW R, NEW file, file \in Seq(R)
  PROVE  \E f : Reads(f, R, file)
<1> DEFINE N == Len(file)
           T == Accumulators(R)
           E == NothingRead
           step == [i \in 1 .. N |-> [v \in T |-> Read(v, file[i])]]
           Body(g, i) == IF i = 0 THEN E ELSE Read(g[i - 1], file[i])
           Rec(g) == g = [i \in 0 .. N |-> Body(g, i)]
           rec == CHOOSE g : Rec(g)
<1>1. N \in Nat /\ \A i \in 1 .. N : file[i] \in R
  OBVIOUS
<1>2. E \in T
  BY DEF NothingRead, Accumulators
<1>3. step \in [1 .. N -> [T -> T]]
  BY <1>1, ReadIs
<1>4. \A i \in 1 .. N : \A v \in T : step[i][v] = Read(v, file[i])
  OBVIOUS
<1>5. Parsed(file) = rec[N]
  BY Zenon DEF Parsed, NothingRead
<1>6. \E f : IsRecursion(f, T, E, N, step)
  <2> HIDE DEF N, T, E, step
  <2>1. QED
    BY ONLY <1>1, <1>2, <1>3, Recursion
<1>7. PICK f : f \in [0 .. N -> T] /\ f[0] = E /\ \A i \in 1 .. N : f[i] = step[i][f[i - 1]]
  BY <1>6, Zenon DEF IsRecursion
<1> HIDE DEF N, T, E, step
<1>8. ASSUME NEW i \in 1 .. N PROVE f[i] = Read(f[i - 1], file[i])
  <2>1. i - 1 \in 0 .. N
    BY <1>1
  <2>2. f[i - 1] \in T
    BY <1>7, <2>1
  <2>3. QED
    BY <1>4, <1>7, <2>2
<1>9. Rec(f)
  <2>1. ASSUME NEW i \in 0 .. N PROVE f[i] = Body(f, i)
    <3>1. CASE i = 0
      BY <1>7, <3>1
    <3>2. CASE i # 0
      <4>1. i \in 1 .. N
        BY <1>1, <3>2
      <4>2. QED
        BY <1>8, <3>2, <4>1
    <3>3. QED
      BY <3>1, <3>2
  <2> HIDE DEF Body
  <2>2. QED
    BY <1>7, <2>1
<1>10. Rec(rec)
  BY <1>9, Zenon
<1>11. ASSUME NEW i \in 0 .. N PROVE rec[i] = Body(rec, i)
  <2> DEFINE again == [j \in 0 .. N |-> Body(rec, j)]
  <2>1. rec = again
    BY <1>10, Zenon
  <2>2. again[i] = Body(rec, i)
    BY Zenon
  <2>3. QED
    BY <2>1, <2>2, Zenon
<1> HIDE DEF rec
<1> DEFINE P == {n \in 0 .. N : rec[n] = f[n]}
<1>12. 0 \in P
  BY <1>1, <1>7, <1>11
<1>13. ASSUME NEW n \in 0 .. N - 1, n \in P PROVE n + 1 \in P
  <2>1. n + 1 \in 1 .. N /\ n + 1 \in 0 .. N /\ n + 1 # 0 /\ (n + 1) - 1 = n
    BY <1>1
  <2>2. rec[n + 1] = Read(rec[n], file[n + 1]) /\ f[n + 1] = Read(f[n], file[n + 1])
    BY <1>8, <1>11, <2>1
  <2>3. QED
    BY <1>13, <2>1, <2>2
<1>14. N \in P
  <2> HIDE DEF P
  <2>1. QED
    BY ONLY <1>1, <1>12, <1>13, UpTo
<1>15. Reads(f, R, file)
  BY <1>5, <1>7, <1>8, <1>14 DEF Reads, N, T, E
<1>16. QED
  BY <1>15, Zenon

\* What is read of an empty file, and of a file that is one line longer.
LEMMA ParsedAppend ==
  ASSUME NEW R, NEW file, file \in Seq(R), NEW rec \in R
  PROVE  /\ Parsed(file) \in Accumulators(R)
         /\ file = <<>> => Parsed(file) = NothingRead
         /\ file # <<>> => Parsed(file).current # <<>> /\ Last(Parsed(file).current) = Last(file)
         /\ Parsed(Append(file, rec)) = Read(Parsed(file), rec)
<1> DEFINE N == Len(file)
           longer == Append(file, rec)
<1>1. /\ N \in Nat /\ longer \in Seq(R) /\ Len(longer) = N + 1 /\ longer[N + 1] = rec
      /\ \A i \in 1 .. N : longer[i] = file[i] /\ file[i] \in R
  OBVIOUS
<1> HIDE DEF longer
<1>2. PICK f : Reads(f, R, file)
  BY ParsedIsRecursion
<1>3. PICK g : Reads(g, R, longer)
  BY <1>1, ParsedIsRecursion
<1>4. /\ f \in [0 .. N -> Accumulators(R)] /\ f[0] = NothingRead /\ Parsed(file) = f[N]
      /\ \A i \in 1 .. N : f[i] = Read(f[i - 1], file[i])
  BY <1>2 DEF Reads
<1>5. /\ g[0] = NothingRead /\ Parsed(longer) = g[N + 1]
      /\ \A i \in 1 .. N + 1 : g[i] = Read(g[i - 1], longer[i])
  BY <1>1, <1>3 DEF Reads
<1> DEFINE P == {n \in 0 .. N : g[n] = f[n]}
<1>6. 0 \in P
  BY <1>1, <1>4, <1>5
<1>7. ASSUME NEW n \in 0 .. N - 1, n \in P PROVE n + 1 \in P
  <2>1. n + 1 \in 1 .. N /\ n + 1 \in 1 .. N + 1 /\ n + 1 \in 0 .. N /\ (n + 1) - 1 = n
    BY <1>1
  <2>2. g[n + 1] = Read(g[n], file[n + 1]) /\ f[n + 1] = Read(f[n], file[n + 1])
    BY <1>1, <1>4, <1>5, <2>1
  <2>3. QED
    BY <1>7, <2>1, <2>2
<1>8. N \in P
  <2> HIDE DEF P, N
  <2>1. QED
    BY ONLY <1>1, <1>6, <1>7, UpTo
<1>9. Parsed(longer) = Read(Parsed(file), rec)
  <2>1. N + 1 \in 1 .. N + 1 /\ (N + 1) - 1 = N
    BY <1>1
  <2>2. g[N + 1] = Read(g[N], rec)
    BY <1>1, <1>5, <2>1
  <2>3. QED
    BY <1>4, <1>5, <1>8, <2>2
<1>10. Parsed(file) \in Accumulators(R)
  BY <1>1, <1>4
<1>11. file = <<>> => Parsed(file) = NothingRead
  BY <1>4
<1>12. ASSUME file # <<>>
       PROVE  Parsed(file).current # <<>> /\ Last(Parsed(file).current) = Last(file)
  <2>1. N \in 1 .. N /\ N - 1 \in 0 .. N
    BY <1>1, <1>12
  <2>2. f[N] = Read(f[N - 1], file[N]) /\ f[N - 1] \in Accumulators(R) /\ file[N] \in R
    BY <1>1, <1>4, <2>1
  <2>3. QED
    BY <1>4, <2>2, ReadIs DEF Last
<1>13. QED
  BY <1>9, <1>10, <1>11, <1>12 DEF longer

\* The record becomes one of the last step.
GoesOn(R, file, rec) ==
  \E begun \in Seq(NonEmpty(R)), step \in NonEmpty(R) :
    /\ parse_steps(file) = Append(begun, step)
    /\ parse_steps(Append(file, rec)) = Append(begun, Append(step, rec))

\* A line that resets the layer begins a step, and another one goes on with the last step.
LEMMA ParseStep ==
  ASSUME NEW R, NEW file, file \in Seq(R), NEW rec \in R
  PROVE  /\ parse_steps(file) \in Seq(NonEmpty(R))
         /\ file = <<>> => parse_steps(file) = <<>>
         /\ file = <<>> \/ Resets(Last(file), rec) =>
              parse_steps(Append(file, rec)) = Append(parse_steps(file), <<rec>>)
         /\ file # <<>> /\ ~Resets(Last(file), rec) => GoesOn(R, file, rec)
<1> DEFINE T == NonEmpty(R)
           acc == Parsed(file)
           steps == acc.steps
           current == acc.current
<1>1. /\ acc \in Accumulators(R)
      /\ file = <<>> => acc = NothingRead
      /\ file # <<>> => current # <<>> /\ Last(current) = Last(file)
      /\ Parsed(Append(file, rec)) = Read(acc, rec)
  BY ParsedAppend
<1> HIDE DEF acc
<1>2. steps \in Seq(T) /\ current \in Seq(R) /\ acc = [steps |-> steps, current |-> current]
  BY <1>1 DEF Accumulators
<1>3. parse_steps(file) = IF current = <<>> THEN steps ELSE Append(steps, current)
  BY Zenon DEF parse_steps, AllSteps, acc
<1>4. parse_steps(Append(file, rec)) = AllSteps(Read(acc, rec))
  BY <1>1, Zenon DEF parse_steps
<1>5. current # <<>> => current \in T
  BY <1>2 DEF NonEmpty
<1>6. parse_steps(file) \in Seq(T)
  <2> HIDE DEF steps, current, T
  <2>1. QED
    BY <1>2, <1>3, <1>5
<1>7. file = <<>> => parse_steps(file) = <<>> /\ current = <<>>
  BY <1>1, <1>3 DEF NothingRead
<1>8. ASSUME file = <<>> \/ Resets(Last(file), rec)
      PROVE  parse_steps(Append(file, rec)) = Append(parse_steps(file), <<rec>>)
  <2>1. CASE file = <<>>
    <3>1. current = <<>> /\ steps = <<>>
      BY <1>1, <2>1 DEF NothingRead
    <3>2. Read(acc, rec) = [acc EXCEPT !.current = Append(current, rec)]
      BY <3>1, Zenon DEF Read
    <3> HIDE DEF steps, current
    <3>3. Read(acc, rec) = [steps |-> <<>>, current |-> <<rec>>]
      BY <1>2, <3>1, <3>2
    <3>4. AllSteps(Read(acc, rec)) = Append(<<>>, <<rec>>)
      BY <3>3 DEF AllSteps
    <3>5. QED
      BY <1>4, <1>7, <2>1, <3>4
  <2>2. CASE file # <<>>
    <3>1. current # <<>> /\ Resets(Last(current), rec)
      BY <1>1, <1>8, <2>2
    <3>2. Read(acc, rec) = [steps |-> Append(steps, current), current |-> <<rec>>]
      BY <3>1 DEF Read
    <3> HIDE DEF steps, current
    <3>3. AllSteps(Read(acc, rec)) = Append(Append(steps, current), <<rec>>)
      BY <3>2 DEF AllSteps
    <3>4. QED
      BY <1>3, <1>4, <3>1, <3>3
  <2>3. QED
    BY <2>1, <2>2
<1>9. ASSUME file # <<>>, ~Resets(Last(file), rec)
      PROVE  GoesOn(R, file, rec)
  <2>1. current # <<>> /\ ~Resets(Last(current), rec)
    BY <1>1, <1>9
  <2>2. Read(acc, rec) = [acc EXCEPT !.current = Append(current, rec)]
    BY <2>1, Zenon DEF Read
  <2> HIDE DEF steps, current
  <2>3. Read(acc, rec) = [steps |-> steps, current |-> Append(current, rec)]
    BY <1>2, <2>2
  <2>4. AllSteps(Read(acc, rec)) = Append(steps, Append(current, rec))
    <3>1. Append(current, rec) # <<>>
      BY <1>2, AppendProperties
    <3>2. QED
      BY <2>3, <3>1 DEF AllSteps
  <2>5. /\ parse_steps(file) = Append(steps, current)
        /\ parse_steps(Append(file, rec)) = Append(steps, Append(current, rec))
    BY <1>3, <1>4, <2>1, <2>4
  <2>6. steps \in Seq(T) /\ current \in T
    BY <1>2, <1>5, <2>1
  <2> HIDE DEF T
  <2>7. QED
    BY <2>5, <2>6 DEF GoesOn, T
<1>10. QED
  BY <1>6, <1>7, <1>8, <1>9

-----------------------------------------------------------------------------
(* The tokens of a step.                                                   *)

\* The largest of numbers that have a bound.
LEMMA MaxOfBounded ==
  ASSUME NEW T \in SUBSET Nat, T # {}, NEW b \in Nat, \A y \in T : y <= b
  PROVE  Max(T) \in T /\ \A y \in T : y <= Max(T)
<1> DEFINE Bounds == {c \in Nat : \A y \in T : y <= c}
<1>1. b \in Bounds
  OBVIOUS
<1>2. PICK c \in Bounds : \A d \in Bounds : c <= d
  <2> HIDE DEF Bounds
  <2>1. Bounds \in SUBSET Nat
    BY DEF Bounds
  <2>2. QED
    BY <1>1, <2>1, Least
<1>3. c \in T
  <2>1. SUFFICES ASSUME c \notin T PROVE FALSE
    OBVIOUS
  <2>2. c \in Nat /\ \A y \in T : y \in Nat /\ y <= c /\ y # c
    BY <2>1
  <2>3. PICK z \in T : TRUE
    OBVIOUS
  <2>4. c - 1 \in Nat
    BY <2>2, <2>3
  <2>5. \A y \in T : y <= c - 1
    BY <2>2
  <2>6. c - 1 \in Bounds
    BY <2>4, <2>5
  <2>7. c <= c - 1
    BY <1>2, <2>6
  <2>8. QED
    BY <2>2, <2>7
<1>4. \E x \in T : \A y \in T : x >= y
  BY <1>3
<1>5. QED
  BY <1>4 DEF Max

\* The largest number is the one that is at least each of them.
LEMMA MaxIsIt ==
  ASSUME NEW T \in SUBSET Int, NEW x \in T, \A y \in T : y <= x
  PROVE  Max(T) = x
<1>1. \E m \in T : \A y \in T : m >= y
  BY Zenon
<1>2. Max(T) \in T /\ \A y \in T : Max(T) >= y
  BY <1>1 DEF Max
<1>3. Max(T) >= x /\ Max(T) <= x /\ Max(T) \in Int /\ x \in Int
  BY <1>2
<1>4. QED
  BY <1>3

\* The numbers of a sequence have a bound.
LEMMA Bounded ==
  ASSUME NEW s, s \in Seq(Nat)
  PROVE  \E b \in Nat : \A i \in 1 .. Len(s) : s[i] <= b
<1> DEFINE N == Len(s)
           P == {n \in 0 .. N : \E b \in Nat : \A i \in 1 .. n : s[i] <= b}
<1>1. N \in Nat /\ \A i \in 1 .. N : s[i] \in Nat
  OBVIOUS
<1> HIDE DEF N
<1>2. 0 \in P
  BY <1>1
<1>3. ASSUME NEW n \in 0 .. N - 1, n \in P PROVE n + 1 \in P
  <2>1. PICK b \in Nat : \A i \in 1 .. n : s[i] <= b
    BY <1>3
  <2>2. n + 1 \in 1 .. N /\ n + 1 \in 0 .. N /\ s[n + 1] \in Nat
    BY <1>1
  <2> DEFINE c == b + s[n + 1]
  <2>3. c \in Nat /\ b <= c /\ s[n + 1] <= c
    BY <2>2
  <2> HIDE DEF c
  <2>4. ASSUME NEW i \in 1 .. n + 1 PROVE s[i] <= c
    <3>1. CASE i = n + 1
      BY <2>3, <3>1
    <3>2. CASE i # n + 1
      <4>1. i \in 1 .. n /\ i \in 1 .. N
        BY <1>1, <2>2, <3>2
      <4>2. s[i] <= b /\ s[i] \in Nat
        BY <1>1, <2>1, <4>1
      <4>3. QED
        BY <2>3, <4>2
    <3>3. QED
      BY <3>1, <3>2
  <2>5. QED
    BY <2>2, <2>3, <2>4
<1>4. N \in P
  <2> HIDE DEF P
  <2>1. QED
    BY ONLY <1>1, <1>2, <1>3, UpTo
<1>5. QED
  BY <1>4 DEF N

\* What the constants are.
LEMMA ConstantsAre ==
  /\ MoeLayers \in Seq(Nat) /\ Len(MoeLayers) \in Nat /\ Len(MoeLayers) > 1
  /\ \A i \in 1 .. Len(MoeLayers) : MoeLayers[i] \in Nat /\ MoeLayers[i] \in ToSet(MoeLayers)
  /\ TopK \in Nat /\ TopK > 0
  /\ BatchSizes \subseteq Nat \ {0}
<1>1. Cardinality(Experts) \in Nat
  BY TraceAssumption, FS_CardinalityType
<1>2. QED
  BY <1>1, TraceAssumption, Elements

\* The layers go up.
LEMMA LayersGoUp == \A i, j \in 1 .. Len(MoeLayers) : i < j => MoeLayers[i] < MoeLayers[j]
<1> DEFINE N == Len(MoeLayers)
<1>1. N \in Nat /\ \A i \in 1 .. N : MoeLayers[i] \in Nat
  BY ConstantsAre
<1>2. \A i \in 1 .. N - 1 : MoeLayers[i] < MoeLayers[i + 1]
  BY TraceAssumption
<1> HIDE DEF N
<1> DEFINE P == {n \in 0 .. N : \A i \in 1 .. N, j \in 1 .. n : i < j => MoeLayers[i] < MoeLayers[j]}
<1>3. 0 \in P
  BY <1>1
<1>4. ASSUME NEW n \in 0 .. N - 1, n \in P PROVE n + 1 \in P
  <2>1. n + 1 \in 1 .. N /\ n + 1 \in 0 .. N
    BY <1>1
  <2>2. ASSUME NEW i \in 1 .. N, NEW j \in 1 .. n + 1, i < j PROVE MoeLayers[i] < MoeLayers[j]
    <3>1. CASE j # n + 1
      <4>1. j \in 1 .. n
        BY <2>1, <3>1
      <4>2. QED
        BY <1>4, <2>2, <4>1
    <3>2. CASE j = n + 1 /\ i = n
      <4>1. n \in 1 .. N - 1
        BY <2>1, <3>2
      <4>2. QED
        BY <1>2, <3>2, <4>1
    <3>3. CASE j = n + 1 /\ i # n
      <4>1. n \in 1 .. N - 1 /\ n \in 1 .. N /\ n \in 1 .. n /\ i < n
        BY <1>1, <2>1, <2>2, <3>3
      <4>2. MoeLayers[i] < MoeLayers[n] /\ MoeLayers[n] < MoeLayers[n + 1]
        BY <1>2, <1>4, <4>1
      <4>3. QED
        BY <1>1, <2>1, <3>3, <4>1, <4>2
    <3>4. QED
      BY <3>1, <3>2, <3>3
  <2>3. QED
    BY <2>1, <2>2
<1>5. N \in P
  <2> HIDE DEF P
  <2>1. QED
    BY ONLY <1>1, <1>3, <1>4, UpTo
<1>6. QED
  BY <1>5 DEF N

\* A record that the collector writes.
LEMMA RecordIs ==
  ASSUME NEW rec \in Records
  PROVE  /\ rec.l \in ToSet(MoeLayers) /\ rec.t \in Nat
         /\ rec = [l |-> rec.l, t |-> rec.t, e |-> rec.e]
         /\ rec.e \in [1 .. rec.t -> Choice]
         /\ \A row \in 1 .. rec.t : /\ rec.e[row] \in [1 .. TopK -> Experts]
                                    /\ IsInjective(rec.e[row])
<1>1. PICK t \in BatchSizes \cup {0, 1} : rec \in [l : ToSet(MoeLayers), t : {t}, e : RowsOf(t)]
  BY DEF Records
<1>2. t \in Nat
  BY ConstantsAre
<1>3. rec.l \in ToSet(MoeLayers) /\ rec.t = t /\ rec.e \in [1 .. t -> Choice] /\ rec = [l |-> rec.l, t |-> rec.t, e |-> rec.e]
  BY <1>1 DEF RowsOf
<1>4. \A ids \in Choice : ids \in [1 .. TopK -> Experts] /\ IsInjective(ids)
  BY DEF Choice
<1>5. \A row \in 1 .. t : rec.e[row] \in Choice
  BY <1>3
<1>6. QED
  BY <1>2, <1>3, <1>4, <1>5

\* The tokens of a step are the rows of one of its records, and none has more.
LEMMA NTokensIs ==
  ASSUME NEW step \in NonEmpty(Records)
  PROVE  /\ NTokens(step) \in Nat
         /\ \A j \in 1 .. Len(step) : step[j].t \in Nat /\ step[j].t <= NTokens(step)
         /\ \E j \in 1 .. Len(step) : step[j].t = NTokens(step)
<1> DEFINE N == Len(step)
           T == {rec.t : rec \in ToSet(step)}
           ts == [j \in 1 .. N |-> step[j].t]
<1>1. step \in Seq(Records) /\ N \in Nat /\ N >= 1 /\ \A j \in 1 .. N : step[j] \in Records
  BY EmptySeq DEF NonEmpty
<1>2. \A j \in 1 .. N : step[j].t \in Nat
  BY <1>1, RecordIs
<1>3. ts \in Seq(Nat) /\ Len(ts) = N /\ \A j \in 1 .. N : ts[j] = step[j].t
  BY <1>1, <1>2
<1> HIDE DEF ts
<1>4. PICK b \in Nat : \A j \in 1 .. N : step[j].t <= b
  <2>1. PICK b \in Nat : \A j \in 1 .. Len(ts) : ts[j] <= b
    BY <1>3, Bounded
  <2>2. QED
    BY <1>3, <2>1
<1>5. \A j \in 1 .. N : step[j] \in ToSet(step)
  BY <1>1, Elements
<1>6. \A rec \in ToSet(step) : \E j \in 1 .. N : step[j] = rec
  BY <1>1, Elements
<1>7. T \in SUBSET Nat
  BY <1>2, <1>6
<1>8. T # {}
  <2>1. 1 \in 1 .. N
    BY <1>1
  <2>2. QED
    BY <1>5, <2>1
<1>9. \A y \in T : y <= b
  BY <1>4, <1>6
<1>10. \A j \in 1 .. N : step[j].t \in T
  BY <1>5
<1>11. \A y \in T : \E j \in 1 .. N : step[j].t = y
  BY <1>6
<1>12. NTokens(step) = Max(T)
  BY DEF NTokens
<1> HIDE DEF T, N
<1>13. Max(T) \in T /\ \A y \in T : y <= Max(T)
  BY <1>7, <1>8, <1>9, MaxOfBounded
<1>14. QED
  BY <1>2, <1>7, <1>10, <1>11, <1>12, <1>13 DEF N

\* A record of no more rows does not change the tokens of a step.
LEMMA NTokensAppend ==
  ASSUME NEW step \in NonEmpty(Records), NEW rec \in Records, rec.t <= NTokens(step)
  PROVE  Append(step, rec) \in NonEmpty(Records) /\ NTokens(Append(step, rec)) = NTokens(step)
<1> DEFINE N == Len(step)
           more == Append(step, rec)
           T == {r.t : r \in ToSet(more)}
           m == NTokens(step)
<1>1. step \in Seq(Records) /\ N \in Nat
  BY DEF NonEmpty
<1>2. /\ more \in Seq(Records) /\ more # <<>> /\ Len(more) = N + 1 /\ more[N + 1] = rec
      /\ \A j \in 1 .. N : more[j] = step[j]
  BY <1>1, AppendProperties
<1> HIDE DEF more
<1>3. m \in Nat /\ rec.t \in Nat /\ rec.t <= m
  BY NTokensIs, RecordIs
<1>4. \A j \in 1 .. N : step[j].t \in Nat /\ step[j].t <= m
  BY NTokensIs
<1>5. \E j \in 1 .. N : step[j].t = m
  BY NTokensIs
<1> HIDE DEF m
<1>6. \A r \in ToSet(more) : \E j \in 1 .. N + 1 : more[j] = r
  BY <1>2, Elements
<1>7. \A j \in 1 .. N + 1 : more[j] \in ToSet(more)
  BY <1>2, Elements
<1>8. ASSUME NEW j \in 1 .. N + 1 PROVE more[j].t \in Nat /\ more[j].t <= m
  <2>1. CASE j = N + 1
    BY <1>2, <1>3, <2>1
  <2>2. CASE j # N + 1
    <3>1. j \in 1 .. N
      BY <1>1, <2>2
    <3>2. QED
      BY <1>2, <1>4, <3>1
  <2>3. QED
    BY <2>1, <2>2
<1>9. T \in SUBSET Int /\ \A y \in T : y <= m
  BY <1>6, <1>8
<1>10. m \in T
  <2>1. PICK j \in 1 .. N : step[j].t = m
    BY <1>5
  <2>2. j \in 1 .. N + 1 /\ more[j] = step[j]
    BY <1>1, <1>2, <2>1
  <2>3. QED
    BY <1>7, <2>1, <2>2
<1>11. NTokens(more) = Max(T)
  BY DEF NTokens
<1> HIDE DEF T
<1>12. Max(T) = m
  BY <1>9, <1>10, MaxIsIt
<1>13. QED
  BY <1>2, <1>11, <1>12 DEF more, m, NonEmpty

\* What a record says of a token are keys, as many as the model picks experts.
LEMMA KeysAre ==
  ASSUME NEW rec \in Records, NEW row \in Int, row <= rec.t
  PROVE  /\ Keys(rec, row) \in Seq(AllKeys)
         /\ row >= 1 => Keys(rec, row) = [k \in 1 .. TopK |-> <<rec.l, rec.e[row][k]>>]
<1>1. /\ rec.l \in ToSet(MoeLayers) /\ rec.t \in Nat
      /\ \A r \in 1 .. rec.t : rec.e[r] \in [1 .. TopK -> Experts]
  BY RecordIs
<1>2. TopK \in Nat
  BY ConstantsAre
<1>3. CASE row < 1
  <2>1. Keys(rec, row) = <<>>
    BY <1>3 DEF Keys
  <2>2. QED
    BY <1>3, <2>1
<1>4. CASE ~(row < 1)
  <2>1. row \in 1 .. rec.t
    BY <1>1, <1>4
  <2> DEFINE ids == rec.e[row]
  <2>2. ids \in [1 .. TopK -> Experts]
    BY <1>1, <2>1
  <2>3. DOMAIN ids = 1 .. TopK /\ \A k \in 1 .. TopK : ids[k] \in Experts
    BY <2>2
  <2>4. Keys(rec, row) = [k \in 1 .. TopK |-> <<rec.l, ids[k]>>]
    BY <1>4, <2>3 DEF Keys
  <2> HIDE DEF ids
  <2>5. \A k \in 1 .. TopK : <<rec.l, ids[k]>> \in AllKeys
    BY <1>1, <2>3 DEF AllKeys
  <2> HIDE DEF AllKeys
  <2>6. [k \in 1 .. TopK |-> <<rec.l, ids[k]>>] \in Seq(AllKeys)
    <3> HIDE DEF AllKeys
    <3>1. [k \in 1 .. TopK |-> <<rec.l, ids[k]>>] \in [1 .. TopK -> AllKeys]
      BY <2>5
    <3>2. QED
      BY <1>2, <3>1
  <2>7. QED
    BY <2>4, <2>6 DEF ids
<1>5. QED
  BY <1>3, <1>4

\* The keys that the records of a step have for one of its tokens, record by record.
Said(step, i) == [j \in 1 .. Len(step) |-> Keys(step[j], i - (NTokens(step) - step[j].t))]

\* A token of a step.
LEMMA TokenIs ==
  ASSUME NEW step \in NonEmpty(Records), NEW i \in 1 .. NTokens(step)
  PROVE  /\ Said(step, i) \in Seq(Seq(AllKeys))
         /\ Token(step, i) = FlattenSeq(Said(step, i))
         /\ Token(step, i) \in Seq(AllKeys)
<1> DEFINE N == Len(step)
           m == NTokens(step)
           S == Seq(AllKeys)
<1>1. step \in Seq(Records) /\ N \in Nat /\ DOMAIN step = 1 .. N /\ \A j \in 1 .. N : step[j] \in Records
  BY DEF NonEmpty
<1>2. m \in Nat /\ \A j \in 1 .. N : step[j].t \in Nat /\ step[j].t <= m
  BY NTokensIs
<1>3. i \in 1 .. m
  OBVIOUS
<1> HIDE DEF m
<1>4. ASSUME NEW j \in 1 .. N
      PROVE  Keys(step[j], i - (m - step[j].t)) \in S
  <2> DEFINE row == i - (m - step[j].t)
  <2>1. row \in Int /\ row <= step[j].t
    BY <1>2, <1>3
  <2> HIDE DEF row
  <2>2. Keys(step[j], row) \in S
    BY <1>1, <2>1, KeysAre
  <2>3. QED
    BY <2>2 DEF row
<1>5. Said(step, i) \in Seq(S)
  <2> HIDE DEF S
  <2>1. Said(step, i) \in [1 .. N -> S]
    BY <1>4 DEF Said, m
  <2>2. QED
    BY <1>1, <2>1
<1>6. Token(step, i) = FlattenSeq(Said(step, i))
  BY <1>1 DEF Token, Said, Row
<1>7. FlattenSeq(Said(step, i)) \in S
  BY <1>5, FlattenElements
<1>8. QED
  BY <1>5, <1>6, <1>7

\* The tokens of a step.
LEMMA TokensAre ==
  ASSUME NEW step \in NonEmpty(Records)
  PROVE  /\ Tokens(step) \in Seq(Seq(AllKeys))
         /\ Len(Tokens(step)) = NTokens(step)
         /\ \A i \in 1 .. NTokens(step) : Tokens(step)[i] = Token(step, i)
<1> DEFINE m == NTokens(step)
           S == Seq(AllKeys)
<1>1. m \in Nat
  BY NTokensIs
<1>2. \A i \in 1 .. m : Token(step, i) \in S
  BY TokenIs
<1>3. Tokens(step) = [i \in 1 .. m |-> Token(step, i)]
  BY DEF Tokens
<1> HIDE DEF m, S
<1>4. Tokens(step) \in [1 .. m -> S]
  BY <1>2, <1>3
<1>5. QED
  BY <1>1, <1>3, <1>4 DEF m, S

\* A record more: its rows are appended to the last tokens of the step.
LEMMA TokensAppend ==
  ASSUME NEW step \in NonEmpty(Records), NEW rec \in Records, rec.t <= NTokens(step)
  PROVE  Tokens(Append(step, rec)) =
           [i \in 1 .. NTokens(step) |-> Tokens(step)[i] \o Keys(rec, i - (NTokens(step) - rec.t))]
<1> DEFINE N == Len(step)
           m == NTokens(step)
           more == Append(step, rec)
           S == Seq(AllKeys)
<1>1. step \in Seq(Records) /\ N \in Nat
  BY DEF NonEmpty
<1>2. /\ more \in Seq(Records) /\ Len(more) = N + 1 /\ more[N + 1] = rec
      /\ \A j \in 1 .. N : more[j] = step[j]
  BY <1>1
<1>3. more \in NonEmpty(Records) /\ NTokens(more) = m
  BY NTokensAppend
<1>4. m \in Nat /\ rec.t \in Nat /\ rec.t <= m
  BY NTokensIs, RecordIs
<1> HIDE DEF more, m
<1>5. ASSUME NEW i \in 1 .. m
      PROVE  Token(more, i) = Token(step, i) \o Keys(rec, i - (m - rec.t))
  <2> DEFINE row == i - (m - rec.t)
             old == Said(step, i)
             new == Said(more, i)
  <2>1. /\ old \in Seq(S) /\ Token(step, i) = FlattenSeq(old)
        /\ new \in Seq(S) /\ Token(more, i) = FlattenSeq(new)
    BY <1>3, TokenIs DEF m
  <2>2. /\ Len(old) = N /\ Len(new) = N + 1
        /\ \A j \in 1 .. N : old[j] = Keys(step[j], i - (m - step[j].t))
        /\ \A j \in 1 .. N + 1 : new[j] = Keys(more[j], i - (m - more[j].t))
    BY <1>1, <1>2, <1>3 DEF Said, m
  <2>3. row \in Int /\ row <= rec.t
    BY <1>4
  <2>4. Keys(rec, row) \in S
    BY <2>3, KeysAre
  <2> HIDE DEF old, new, S
  <2>5. new = Append(old, Keys(rec, row))
    <3>1. Append(old, Keys(rec, row)) \in Seq(S) /\ Len(Append(old, Keys(rec, row))) = N + 1
      BY <1>1, <2>1, <2>2, <2>4
    <3>2. ASSUME NEW j \in 1 .. N + 1 PROVE new[j] = Append(old, Keys(rec, row))[j]
      <4>1. CASE j = N + 1
        <5>1. new[j] = Keys(rec, row)
          BY <1>2, <2>2, <4>1
        <5>2. QED
          BY <1>1, <2>1, <2>2, <2>4, <4>1, <5>1
      <4>2. CASE j # N + 1
        <5>1. j \in 1 .. N
          BY <1>1, <4>2
        <5>2. new[j] = old[j]
          BY <1>2, <2>2, <5>1
        <5>3. QED
          BY <1>1, <2>1, <2>2, <2>4, <5>1, <5>2
      <4>3. QED
        BY <4>1, <4>2
    <3>3. QED
      BY <2>1, <2>2, <3>1, <3>2, SeqEqual
  <2>6. FlattenSeq(Append(old, Keys(rec, row))) = FlattenSeq(old) \o Keys(rec, row)
    BY <2>1, <2>4, FlattenAppend DEF S
  <2>7. QED
    BY <2>1, <2>5, <2>6
<1>6. Tokens(more) = [i \in 1 .. m |-> Token(more, i)]
  BY <1>3 DEF Tokens
<1>7. \A i \in 1 .. m : Tokens(step)[i] = Token(step, i)
  BY TokensAre DEF m
<1>8. QED
  BY <1>5, <1>6, <1>7 DEF more, m

\* The tokens of a step of one record.
LEMMA TokensFirst ==
  ASSUME NEW rec \in Records
  PROVE  /\ <<rec>> \in NonEmpty(Records)
         /\ Tokens(<<rec>>) = [i \in 1 .. rec.t |-> Keys(rec, i)]
<1> DEFINE one == <<rec>>
           S == Seq(AllKeys)
<1>1. /\ one \in Seq(Records) /\ one # <<>> /\ Len(one) = 1 /\ one[1] = rec
      /\ one \in NonEmpty(Records)
  BY DEF NonEmpty
<1> HIDE DEF one
<1>2. rec.t \in Nat
  BY RecordIs
<1>3. PICK j \in 1 .. Len(one) : one[j].t = NTokens(one)
  BY <1>1, NTokensIs
<1>4. j = 1
  BY <1>1
<1>5. NTokens(one) = rec.t
  BY <1>1, <1>3, <1>4
<1>6. ASSUME NEW i \in 1 .. rec.t PROVE Token(one, i) = Keys(rec, i)
  <2>1. Said(one, i) \in Seq(S) /\ Token(one, i) = FlattenSeq(Said(one, i))
    BY <1>1, <1>5, TokenIs
  <2>2. i - (rec.t - rec.t) = i /\ i \in Int /\ i <= rec.t
    BY <1>2
  <2>3. Keys(rec, i) \in S
    BY <2>2, KeysAre
  <2>4. Said(one, i) = <<Keys(rec, i)>>
    <3> HIDE DEF S
    <3>1. Len(Said(one, i)) = 1 /\ Said(one, i)[1] = Keys(rec, i)
      BY <1>1, <1>5, <2>2 DEF Said
    <3>2. QED
      BY <2>1, <3>1
  <2>5. FlattenSeq(<<Keys(rec, i)>>) = Keys(rec, i)
    <3> HIDE DEF S
    <3>1. <<>> \in Seq(S) /\ Append(<<>>, Keys(rec, i)) = <<Keys(rec, i)>>
      OBVIOUS
    <3>2. FlattenSeq(<<>>) = <<>>
      BY DEF FlattenSeq
    <3>3. FlattenSeq(<<Keys(rec, i)>>) = FlattenSeq(<<>>) \o Keys(rec, i)
      BY <2>3, <3>1, FlattenAppend DEF S
    <3>4. <<>> \o Keys(rec, i) = Keys(rec, i)
      BY <2>3, ConcatEmptySeq DEF S
    <3>5. QED
      BY <3>2, <3>3, <3>4
  <2>6. QED
    BY <2>1, <2>4, <2>5
<1>7. QED
  BY <1>1, <1>5, <1>6 DEF Tokens, one

-----------------------------------------------------------------------------
(* The invariant.                                                          *)

\* A layer's experts of a token.
Block(l, ids) == [k \in 1 .. TopK |-> <<l, ids[k]>>]

\* A token without its experts, or with those of one layer more.
LEMMA BlocksGrow ==
  ASSUME NEW token, NEW n \in 0 .. Len(MoeLayers) - 1, Blocks(token, n),
         NEW ids \in [1 .. TopK -> Experts], IsInjective(ids)
  PROVE  Blocks(token \o Block(MoeLayers[n + 1], ids), n + 1)
<1> DEFINE N == Len(MoeLayers)
           K == TopK
           block == Block(MoeLayers[n + 1], ids)
           longer == token \o block
<1>1. /\ N \in Nat /\ K \in Nat /\ K > 0
      /\ \A i \in 1 .. N : MoeLayers[i] \in Nat /\ MoeLayers[i] \in ToSet(MoeLayers)
  BY ConstantsAre
<1>2. n + 1 \in 1 .. N /\ n \in Nat
  BY <1>1
<1>3. block \in Seq(AllKeys) /\ Len(block) = K /\ \A k \in 1 .. K : block[k] = <<MoeLayers[n + 1], ids[k]>>
  <2>1. \A k \in 1 .. K : <<MoeLayers[n + 1], ids[k]>> \in AllKeys
    BY <1>1, <1>2 DEF AllKeys
  <2>2. block \in [1 .. K -> AllKeys] /\ \A k \in 1 .. K : block[k] = <<MoeLayers[n + 1], ids[k]>>
    BY <2>1 DEF Block
  <2> HIDE DEF block
  <2>3. QED
    BY <1>1, <2>2
<1>4. /\ token \in Seq(AllKeys) /\ Len(token) = n * K
      /\ \A i \in 1 .. n : \A k \in 1 .. K :
           /\ token[(i - 1) * K + k][1] = MoeLayers[i]
           /\ \A j \in 1 .. K : token[(i - 1) * K + j] = token[(i - 1) * K + k] => j = k
  BY DEF Blocks
<1>5. DOMAIN ids = 1 .. K /\ \A a, b \in DOMAIN ids : ids[a] = ids[b] => a = b
  BY DEF IsInjective
<1> HIDE DEF K, N, block
<1>6. /\ longer \in Seq(AllKeys) /\ Len(longer) = n * K + K
      /\ \A p \in 1 .. n * K : longer[p] = token[p]
      /\ \A k \in 1 .. K : longer[n * K + k] = block[k]
  <2>1. token \in Seq(AllKeys) /\ block \in Seq(AllKeys)
    BY <1>3, <1>4
  <2>2. /\ longer \in Seq(AllKeys) /\ Len(longer) = Len(token) + Len(block)
        /\ \A p \in 1 .. Len(token) : longer[p] = token[p]
        /\ \A k \in 1 .. Len(block) : longer[Len(token) + k] = block[k]
    BY ONLY <2>1, ConcatIs
  <2>3. Len(token) = n * K /\ Len(block) = K
    BY <1>3, <1>4
  <2> HIDE DEF longer
  <2>4. QED
    BY ONLY <2>2, <2>3
<1> HIDE DEF longer
<1>7. n * K + K = (n + 1) * K
  BY <1>1, <1>2
<1>8. ASSUME NEW i \in 1 .. n + 1, NEW k \in 1 .. K
      PROVE  longer[(i - 1) * K + k] = IF i = n + 1 THEN block[k] ELSE token[(i - 1) * K + k]
  <2>1. CASE i = n + 1
    <3>1. i - 1 = n
      BY <1>2, <2>1
    <3>2. QED
      BY <1>6, <2>1, <3>1
  <2>2. CASE i # n + 1
    <3>1. i \in 1 .. n /\ i - 1 \in Nat /\ i - 1 <= n - 1 /\ n \in Nat
      BY <1>2, <2>2
    <3> DEFINE a == i - 1
               q == a * K + k
    <3>2. a \in Nat /\ a + 1 <= n
      BY <3>1
    <3> HIDE DEF a
    <3>3. q \in Nat /\ q >= 1 /\ q <= a * K + K
      BY <1>1, <3>2
    <3>4. a * K + K = (a + 1) * K
      BY <1>1, <3>2
    <3>5. (a + 1) * K <= n * K
      BY <1>1, <3>1, <3>2
    <3>6. n * K \in Nat /\ (a + 1) * K \in Nat
      BY <1>1, <3>1, <3>2
    <3>7. q \in 1 .. n * K
      <4> HIDE DEF q
      <4>1. QED
        BY <3>3, <3>4, <3>5, <3>6
    <3>8. longer[q] = token[q]
      BY <1>6, <3>7
    <3>9. QED
      BY <2>2, <3>8 DEF q, a
  <2>3. QED
    BY <2>1, <2>2
<1>9. ASSUME NEW i \in 1 .. n + 1, NEW k \in 1 .. K
      PROVE  /\ longer[(i - 1) * K + k][1] = MoeLayers[i]
             /\ \A j \in 1 .. K : longer[(i - 1) * K + j] = longer[(i - 1) * K + k] => j = k
  <2>1. CASE i = n + 1
    <3>1. \A j \in 1 .. K : longer[(i - 1) * K + j] = <<MoeLayers[i], ids[j]>>
      BY <1>3, <1>8, <2>1
    <3>2. longer[(i - 1) * K + k][1] = MoeLayers[i]
      BY <3>1
    <3>3. ASSUME NEW j \in 1 .. K, longer[(i - 1) * K + j] = longer[(i - 1) * K + k] PROVE j = k
      <4>1. <<MoeLayers[i], ids[j]>> = <<MoeLayers[i], ids[k]>>
        BY <3>1, <3>3
      <4>2. ids[j] = ids[k]
        BY <4>1
      <4>3. QED
        BY <1>5, <4>2
    <3>4. QED
      BY <3>2, <3>3
  <2>2. CASE i # n + 1
    <3>1. i \in 1 .. n
      BY <1>2, <2>2
    <3>2. \A j \in 1 .. K : longer[(i - 1) * K + j] = token[(i - 1) * K + j]
      BY <1>8, <2>2
    <3>3. QED
      BY <1>4, <3>1, <3>2
  <2>3. QED
    BY <2>1, <2>2
<1>10. longer \in Seq(AllKeys) /\ Len(longer) = (n + 1) * K
  BY <1>6, <1>7
<1>11. Blocks(longer, n + 1)
  BY <1>9, <1>10, Zenon DEF Blocks, K
<1>12. QED
  BY <1>11 DEF longer, block

\* A token without experts.
LEMMA NoBlocks == Blocks(<<>>, 0)
<1>1. TopK \in Nat /\ 0 * TopK = 0
  BY ConstantsAre
<1>2. <<>> \in Seq(AllKeys) /\ Len(<<>>) = 0
  OBVIOUS
<1>3. \A i \in 1 .. 0 : FALSE
  OBVIOUS
<1>4. QED
  BY <1>1, <1>2, <1>3 DEF Blocks

\* What is evaluated of a model: tokens, each with the experts of the first layers or of all.
Routed == {token \in Seq(AllKeys) : \E n \in 1 .. Len(MoeLayers) : Blocks(token, n)}

\* The tokens of each step.
Evaluated(steps) == [s \in DOMAIN steps |-> Tokens(steps[s])]

\* One step more.
LEMMA EvaluatedAppend ==
  ASSUME NEW steps, steps \in Seq(NonEmpty(Records)), NEW step \in NonEmpty(Records)
  PROVE  /\ Evaluated(steps) \in Seq(Seq(Seq(AllKeys)))
         /\ Evaluated(Append(steps, step)) = Append(Evaluated(steps), Tokens(step))
<1> DEFINE T == NonEmpty(Records)
           E == Seq(Seq(AllKeys))
           N == Len(steps)
           more == Append(steps, step)
           old == Evaluated(steps)
           new == Evaluated(more)
<1>1. \A x \in T : Tokens(x) \in E
  BY TokensAre
<1>2. step \in T /\ steps \in Seq(T)
  OBVIOUS
<1> HIDE DEF T, E
<1>3. N \in Nat /\ DOMAIN steps = 1 .. N /\ \A s \in 1 .. N : steps[s] \in T
  BY <1>2
<1>4. /\ DOMAIN more = 1 .. N + 1 /\ more[N + 1] = step
      /\ \A s \in 1 .. N : more[s] = steps[s]
      /\ \A s \in 1 .. N + 1 : more[s] \in T
  BY <1>2
<1> HIDE DEF more, N
<1>5. old = [s \in 1 .. N |-> Tokens(steps[s])] /\ new = [s \in 1 .. N + 1 |-> Tokens(more[s])]
  BY <1>3, <1>4, Zenon DEF Evaluated
<1> HIDE DEF old, new
<1>6. old \in Seq(E) /\ Len(old) = N
  <2>1. old \in [1 .. N -> E]
    BY <1>1, <1>3, <1>5
  <2>2. QED
    BY <1>3, <2>1
<1>7. new \in Seq(E) /\ Len(new) = N + 1
  <2>1. new \in [1 .. N + 1 -> E]
    BY <1>1, <1>4, <1>5
  <2>2. N + 1 \in Nat
    BY <1>3
  <2>3. QED
    BY <2>1, <2>2
<1>8. Append(old, Tokens(step)) \in Seq(E) /\ Len(Append(old, Tokens(step))) = N + 1
  BY <1>1, <1>2, <1>6
<1>9. ASSUME NEW s \in 1 .. N + 1 PROVE new[s] = Append(old, Tokens(step))[s]
  <2>1. CASE s = N + 1
    <3>1. new[s] = Tokens(step)
      BY <1>4, <1>5, <2>1
    <3>2. Append(old, Tokens(step))[N + 1] = Tokens(step)
      BY <1>6
    <3>3. QED
      BY <2>1, <3>1, <3>2
  <2>2. CASE s # N + 1
    <3>1. s \in 1 .. N
      BY <1>3, <2>2
    <3>2. new[s] = Tokens(steps[s]) /\ old[s] = Tokens(steps[s])
      BY <1>4, <1>5, <3>1
    <3>3. Append(old, Tokens(step))[s] = old[s]
      BY <1>6, <3>1
    <3>4. QED
      BY <3>2, <3>3
  <2>3. QED
    BY <2>1, <2>2
<1>10. new = Append(old, Tokens(step))
  BY <1>7, <1>8, <1>9, SeqEqual
<1>11. QED
  BY <1>6, <1>10 DEF new, old, more, E

\* The last element of a sequence is replaced.
LEMMA ReplaceLast ==
  ASSUME NEW S, NEW s, s \in Seq(S), NEW x \in S, NEW y \in S
  PROVE  LET t == Append(s, x) IN Last(t) = x /\ [t EXCEPT ![Len(t)] = y] = Append(s, y)
<1> DEFINE t == Append(s, x)
           u == [t EXCEPT ![Len(t)] = y]
           v == Append(s, y)
           N == Len(s)
<1>1. /\ N \in Nat /\ t \in Seq(S) /\ Len(t) = N + 1 /\ t[N + 1] = x
      /\ \A i \in 1 .. N : t[i] = s[i]
  OBVIOUS
<1>2. v \in Seq(S) /\ Len(v) = N + 1 /\ v[N + 1] = y /\ \A i \in 1 .. N : v[i] = s[i]
  OBVIOUS
<1> HIDE DEF t, v, N
<1>3. Len(t) \in 1 .. Len(t)
  BY <1>1
<1>4. u \in Seq(S) /\ Len(u) = Len(t) /\ \A j \in 1 .. Len(t) : u[j] = IF j = Len(t) THEN y ELSE t[j]
  BY <1>1, <1>3, ExceptSeq
<1> HIDE DEF u
<1>5. ASSUME NEW j \in 1 .. Len(u) PROVE u[j] = v[j]
  <2>1. j = N + 1 \/ j \in 1 .. N
    BY <1>1, <1>4
  <2>2. QED
    BY <1>1, <1>2, <1>4, <2>1
<1>6. u = v
  BY <1>1, <1>2, <1>4, <1>5, SeqEqual
<1>7. Last(t) = x
  BY <1>1 DEF Last
<1>8. QED
  BY <1>6, <1>7 DEF t, u, v

\* The evaluations of a state that has the invariant.
LEMMA EvaluationsAre ==
  ASSUME TraceInv
  PROVE  /\ raw \in Seq(Records)
         /\ layer \in 1 .. Len(MoeLayers)
         /\ parse_steps(raw) \in Seq(NonEmpty(Records))
         /\ evaluations = Evaluated(parse_steps(raw))
         /\ evaluations \in Seq(NonEmpty(Routed))
         /\ InProgress
<1> DEFINE steps == parse_steps(raw)
           E == NonEmpty(Routed)
<1>1. /\ raw \in Seq(Records)
      /\ layer \in 1 .. Len(MoeLayers)
      /\ evaluations = Evaluated(steps)
      /\ \A s \in DOMAIN evaluations : Len(evaluations[s]) > 0
      /\ \A s \in DOMAIN evaluations : \A i \in DOMAIN evaluations[s] :
           \E n \in 1 .. Len(MoeLayers) : Blocks(evaluations[s][i], n)
      /\ InProgress
  BY DEF TraceInv, Evaluated
<1>2. steps \in Seq(NonEmpty(Records))
  <2>1. CASE raw = <<>>
    <3>1. Parsed(raw) = NothingRead
      <4>1. PICK f : Reads(f, Records, raw)
        BY <1>1, ParsedIsRecursion
      <4>2. QED
        BY <2>1, <4>1 DEF Reads
    <3>2. steps = <<>>
      BY <3>1 DEF parse_steps, AllSteps, NothingRead
    <3>3. QED
      BY <3>2
  <2>2. CASE raw # <<>>
    <3>1. raw[1] \in Records
      BY <1>1, <2>2
    <3>2. QED
      BY <1>1, <3>1, ParseStep
  <2>3. QED
    BY <2>1, <2>2
<1> HIDE DEF steps
<1>3. DOMAIN evaluations = DOMAIN steps /\ \A s \in DOMAIN steps : evaluations[s] = Tokens(steps[s])
  BY <1>1 DEF Evaluated
<1>4. DOMAIN steps = 1 .. Len(steps) /\ Len(steps) \in Nat /\ \A s \in 1 .. Len(steps) : steps[s] \in NonEmpty(Records)
  BY <1>2, Elements
<1>5. ASSUME NEW s \in 1 .. Len(steps) PROVE evaluations[s] \in E
  <2> DEFINE ev == evaluations[s]
  <2>1. ev = Tokens(steps[s]) /\ steps[s] \in NonEmpty(Records)
    BY <1>3, <1>4
  <2>2. ev \in Seq(Seq(AllKeys))
    BY <2>1, TokensAre
  <2>3. Len(ev) > 0 /\ \A i \in DOMAIN ev : \E n \in 1 .. Len(MoeLayers) : Blocks(ev[i], n)
    BY <1>1, <1>3, <1>4
  <2> HIDE DEF ev
  <2>4. \A i \in 1 .. Len(ev) : ev[i] \in Routed
    BY <2>2, <2>3, Elements DEF Routed
  <2>5. ev \in Seq(Routed)
    BY <2>2, <2>4, Retyped
  <2>6. ev # <<>>
    BY <2>3
  <2>7. QED
    BY <2>5, <2>6 DEF NonEmpty, ev
<1>6. evaluations \in Seq(E)
  <2> HIDE DEF E
  <2> DEFINE n == Len(steps)
  <2>1. n \in Nat /\ evaluations = [s \in 1 .. n |-> Tokens(steps[s])]
    BY <1>1, <1>4 DEF Evaluated
  <2>2. \A s \in 1 .. n : Tokens(steps[s]) \in E
    BY <1>3, <1>4, <1>5
  <2> HIDE DEF n
  <2>3. evaluations \in [1 .. n -> E]
    BY <2>1, <2>2
  <2>4. QED
    BY <2>1, <2>3
<1>7. QED
  BY <1>1, <1>2, <1>6 DEF steps

\* Initially nothing has been evaluated, nor written.
LEMMA InitInv == Init => TraceInv
<1>1. SUFFICES ASSUME Init PROVE TraceInv
  OBVIOUS
<1>2. raw = <<>> /\ layer = 1 /\ evaluations = <<>>
  BY <1>1 DEF Init
<1>3. raw \in Seq(Records)
  BY <1>2
<1>4. layer \in 1 .. Len(MoeLayers)
  BY <1>2, ConstantsAre
<1>5. parse_steps(raw) = <<>>
  <2>1. PICK f : Reads(f, Records, raw)
    BY <1>3, ParsedIsRecursion
  <2>2. Parsed(raw) = NothingRead
    BY <1>2, <2>1 DEF Reads
  <2>3. QED
    BY <2>2 DEF parse_steps, AllSteps, NothingRead
<1>6. evaluations = [s \in DOMAIN parse_steps(raw) |-> Tokens(parse_steps(raw)[s])]
  <2>1. DOMAIN parse_steps(raw) = {}
    BY <1>5
  <2>2. evaluations = [s \in {} |-> Tokens(parse_steps(raw)[s])]
    BY <1>2
  <2>3. QED
    BY <2>1, <2>2
<1>7. DOMAIN evaluations = {}
  BY <1>2
<1>8. InProgress
  BY <1>2 DEF InProgress
<1>9. QED
  BY <1>3, <1>4, <1>6, <1>7, <1>8 DEF TraceInv

\* The invariant after a step, from what EvaluationsAre says of it.
LEMMA InvAgain ==
  ASSUME NEW steps, steps = parse_steps(raw)', raw' \in Seq(Records), layer' \in 1 .. Len(MoeLayers),
         evaluations' = Evaluated(steps), evaluations' \in Seq(NonEmpty(Routed)), InProgress'
  PROVE  TraceInv'
<1> DEFINE ev == evaluations'
<1>1. ev = Evaluated(parse_steps(raw'))
  OBVIOUS
<1>2. ASSUME NEW s \in DOMAIN ev
      PROVE  /\ Len(ev[s]) > 0
             /\ \A i \in DOMAIN ev[s] : \E n \in 1 .. Len(MoeLayers) : Blocks(ev[s][i], n)
  <2> DEFINE tokens == ev[s]
  <2>1. tokens \in NonEmpty(Routed)
    <3> HIDE DEF ev
    <3>1. ev \in Seq(NonEmpty(Routed))
      BY DEF ev
    <3>2. QED
      BY <1>2, <3>1
  <2> HIDE DEF ev, tokens
  <2>2. tokens \in Seq(Routed) /\ tokens # <<>>
    BY <2>1 DEF NonEmpty
  <2>3. Len(tokens) > 0 /\ DOMAIN tokens = 1 .. Len(tokens) /\ \A i \in 1 .. Len(tokens) : tokens[i] \in Routed
    BY <2>2, EmptySeq
  <2>4. QED
    BY <2>3 DEF Routed, tokens
<1> HIDE DEF ev
<1>3. QED
  BY <1>1, <1>2 DEF TraceInv, Evaluated, ev

\* What a callback writes, and of which batch.
Writes(rec, rows, t) ==
  /\ t \in RowCounts /\ rows \in RowsOf(t)
  /\ rec = [l |-> MoeLayers[layer], t |-> t, e |-> rows]
  /\ raw' = Append(raw, rec)
  /\ evaluations' =
       IF layer = 1
       THEN Append(evaluations, WithRecord([i \in 1 .. batch' |-> <<>>], rows, t))
       ELSE [evaluations EXCEPT ![Len(evaluations)] = WithRecord(Last(evaluations), rows, t)]

\* The record of a callback has a row for each token of the batch, unless the layer is the last.
LEMMA CallbackIs ==
  ASSUME TraceInv, Callback
  PROVE  /\ batch' \in BatchSizes
         /\ layer > 1 => batch' = batch
         /\ layer' = IF layer = Len(MoeLayers) THEN 1 ELSE layer + 1
         /\ \E rec \in Records : \E rows, t :
              /\ Writes(rec, rows, t)
              /\ t \in Nat /\ t <= batch' /\ (layer < Len(MoeLayers) => t = batch')
<1>1. layer \in 1 .. Len(MoeLayers) /\ InProgress
  BY EvaluationsAre
<1>2. batch' \in (IF layer = 1 THEN BatchSizes ELSE {batch})
  BY DEF Callback
<1>3. batch' \in BatchSizes /\ (layer > 1 => batch' = batch)
  <2>1. CASE layer = 1
    BY <1>2, <2>1
  <2>2. CASE layer # 1
    <3>1. layer > 1 /\ batch' = batch
      BY <1>1, <1>2, <2>2
    <3>2. QED
      BY <1>1, <3>1 DEF InProgress
  <2>3. QED
    BY <2>1, <2>2
<1>4. batch' \in Nat /\ batch' > 0
  BY <1>3, ConstantsAre
<1>5. PICK t \in RowCounts : \E rows \in RowsOf(t) :
        Writes([l |-> MoeLayers[layer], t |-> t, e |-> rows], rows, t)
  BY Zenon DEF Callback, Writes, RowsOf
<1>6. PICK rows \in RowsOf(t) : Writes([l |-> MoeLayers[layer], t |-> t, e |-> rows], rows, t)
  BY <1>5
<1>7. t \in (IF layer = Len(MoeLayers) /\ batch' > 1 THEN {0, 1} ELSE {batch'})
  BY <1>5 DEF RowCounts
<1>8. t \in Nat /\ t <= batch' /\ (layer < Len(MoeLayers) => t = batch') /\ t \in BatchSizes \cup {0, 1}
  BY <1>1, <1>3, <1>4, <1>7, ConstantsAre
<1> DEFINE rec == [l |-> MoeLayers[layer], t |-> t, e |-> rows]
<1>9. rec \in Records
  <2>1. MoeLayers[layer] \in ToSet(MoeLayers)
    BY <1>1, ConstantsAre
  <2>2. rec \in [l : ToSet(MoeLayers), t : {t}, e : RowsOf(t)]
    BY <1>6, <2>1
  <2>3. QED
    BY <1>8, <2>2 DEF Records
<1>10. layer' = IF layer = Len(MoeLayers) THEN 1 ELSE layer + 1
  BY DEF Callback
<1>11. Writes(rec, rows, t)
  BY <1>6
<1> HIDE DEF rec
<1>12. QED
  BY <1>3, <1>8, <1>9, <1>10, <1>11, Zenon

\* Tokens that get their rows of a record of t rows: it has those of the last ones.
Extended(tokens, rec, t, b) == [i \in 1 .. b |-> tokens[i] \o Keys(rec, i - (b - t))]

\* The model's tokens get what the record says of them.
LEMMA WithRecordIs ==
  ASSUME NEW rec \in Records, NEW rows, NEW t, NEW tokens,
         rec = [l |-> MoeLayers[layer], t |-> t, e |-> rows],
         batch' \in Nat, t \in Nat, t <= batch'
  PROVE  WithRecord(tokens, rows, t) = Extended(tokens, rec, t, batch')
<1>1. rec.l = MoeLayers[layer] /\ rec.t = t /\ rec.e = rows
  OBVIOUS
<1>2. ASSUME NEW i \in 1 .. batch', NEW row, row = i - (batch' - t)
      PROVE  (IF row < 1 THEN <<>> ELSE [k \in 1 .. TopK |-> <<MoeLayers[layer], rows[row][k]>>]) = Keys(rec, row)
  <2>1. row \in Int /\ row <= t
    <3> DEFINE b == batch'
    <3>1. b \in Nat /\ t \in Nat /\ t <= b /\ i \in 1 .. b /\ row = i - (b - t)
      BY <1>2
    <3> HIDE DEF b
    <3>2. QED
      BY ONLY <3>1
  <2>2. CASE row < 1
    BY <2>2 DEF Keys
  <2>3. CASE ~(row < 1)
    <3>1. row >= 1
      BY <2>1, <2>3
    <3>2. Keys(rec, row) = [k \in 1 .. TopK |-> <<rec.l, rec.e[row][k]>>]
      BY <1>1, <2>1, <3>1, KeysAre
    <3>3. QED
      BY <1>1, <2>3, <3>2
  <2>4. QED
    BY <2>2, <2>3
<1>3. \A i \in 1 .. batch' :
        (LET row == i - (batch' - t)
         IN  tokens[i] \o (IF row < 1 THEN <<>>
                           ELSE [k \in 1 .. TopK |-> <<MoeLayers[layer], rows[row][k]>>]))
        = tokens[i] \o Keys(rec, i - (batch' - t))
  <2>1. SUFFICES ASSUME NEW i \in 1 .. batch'
                 PROVE  (LET row == i - (batch' - t)
                         IN  tokens[i] \o (IF row < 1 THEN <<>>
                                           ELSE [k \in 1 .. TopK |-> <<MoeLayers[layer], rows[row][k]>>]))
                        = tokens[i] \o Keys(rec, i - (batch' - t))
    OBVIOUS
  <2> DEFINE row == i - (batch' - t)
  <2>2. (IF row < 1 THEN <<>> ELSE [k \in 1 .. TopK |-> <<MoeLayers[layer], rows[row][k]>>]) = Keys(rec, row)
    BY <1>2
  <2>3. QED
    BY <2>2, Zenon
<1>4. QED
  BY <1>3 DEF WithRecord, Extended

\* A row's keys are the experts of the next layer.
LEMMA KeysGrow ==
  ASSUME NEW rec \in Records, NEW row \in 1 .. rec.t, NEW token, NEW n \in 0 .. Len(MoeLayers) - 1,
         Blocks(token, n), rec.l = MoeLayers[n + 1]
  PROVE  Blocks(token \o Keys(rec, row), n + 1)
<1> DEFINE ids == rec.e[row]
<1>1. rec.t \in Nat /\ ids \in [1 .. TopK -> Experts] /\ IsInjective(ids)
  BY RecordIs
<1>2. row \in Int /\ row <= rec.t /\ row >= 1
  BY <1>1
<1>3. Keys(rec, row) = Block(MoeLayers[n + 1], ids)
  BY <1>2, KeysAre DEF Block
<1> HIDE DEF ids
<1>4. QED
  BY <1>1, <1>3, BlocksGrow

\* What is evaluated is routed.
LEMMA BlocksRouted ==
  ASSUME NEW token, NEW n \in 1 .. Len(MoeLayers), Blocks(token, n)
  PROVE  token \in Routed
  BY DEF Routed, Blocks

\* A callback for the first layer begins an evaluation, and a step of the file.
LEMMA EvaluationBegins == ASSUME TraceInv, Callback, layer = 1 PROVE TraceInv'
<1> DEFINE N == Len(MoeLayers)
           b == batch'
           steps == parse_steps(raw)
           E == NonEmpty(Routed)
<1>1. /\ raw \in Seq(Records) /\ steps \in Seq(NonEmpty(Records))
      /\ evaluations = Evaluated(steps) /\ evaluations \in Seq(E)
  BY EvaluationsAre
<1>2. N \in Nat /\ N > 1 /\ \A i \in 1 .. N : MoeLayers[i] \in Nat
  BY ConstantsAre
<1>3. b \in BatchSizes /\ layer' = 2
  BY <1>2, CallbackIs
<1>4. b \in Nat /\ b > 0
  BY <1>3, ConstantsAre
<1>5. PICK rec \in Records : \E rows, t :
        Writes(rec, rows, t) /\ t \in Nat /\ t <= batch' /\ (layer < Len(MoeLayers) => t = batch')
  BY CallbackIs
<1>6. PICK rows, t :
        Writes(rec, rows, t) /\ t \in Nat /\ t <= batch' /\ (layer < Len(MoeLayers) => t = batch')
  BY <1>5
<1>7. t = b /\ t \in Nat /\ b - t = 0
  <2>1. layer < Len(MoeLayers)
    BY <1>2
  <2>2. t = b
    BY <1>6, <2>1
  <2> HIDE DEF b
  <2>3. QED
    BY <1>4, <2>2
<1>8. /\ rec = [l |-> MoeLayers[layer], t |-> t, e |-> rows]
      /\ raw' = Append(raw, rec)
      /\ evaluations' = Append(evaluations, WithRecord([i \in 1 .. b |-> <<>>], rows, t))
  BY <1>6 DEF Writes
<1>9. rec.l = MoeLayers[1] /\ rec.t = b
  BY <1>7, <1>8
<1> DEFINE new == Tokens(<<rec>>)
           none == [i \in 1 .. b |-> <<>>]
<1>10. <<rec>> \in NonEmpty(Records) /\ new = [i \in 1 .. b |-> Keys(rec, i)]
  BY <1>9, TokensFirst
<1>11. \A i \in 1 .. b : i - (b - t) = i /\ Keys(rec, i) \in Seq(AllKeys)
  <2>1. SUFFICES ASSUME NEW i \in 1 .. b PROVE i - (b - t) = i /\ Keys(rec, i) \in Seq(AllKeys)
    OBVIOUS
  <2> HIDE DEF b
  <2>2. i \in Int /\ i <= b
    BY <1>4
  <2>3. i - (b - t) = i
    BY <1>4, <1>7, <2>2
  <2>4. Keys(rec, i) \in Seq(AllKeys)
    BY <1>9, <2>2, KeysAre
  <2>5. QED
    BY <2>3, <2>4
<1>12. WithRecord(none, rows, t) = new
  <2>1. batch' \in Nat /\ t \in Nat /\ t <= batch'
    BY <1>4, <1>6
  <2>2. WithRecord(none, rows, t) = Extended(none, rec, t, b)
    <3> HIDE DEF none
    <3>1. rec = [l |-> MoeLayers[layer], t |-> t, e |-> rows]
      BY <1>8
    <3>2. QED
      BY ONLY <2>1, <3>1, rec \in Records, WithRecordIs
  <2>3. ASSUME NEW i \in 1 .. b PROVE none[i] \o Keys(rec, i - (b - t)) = Keys(rec, i)
    <3>1. none[i] = <<>>
      OBVIOUS
    <3>2. <<>> \o Keys(rec, i) = Keys(rec, i)
      BY <1>11, ConcatEmptySeq
    <3>3. QED
      BY <1>11, <3>1, <3>2
  <2> HIDE DEF none, new
  <2>4. QED
    BY <1>10, <2>2, <2>3 DEF Extended
<1>13. parse_steps(raw') = Append(steps, <<rec>>)
  <2>1. raw = <<>> \/ Resets(Last(raw), rec)
    <3>1. SUFFICES ASSUME raw # <<>> PROVE Resets(Last(raw), rec)
      OBVIOUS
    <3>2. Last(raw) \in Records
      BY <1>1, <3>1, EmptySeq DEF Last
    <3>3. Last(raw).l \in ToSet(MoeLayers)
      BY <3>2, RecordIs
    <3>4. PICK i \in 1 .. N : MoeLayers[i] = Last(raw).l
      BY <3>3, ConstantsAre, Elements
    <3>5. MoeLayers[1] <= MoeLayers[i]
      <4>1. 1 \in 1 .. N
        BY <1>2
      <4>2. i = 1 \/ 1 < i
        BY <1>2
      <4>3. QED
        BY <1>2, <4>1, <4>2, LayersGoUp
    <3>6. QED
      BY <1>9, <3>4, <3>5 DEF Resets
  <2>2. QED
    BY <1>1, <1>8, <2>1, ParseStep
<1> HIDE DEF none
<1>14. ASSUME NEW i \in 1 .. b PROVE Blocks(new[i], 1)
  <2>1. i \in 1 .. rec.t /\ new[i] = Keys(rec, i)
    BY <1>9, <1>10
  <2>2. 0 \in 0 .. N - 1 /\ 0 + 1 = 1
    BY <1>2
  <2>3. Blocks(<<>> \o Keys(rec, i), 0 + 1)
    BY <1>9, <2>1, <2>2, NoBlocks, KeysGrow
  <2>4. <<>> \o Keys(rec, i) = Keys(rec, i)
    BY <1>11, ConcatEmptySeq
  <2>5. QED
    BY <2>1, <2>2, <2>3, <2>4
<1>15. new \in E /\ Len(new) = b
  <2>1. \A i \in 1 .. b : new[i] \in Routed
    <3>1. 1 \in 1 .. Len(MoeLayers)
      BY <1>2
    <3>2. QED
      BY <1>14, <3>1, BlocksRouted
  <2> HIDE DEF b
  <2>2. new \in [1 .. b -> Routed]
    BY <1>10, <2>1
  <2> HIDE DEF new
  <2>3. new \in Seq(Routed) /\ Len(new) = b
    BY <1>4, <2>2
  <2>4. new # <<>>
    BY <1>4, <2>3
  <2>5. QED
    BY <2>3, <2>4 DEF NonEmpty
<1>16. evaluations' = Append(evaluations, new) /\ evaluations' = Evaluated(Append(steps, <<rec>>))
  <2>1. evaluations' = Append(evaluations, new)
    BY <1>8, <1>12 DEF none
  <2>2. Evaluated(Append(steps, <<rec>>)) = Append(Evaluated(steps), new)
    BY <1>1, <1>10, EvaluatedAppend
  <2>3. QED
    BY <1>1, <2>1, <2>2
<1> HIDE DEF new, E, steps
<1>17. evaluations' \in Seq(E)
  <2>1. Append(evaluations, new) \in Seq(E)
    BY <1>1, <1>15, AppendProperties
  <2>2. QED
    BY <1>16, <2>1
<1>18. raw' \in Seq(Records) /\ raw' # <<>> /\ Last(raw') = rec
  <2>1. Append(raw, rec) \in Seq(Records) /\ Append(raw, rec) # <<>>
    BY <1>1, AppendProperties
  <2>2. Last(Append(raw, rec)) = rec
    BY <1>1 DEF Last
  <2>3. QED
    BY <1>8, <2>1, <2>2
<1>19. evaluations' # <<>> /\ Last(evaluations') = new
  <2>1. Append(evaluations, new) # <<>>
    BY <1>1, <1>15, AppendProperties
  <2>2. Last(Append(evaluations, new)) = new
    BY <1>1, <1>15 DEF Last
  <2>3. QED
    BY <1>16, <2>1, <2>2
<1>20. InProgress'
  <2>1. layer' - 1 = 1
    BY <1>3
  <2>2. QED
    BY <1>3, <1>9, <1>14, <1>15, <1>18, <1>19, <2>1 DEF InProgress
<1>21. layer' \in 1 .. Len(MoeLayers)
  BY <1>2, <1>3
<1>22. QED
  BY <1>13, <1>16, <1>17, <1>18, <1>20, <1>21, InvAgain DEF E

\* A callback for another layer goes on with the last evaluation, and the last step.
LEMMA EvaluationGoesOn == ASSUME TraceInv, Callback, layer > 1 PROVE TraceInv'
<1> DEFINE N == Len(MoeLayers)
           b == batch
           E == NonEmpty(Routed)
           R == NonEmpty(Records)
<1>1. /\ raw \in Seq(Records) /\ layer \in 1 .. N
      /\ evaluations = Evaluated(parse_steps(raw)) /\ evaluations \in Seq(E) /\ InProgress
  BY EvaluationsAre
<1>2. N \in Nat /\ N > 1 /\ \A i \in 1 .. N : MoeLayers[i] \in Nat
  BY ConstantsAre
<1>3. batch' = b /\ b \in BatchSizes /\ layer' = IF layer = N THEN 1 ELSE layer + 1
  BY CallbackIs
<1>4. b \in Nat /\ b > 0
  BY <1>3, ConstantsAre
<1>5. /\ raw # <<>> /\ Last(raw).l = MoeLayers[layer - 1]
      /\ evaluations # <<>> /\ Len(Last(evaluations)) = b
      /\ \A i \in 1 .. b : Blocks(Last(evaluations)[i], layer - 1)
  BY <1>1 DEF InProgress
<1>6. layer \in Nat /\ layer - 1 \in 1 .. N /\ layer - 1 \in 0 .. N - 1 /\ (layer - 1) + 1 = layer
  BY <1>1, <1>2
<1>7. PICK rec \in Records : \E rows, t :
        Writes(rec, rows, t) /\ t \in Nat /\ t <= batch' /\ (layer < Len(MoeLayers) => t = batch')
  BY CallbackIs
<1>8. PICK rows, t :
        Writes(rec, rows, t) /\ t \in Nat /\ t <= batch' /\ (layer < Len(MoeLayers) => t = batch')
  BY <1>7
<1>9. t \in Nat /\ t <= b /\ (layer < N => t = b)
  BY <1>3, <1>8
<1>10. layer # 1
  BY <1>6
<1>11. /\ rec = [l |-> MoeLayers[layer], t |-> t, e |-> rows]
       /\ raw' = Append(raw, rec)
       /\ evaluations' = [evaluations EXCEPT ![Len(evaluations)] = WithRecord(Last(evaluations), rows, t)]
  BY <1>8, <1>10 DEF Writes
<1>12. rec.l = MoeLayers[layer] /\ rec.t = t
  BY <1>11
<1>13. ~Resets(Last(raw), rec)
  <2>1. MoeLayers[layer - 1] < MoeLayers[layer]
    BY <1>1, <1>6, LayersGoUp
  <2>2. MoeLayers[layer - 1] \in Nat /\ MoeLayers[layer] \in Nat
    BY <1>1, <1>2, <1>6
  <2>3. QED
    BY <1>5, <1>12, <2>1, <2>2 DEF Resets
<1>14. PICK begun \in Seq(R), step \in R :
         /\ parse_steps(raw) = Append(begun, step)
         /\ parse_steps(raw') = Append(begun, Append(step, rec))
  <2>1. GoesOn(Records, raw, rec)
    BY <1>1, <1>5, <1>13, ParseStep
  <2>2. QED
    BY <1>11, <2>1 DEF GoesOn
<1> DEFINE past == Evaluated(begun)
           old == Tokens(step)
           new == Tokens(Append(step, rec))
           EE == Seq(Seq(AllKeys))
<1>15. past \in Seq(EE) /\ evaluations = Append(past, old) /\ old \in EE
  <2>1. past \in Seq(EE) /\ Evaluated(Append(begun, step)) = Append(past, old)
    BY EvaluatedAppend
  <2>2. QED
    BY <1>1, <1>14, <2>1, TokensAre
<1>16. Last(evaluations) = old
  <2> HIDE DEF past, old, EE
  <2>1. Last(Append(past, old)) = old
    BY <1>15, ReplaceLast
  <2>2. QED
    BY <1>15, <2>1
<1>17. NTokens(step) = b
  BY <1>5, <1>16, TokensAre
<1>18. /\ Append(step, rec) \in R
       /\ new = [i \in 1 .. b |-> old[i] \o Keys(rec, i - (b - t))]
  <2>1. rec.t <= NTokens(step)
    BY <1>9, <1>12, <1>17
  <2>2. new = [i \in 1 .. NTokens(step) |-> old[i] \o Keys(rec, i - (NTokens(step) - rec.t))]
    BY <2>1, TokensAppend
  <2>3. Append(step, rec) \in R
    BY <2>1, NTokensAppend
  <2> HIDE DEF new, old
  <2>4. QED
    BY <1>12, <1>17, <2>2, <2>3
<1>19. new \in EE /\ Len(new) = b
  <2>1. rec.t <= NTokens(step)
    BY <1>9, <1>12, <1>17
  <2>2. NTokens(Append(step, rec)) = b
    BY <1>17, <2>1, NTokensAppend
  <2>3. QED
    BY <1>18, <2>2, TokensAre
<1>20. WithRecord(old, rows, t) = new
  <2> HIDE DEF new, old
  <2>1. batch' \in Nat /\ t \in Nat /\ t <= batch'
    BY <1>3, <1>4, <1>9
  <2>2. rec = [l |-> MoeLayers[layer], t |-> t, e |-> rows]
    BY <1>11
  <2>3. WithRecord(old, rows, t) = Extended(old, rec, t, batch')
    BY ONLY <2>1, <2>2, rec \in Records, WithRecordIs
  <2>4. QED
    BY <1>3, <1>18, <2>3 DEF Extended
<1>21. evaluations' = Append(past, new) /\ evaluations' = Evaluated(Append(begun, Append(step, rec)))
  <2>1. Evaluated(Append(begun, Append(step, rec))) = Append(past, new)
    BY <1>18, EvaluatedAppend
  <2>2. evaluations' = Append(past, new)
    <3> HIDE DEF past, new, old, EE
    <3>1. [Append(past, old) EXCEPT ![Len(Append(past, old))] = new] = Append(past, new)
      BY <1>15, <1>19, ReplaceLast
    <3>2. QED
      BY <1>11, <1>15, <1>16, <1>20, <3>1
  <2>3. QED
    BY <2>1, <2>2
<1> HIDE DEF past, new, old, EE
<1>22. ASSUME NEW i \in 1 .. b
       PROVE  /\ new[i] \in Routed
              /\ layer < N => Blocks(new[i], layer)
  <2> DEFINE row == i - (b - t)
  <2>1. row \in Int /\ row <= t /\ (layer < N => row >= 1)
    BY <1>4, <1>9
  <2> HIDE DEF row
  <2>2. new[i] = old[i] \o Keys(rec, row) /\ Blocks(old[i], layer - 1)
    BY <1>5, <1>16, <1>18 DEF row
  <2>3. CASE row >= 1
    <3>1. row \in 1 .. rec.t
      BY <1>9, <1>12, <2>1, <2>3
    <3>2. Blocks(old[i] \o Keys(rec, row), layer)
      BY <1>6, <1>12, <2>2, <3>1, KeysGrow
    <3>3. QED
      BY <1>1, <2>2, <3>2, BlocksRouted
  <2>4. CASE ~(row >= 1)
    <3>1. Keys(rec, row) = <<>>
      BY <2>1, <2>4 DEF Keys
    <3>2. old[i] \in Seq(AllKeys)
      BY <2>2 DEF Blocks
    <3>3. old[i] \o <<>> = old[i]
      BY <3>2, ConcatEmptySeq
    <3>4. new[i] = old[i]
      BY <2>2, <3>1, <3>3
    <3>5. QED
      BY <1>6, <2>1, <2>2, <2>4, <3>4, BlocksRouted
  <2>5. QED
    BY <2>3, <2>4
<1>23. new \in E
  <2>1. new \in Seq(Seq(AllKeys)) /\ Len(new) = b
    BY <1>19 DEF EE
  <2>2. new \in Seq(Routed)
    BY <1>22, <2>1, Retyped
  <2>3. new # <<>>
    BY <1>4, <2>1
  <2>4. QED
    BY <2>2, <2>3 DEF NonEmpty
<1> HIDE DEF E
<1>24. past \in Seq(E)
  <2>1. Len(past) \in Nat /\ Len(evaluations) = Len(past) + 1
    BY <1>15
  <2>2. ASSUME NEW s \in 1 .. Len(past) PROVE past[s] \in E
    <3>1. evaluations[s] = past[s] /\ s \in 1 .. Len(evaluations)
      BY <1>15, <2>1
    <3>2. QED
      BY <1>1, <3>1
  <2>3. QED
    BY <1>15, <2>2, Retyped
<1>25. evaluations' \in Seq(E) /\ evaluations' # <<>> /\ Last(evaluations') = new
  <2>1. Append(past, new) \in Seq(E) /\ Append(past, new) # <<>>
    BY <1>23, <1>24, AppendProperties
  <2>2. Last(Append(past, new)) = new
    BY <1>23, <1>24, ReplaceLast
  <2>3. QED
    BY <1>21, <2>1, <2>2
<1>26. raw' \in Seq(Records) /\ raw' # <<>> /\ Last(raw') = rec
  <2>1. Append(raw, rec) \in Seq(Records) /\ Append(raw, rec) # <<>>
    BY <1>1, AppendProperties
  <2>2. Last(Append(raw, rec)) = rec
    BY <1>1, ReplaceLast
  <2>3. QED
    BY <1>11, <2>1, <2>2
<1>27. InProgress'
  <2>1. CASE layer = N
    <3>1. layer' = 1
      BY <1>3, <2>1
    <3>2. ~(layer' > 1)
      BY <3>1
    <3>3. QED
      BY <3>2 DEF InProgress
  <2>2. CASE layer # N
    <3>1. layer < N /\ layer' = layer + 1 /\ layer' - 1 = layer
      BY <1>1, <1>2, <1>3, <2>2
    <3>2. \A i \in 1 .. b : Blocks(new[i], layer)
      BY <1>22, <3>1
    <3>3. QED
      BY <1>3, <1>12, <1>19, <1>25, <1>26, <3>1, <3>2 DEF InProgress
  <2>3. QED
    BY <2>1, <2>2
<1>28. layer' \in 1 .. N
  BY <1>1, <1>2, <1>3
<1>29. QED
  BY <1>14, <1>21, <1>25, <1>26, <1>27, <1>28, InvAgain DEF E

\* A run that is cut changes neither the file nor what was evaluated.
LEMMA CutKeeps == ASSUME TraceInv, Cut PROVE TraceInv'
<1>1. layer' = 1 /\ UNCHANGED <<raw, batch, evaluations>>
  BY DEF Cut
<1>2. raw' = raw /\ evaluations' = evaluations
  BY <1>1
<1>3. InProgress'
  BY <1>1 DEF InProgress
<1>4. layer' \in 1 .. Len(MoeLayers)
  BY <1>1, ConstantsAre
<1>5. parse_steps(raw)' = parse_steps(raw)
  BY <1>2
<1>6. /\ raw \in Seq(Records) /\ evaluations = Evaluated(parse_steps(raw))
      /\ evaluations \in Seq(NonEmpty(Routed))
  BY EvaluationsAre
<1>7. QED
  BY <1>2, <1>3, <1>4, <1>5, <1>6, InvAgain

\* Every step keeps the invariant.
LEMMA NextInv == TraceInv /\ [Next]_vars => TraceInv'
<1>1. SUFFICES ASSUME TraceInv, [Next]_vars PROVE TraceInv'
  OBVIOUS
<1>2. CASE Callback
  <2>1. layer = 1 \/ layer > 1
    BY <1>1, EvaluationsAre, ConstantsAre
  <2>2. QED
    BY <1>1, <1>2, <2>1, EvaluationBegins, EvaluationGoesOn
<1>3. CASE Cut
  BY <1>1, <1>3, CutKeeps
<1>4. CASE UNCHANGED vars
  BY <1>1, <1>4 DEF vars, TraceInv, InProgress
<1>5. QED
  BY <1>1, <1>2, <1>3, <1>4 DEF Next

\* The file's steps are the evaluations, wherever the runs were cut (sim/trace_post.py,
\* tools/collect_qwen_traces.sh).
THEOREM StepsCorrect == Spec => []TraceInv
  BY InitInv, NextInv, PTL DEF Spec

\* The tokens of the steps that are kept are the evaluations that are kept.
LEMMA KeptAreEvaluated ==
  ASSUME NEW steps, steps \in Seq(NonEmpty(Records)), NEW K, NEW M,
         \A s \in 1 .. Len(steps) : steps[s] \in K <=> Tokens(steps[s]) \in M
  PROVE  Keep(Evaluated(steps), M) = Evaluated(Keep(steps, K))
<1> DEFINE S == NonEmpty(Records)
           T == Seq(Seq(AllKeys))
           g == [step \in S |-> Tokens(step)]
           kept == Keep(steps, K)
<1>1. \A step \in S : Tokens(step) \in T
  BY TokensAre
<1>2. steps \in Seq(S)
  OBVIOUS
<1> HIDE DEF S, T
<1>3. g \in [S -> T] /\ \A step \in S : g[step] = Tokens(step)
  BY <1>1
<1> HIDE DEF g
<1>4. kept \in Seq(S)
  BY <1>2, KeepIs
<1> HIDE DEF kept
<1>5. \A s \in 1 .. Len(steps) : steps[s] \in S
  BY <1>2
<1>6. \A s \in 1 .. Len(kept) : kept[s] \in S
  BY <1>4
<1>7. Evaluated(steps) = Mapped(g, steps)
  BY <1>2, <1>3, <1>5 DEF Evaluated, Mapped
<1>8. Evaluated(kept) = Mapped(g, kept)
  BY <1>3, <1>4, <1>6 DEF Evaluated, Mapped
<1>9. Agree(g, S, T, steps, K, M)
  BY <1>3, <1>5 DEF Agree
<1>10. Keep(Mapped(g, steps), M) = Mapped(g, kept)
  <2>1. Keep(Mapped(g, steps), M) = Mapped(g, Keep(steps, K))
    BY ONLY <1>2, <1>9, KeepImage
  <2>2. QED
    BY <2>1 DEF kept
<1>11. QED
  BY <1>7, <1>8, <1>10 DEF kept

\* All steps, and those of one token.
LEMMA RoutedTokens ==
  ASSUME TraceInv
  PROVE  /\ Trace = FlattenSeq(evaluations)
         /\ DecodeTrace = FlattenSeq(Keep(evaluations, {tokens \in ToSet(evaluations) : Len(tokens) = 1}))
<1> DEFINE steps == parse_steps(raw)
           N == Len(steps)
           Kept(decode_only) == {step \in ToSet(steps) : ~(decode_only /\ NTokens(step) > 1)}
           M == {tokens \in ToSet(evaluations) : Len(tokens) = 1}
<1>1. steps \in Seq(NonEmpty(Records)) /\ evaluations = Evaluated(steps) /\ evaluations \in Seq(NonEmpty(Routed))
  BY EvaluationsAre
<1> HIDE DEF steps
<1>2. DOMAIN steps = 1 .. N /\ N \in Nat /\ \A s \in 1 .. N : steps[s] \in NonEmpty(Records) /\ steps[s] \in ToSet(steps)
  BY <1>1, Elements
<1>3. DOMAIN evaluations = 1 .. N /\ \A s \in 1 .. N : evaluations[s] = Tokens(steps[s])
  BY <1>1, <1>2 DEF Evaluated
<1>4. \A decode_only \in BOOLEAN :
        steps_to_tokens(steps, decode_only) = FlattenSeq(Evaluated(Keep(steps, Kept(decode_only))))
  BY Zenon DEF steps_to_tokens, Evaluated
<1>5. Keep(steps, Kept(FALSE)) = steps
  <2>1. \A s \in 1 .. N : steps[s] \in Kept(FALSE)
    BY <1>2
  <2> HIDE DEF Kept
  <2>2. QED
    BY <1>1, <2>1, KeepAll
<1>6. Keep(evaluations, M) = Evaluated(Keep(steps, Kept(TRUE)))
  <2>1. ASSUME NEW s \in 1 .. N PROVE steps[s] \in Kept(TRUE) <=> Tokens(steps[s]) \in M
    <3> DEFINE step == steps[s]
               tokens == Tokens(step)
    <3>1. step \in NonEmpty(Records) /\ step \in ToSet(steps) /\ tokens = evaluations[s]
      BY <1>2, <1>3
    <3>2. tokens \in ToSet(evaluations) /\ tokens \in NonEmpty(Routed)
      <4> HIDE DEF tokens, step
      <4>1. Len(evaluations) = N
        BY <1>1, <1>2, <1>3
      <4>2. QED
        BY <1>1, <3>1, <4>1, Elements
    <3>3. Len(tokens) = NTokens(step) /\ NTokens(step) \in Nat
      BY <3>1, TokensAre, NTokensIs
    <3> HIDE DEF tokens, step, Kept
    <3>4. Len(tokens) > 0
      BY <3>2, EmptySeq DEF NonEmpty
    <3>5. step \in Kept(TRUE) <=> ~(NTokens(step) > 1)
      BY <3>1 DEF Kept
    <3>6. tokens \in M <=> Len(tokens) = 1
      BY <3>2
    <3> HIDE DEF M
    <3>7. NTokens(step) > 1 <=> ~(Len(tokens) = 1)
      BY <3>3, <3>4
    <3>8. step \in Kept(TRUE) <=> tokens \in M
      BY <3>5, <3>6, <3>7, Zenon
    <3>9. QED
      BY <3>8 DEF tokens, step
  <2> HIDE DEF Kept, M
  <2>2. Keep(Evaluated(steps), M) = Evaluated(Keep(steps, Kept(TRUE)))
    BY <1>1, <2>1, KeptAreEvaluated
  <2>3. QED
    BY <1>1, <2>2
<1>7. Trace = FlattenSeq(evaluations)
  <2> HIDE DEF Kept
  <2>1. Trace = FlattenSeq(Evaluated(Keep(steps, Kept(FALSE))))
    BY <1>4 DEF Trace, steps
  <2>2. QED
    BY <1>1, <1>5, <2>1
<1>8. DecodeTrace = FlattenSeq(Keep(evaluations, M))
  <2> HIDE DEF Kept, M
  <2>1. DecodeTrace = FlattenSeq(Evaluated(Keep(steps, Kept(TRUE))))
    BY <1>4 DEF DecodeTrace, steps
  <2>2. QED
    BY <1>6, <2>1
<1>9. QED
  BY <1>7, <1>8

\* What the simulators get: tokens that were routed.
LEMMA TracesRouted ==
  ASSUME TraceInv
  PROVE  Trace \in Seq(Routed) /\ DecodeTrace \in Seq(Routed)
<1> DEFINE M == {tokens \in ToSet(evaluations) : Len(tokens) = 1}
<1>1. evaluations \in Seq(NonEmpty(Routed))
  BY EvaluationsAre
<1>2. evaluations \in Seq(Seq(Routed))
  <2>1. \A s \in 1 .. Len(evaluations) : evaluations[s] \in Seq(Routed)
    BY <1>1, Elements DEF NonEmpty
  <2>2. QED
    BY <1>1, <2>1, Retyped
<1> HIDE DEF M
<1>3. Keep(evaluations, M) \in Seq(Seq(Routed))
  BY <1>2, KeepIs
<1>4. QED
  BY <1>2, <1>3, RoutedTokens, FlattenElements DEF M

\* The post-processed trace is what the model has routed, and the decode trace leaves out
\* whole evaluations only (sim/trace_post.py).
THEOREM TraceCorrect == Spec => []TraceIsWhatWasRouted
<1>1. TraceInv => TraceIsWhatWasRouted
  BY RoutedTokens DEF TraceIsWhatWasRouted
<1>2. QED
  BY <1>1, StepsCorrect, PTL

-----------------------------------------------------------------------------
(* The two LRU loops (sim/cache_sim.py, tools/analyze_lookahead.py).       *)

SimStates(K) == [lru : Seq(K), accesses : Nat, hits : Nat]

NoneSeen == [lru |-> <<>>, accesses |-> 0, hits |-> 0]

\* References before this one are not counted.
WarmupOf(trace, w) == Len(FlattenSeq(SubSeq(trace, 1, Min({w, Len(trace)}))))

\* A key goes to the end, and the oldest one away.
LEMMA ListsTyped ==
  ASSUME NEW K, NEW lru, lru \in Seq(K), NEW key \in K, NEW c \in Nat
  PROVE  MoveToEnd(lru, key) \in Seq(K) /\ PopOldest(Append(lru, key), c) \in Seq(K)
<1> DEFINE kept == Keep(lru, ToSet(lru) \ {key})
           more == Append(lru, key)
<1>1. kept \in Seq(K)
  BY KeepIs
<1>2. MoveToEnd(lru, key) = Append(kept, key)
  BY DEF MoveToEnd
<1>3. more \in Seq(K) /\ more # <<>>
  BY AppendProperties
<1> HIDE DEF kept, more
<1>4. Tail(more) \in Seq(K)
  BY <1>3, HeadTailProperties
<1>5. PopOldest(more, c) \in Seq(K)
  BY <1>3, <1>4 DEF PopOldest
<1>6. QED
  BY <1>1, <1>2, <1>5 DEF more

\* One reference.
LEMMA AccessTyped ==
  ASSUME NEW K, NEW sim \in SimStates(K), NEW key \in K, NEW c \in Nat, NEW pinned, NEW counting
  PROVE  Access(sim, key, c, pinned, counting) \in SimStates(K)
<1> DEFINE lru == sim.lru
           hit == key \in pinned \/ key \in ToSet(lru)
           next == IF key \in pinned THEN lru
                   ELSE IF hit THEN MoveToEnd(lru, key)
                   ELSE IF c > 0 THEN PopOldest(Append(lru, key), c)
                   ELSE lru
           accesses == sim.accesses + (IF counting THEN 1 ELSE 0)
           hits == sim.hits + (IF counting /\ hit THEN 1 ELSE 0)
<1>1. lru \in Seq(K) /\ sim.accesses \in Nat /\ sim.hits \in Nat
  BY DEF SimStates
<1>2. next \in Seq(K)
  BY <1>1, ListsTyped
<1>3. accesses \in Nat /\ hits \in Nat
  BY <1>1
<1>4. Access(sim, key, c, pinned, counting) = [accesses |-> accesses, hits |-> hits, lru |-> next]
  BY DEF Access
<1> HIDE DEF next, accesses, hits
<1>5. QED
  BY <1>2, <1>3, <1>4 DEF SimStates

\* What the pinned keys leave is a number, and all if there are none.
LEMMA CapacityIs ==
  ASSUME NEW capacity \in Nat, NEW pinned, IsFiniteSet(pinned)
  PROVE  /\ LruCapacity(capacity, pinned) \in Nat
         /\ LruCapacity(capacity, pinned) >= capacity - Cardinality(pinned)
         /\ Cardinality(pinned) \in Nat
         /\ Cardinality(pinned) <= capacity => LruCapacity(capacity, pinned) = capacity - Cardinality(pinned)
<1> DEFINE d == capacity - Cardinality(pinned)
           T == {d, 0}
<1>1. Cardinality(pinned) \in Nat /\ d \in Int
  BY FS_CardinalityType
<1>2. LruCapacity(capacity, pinned) = Max(T)
  BY DEF LruCapacity, Positive
<1>3. CASE d >= 0
  <2>1. d \in T /\ T \in SUBSET Int /\ \A y \in T : y <= d
    BY <1>1, <1>3
  <2> HIDE DEF T, d
  <2>2. Max(T) = d
    BY <2>1, MaxIsIt
  <2>3. QED
    BY <1>1, <1>2, <1>3, <2>2 DEF d
<1>4. CASE ~(d >= 0)
  <2>1. 0 \in T /\ T \in SUBSET Int /\ \A y \in T : y <= 0
    BY <1>1, <1>4
  <2> HIDE DEF T
  <2>2. Max(T) = 0
    BY <2>1, MaxIsIt
  <2>3. QED
    BY <1>1, <1>2, <1>4, <2>2
<1>5. QED
  BY <1>3, <1>4

\* A trace is simulated reference by reference.
Sims(f, K, trace, capacity, pinned, w) ==
  /\ f \in [0 .. Len(FlattenSeq(trace)) -> SimStates(K)]
  /\ f[0] = NoneSeen
  /\ \A n \in 1 .. Len(FlattenSeq(trace)) :
       f[n] = Access(f[n - 1], FlattenSeq(trace)[n], LruCapacity(capacity, pinned), pinned,
                     n > WarmupOf(trace, w))
  /\ simulate_lru(trace, capacity, pinned, w) = f[Len(FlattenSeq(trace))]

\* The loop of simulate_lru does what its equation says.
LEMMA SimIsRecursion ==
  ASSUME NEW K, NEW trace, trace \in Seq(Seq(K)), NEW capacity \in Nat, NEW pinned, IsFiniteSet(pinned), NEW w
  PROVE  \E f : Sims(f, K, trace, capacity, pinned, w)
<1> DEFINE keys == FlattenSeq(trace)
           N == Len(keys)
           c == LruCapacity(capacity, pinned)
           wu == WarmupOf(trace, w)
           T == SimStates(K)
           E == NoneSeen
           step == [i \in 1 .. N |-> [v \in T |-> Access(v, keys[i], c, pinned, i > wu)]]
           Body(g, i) == IF i = 0 THEN E ELSE Access(g[i - 1], keys[i], c, pinned, i > wu)
           Rec(g) == g = [i \in 0 .. N |-> Body(g, i)]
           rec == CHOOSE g : Rec(g)
<1>1. keys \in Seq(K) /\ c \in Nat
  BY FlattenElements, CapacityIs
<1>2. simulate_lru(trace, capacity, pinned, w) = rec[N]
  BY Zenon DEF simulate_lru, NoneSeen, WarmupOf
<1> HIDE DEF keys, c, wu
<1>3. N \in Nat /\ \A i \in 1 .. N : keys[i] \in K
  BY <1>1
<1>4. E \in T
  BY DEF NoneSeen, SimStates
<1>5. step \in [1 .. N -> [T -> T]]
  BY <1>1, <1>3, AccessTyped
<1>6. \A i \in 1 .. N : \A v \in T : step[i][v] = Access(v, keys[i], c, pinned, i > wu)
  OBVIOUS
<1>7. \E f : IsRecursion(f, T, E, N, step)
  <2> HIDE DEF N, T, E, step
  <2>1. QED
    BY ONLY <1>3, <1>4, <1>5, Recursion
<1>8. PICK f : f \in [0 .. N -> T] /\ f[0] = E /\ \A i \in 1 .. N : f[i] = step[i][f[i - 1]]
  BY <1>7, Zenon DEF IsRecursion
<1> HIDE DEF N, T, E, step
<1>9. ASSUME NEW i \in 1 .. N PROVE f[i] = Access(f[i - 1], keys[i], c, pinned, i > wu)
  <2>1. i - 1 \in 0 .. N
    BY <1>3
  <2>2. f[i - 1] \in T
    BY <1>8, <2>1
  <2>3. QED
    BY <1>6, <1>8, <2>2
<1>10. Rec(f)
  <2>1. ASSUME NEW i \in 0 .. N PROVE f[i] = Body(f, i)
    <3>1. CASE i = 0
      BY <1>8, <3>1
    <3>2. CASE i # 0
      <4>1. i \in 1 .. N
        BY <1>3, <3>2
      <4>2. QED
        BY <1>9, <3>2, <4>1
    <3>3. QED
      BY <3>1, <3>2
  <2> HIDE DEF Body
  <2>2. QED
    BY <1>8, <2>1
<1>11. Rec(rec)
  BY <1>10, Zenon
<1>12. ASSUME NEW i \in 0 .. N PROVE rec[i] = Body(rec, i)
  <2> DEFINE again == [j \in 0 .. N |-> Body(rec, j)]
  <2>1. rec = again
    BY <1>11, Zenon
  <2>2. again[i] = Body(rec, i)
    BY Zenon
  <2>3. QED
    BY <2>1, <2>2, Zenon
<1> HIDE DEF rec
<1> DEFINE P == {n \in 0 .. N : rec[n] = f[n]}
<1>13. 0 \in P
  BY <1>3, <1>8, <1>12
<1>14. ASSUME NEW n \in 0 .. N - 1, n \in P PROVE n + 1 \in P
  <2>1. n + 1 \in 1 .. N /\ n + 1 \in 0 .. N /\ n + 1 # 0 /\ (n + 1) - 1 = n
    BY <1>3
  <2>2. /\ rec[n + 1] = Access(rec[n], keys[n + 1], c, pinned, n + 1 > wu)
        /\ f[n + 1] = Access(f[n], keys[n + 1], c, pinned, n + 1 > wu)
    BY <1>9, <1>12, <2>1
  <2>3. QED
    BY <1>14, <2>1, <2>2
<1>15. N \in P
  <2> HIDE DEF P
  <2>1. QED
    BY ONLY <1>3, <1>13, <1>14, UpTo
<1>16. simulate_lru(trace, capacity, pinned, w) = f[N]
  BY <1>2, <1>15
<1>17. \A i \in 1 .. N : f[i] = Access(f[i - 1], keys[i], c, pinned, i > wu)
  BY <1>9
<1>18. Sims(f, K, trace, capacity, pinned, w)
  BY <1>8, <1>16, <1>17 DEF Sims, N, T, E, keys, c, wu
<1>19. QED
  BY <1>18, Zenon

-----------------------------------------------------------------------------
(* What is in an LRU.                                                      *)

\* No key is twice in it.
Distinct(s) == \A i, j \in 1 .. Len(s) : s[i] = s[j] => i = j

\* It has as many places as keys.
LEMMA DistinctCount ==
  ASSUME NEW K, NEW s, s \in Seq(K), Distinct(s)
  PROVE  IsFiniteSet(ToSet(s)) /\ Cardinality(ToSet(s)) = Len(s)
<1> DEFINE n == Len(s)
           S == ToSet(s)
<1>1. n \in Nat /\ DOMAIN s = 1 .. n /\ \A i \in 1 .. n : s[i] \in S
  BY Elements
<1>2. \A x \in S : \E i \in 1 .. n : s[i] = x
  BY Elements
<1>3. \A i, j \in 1 .. n : s[i] = s[j] => i = j
  BY DEF Distinct
<1>4. s = [i \in 1 .. n |-> s[i]]
  OBVIOUS
<1> HIDE DEF n, S
<1>5. s \in [1 .. n -> S]
  BY <1>1, <1>4
<1>6. s \in Bijection(1 .. n, S)
  BY <1>2, <1>3, <1>5 DEF Bijection, Injection, Surjection, IsInjective
<1>7. ExistsBijection(1 .. n, S)
  BY <1>6 DEF ExistsBijection
<1>8. IsFiniteSet(S) /\ Cardinality(S) = n
  BY <1>1, <1>7, FS_CountingElements, FS_NatBijection
<1>9. QED
  BY <1>8 DEF n, S

\* A key that is hit goes to the end; the other ones stay in their order.
LEMMA MoveKeeps ==
  ASSUME NEW K, NEW lru, lru \in Seq(K), Distinct(lru), NEW key \in ToSet(lru)
  PROVE  /\ MoveToEnd(lru, key) \in Seq(K) /\ Distinct(MoveToEnd(lru, key))
         /\ Len(MoveToEnd(lru, key)) = Len(lru)
         /\ ToSet(MoveToEnd(lru, key)) = ToSet(lru)
<1> DEFINE S == ToSet(lru)
           M == S \ {key}
           kept == Keep(lru, M)
           n == Len(kept)
           new == Append(kept, key)
<1>1. kept \in Seq(K) /\ ToSet(kept) = M
  <2> HIDE DEF M
  <2>1. kept \in Seq(K) /\ ToSet(kept) = S \cap M
    BY KeepSet
  <2>2. QED
    BY <2>1 DEF M
<1>2. key \in K
  BY Elements
<1>3. Distinct(kept)
  <2>1. PICK e : IsSelection(e, lru, M, kept)
    BY KeepIs
  <2>2. /\ e \in [1 .. n -> 1 .. Len(lru)]
        /\ \A k \in 1 .. n : kept[k] = lru[e[k]]
        /\ \A j, k \in 1 .. n : j < k => e[j] < e[k]
    BY <2>1 DEF IsSelection
  <2>3. n \in Nat
    BY <1>1
  <2> HIDE DEF kept, n
  <2>4. SUFFICES ASSUME NEW i \in 1 .. n, NEW j \in 1 .. n, kept[i] = kept[j] PROVE i = j
    BY DEF Distinct, n
  <2>5. e[i] \in 1 .. Len(lru) /\ e[j] \in 1 .. Len(lru) /\ lru[e[i]] = lru[e[j]]
    BY <2>2, <2>4
  <2>6. e[i] = e[j]
    BY <2>5 DEF Distinct
  <2>7. e[i] \in Int /\ e[j] \in Int
    BY <2>5
  <2>8. ~(i < j) /\ ~(j < i)
    BY <2>2, <2>6, <2>7
  <2>9. QED
    BY <2>3, <2>8
<1>4. new = MoveToEnd(lru, key)
  BY DEF MoveToEnd
<1>5. n \in Nat /\ new \in Seq(K) /\ Len(new) = n + 1 /\ new[n + 1] = key /\ \A i \in 1 .. n : new[i] = kept[i]
  BY <1>1, <1>2
<1>6. ASSUME NEW i \in 1 .. n PROVE kept[i] # key
  <2> HIDE DEF kept
  <2>1. kept[i] \in ToSet(kept)
    BY <1>1, Elements
  <2>2. QED
    BY <1>1, <2>1
<1>7. \A i, j \in 1 .. n : kept[i] = kept[j] => i = j
  BY <1>3 DEF Distinct
<1>8. ToSet(new) = M \cup {key}
  <2> HIDE DEF kept, new, M
  <2>1. ToSet(kept) = M /\ kept \in Seq(K)
    BY <1>1
  <2>2. ToSet(new) \subseteq M \cup {key}
    <3>1. SUFFICES ASSUME NEW x \in ToSet(new) PROVE x \in M \cup {key}
      OBVIOUS
    <3>2. PICK i \in 1 .. n + 1 : new[i] = x
      BY <1>5, Elements
    <3>3. CASE i = n + 1
      BY <1>5, <3>2, <3>3
    <3>4. CASE i # n + 1
      <4>1. i \in 1 .. n
        BY <1>5, <3>4
      <4>2. x = kept[i]
        BY <1>5, <3>2, <4>1
      <4>3. QED
        BY <2>1, <4>1, <4>2, Elements
    <3>5. QED
      BY <3>3, <3>4
  <2>3. M \subseteq ToSet(new)
    <3>1. SUFFICES ASSUME NEW x \in M PROVE x \in ToSet(new)
      OBVIOUS
    <3>2. PICK i \in 1 .. n : kept[i] = x
      BY <2>1, Elements
    <3>3. i \in 1 .. Len(new) /\ new[i] = x
      BY <1>5, <3>2
    <3>4. QED
      BY <1>5, <3>3, Elements
  <2>4. key \in ToSet(new)
    <3>1. n + 1 \in 1 .. Len(new)
      BY <1>5
    <3>2. QED
      BY <1>5, <3>1, Elements
  <2>5. QED
    BY <2>2, <2>3, <2>4
<1>9. Distinct(new)
  <2> HIDE DEF kept, new, M, n
  <2>1. SUFFICES ASSUME NEW i \in 1 .. n + 1, NEW j \in 1 .. n + 1, new[i] = new[j] PROVE i = j
    BY <1>5 DEF Distinct
  <2>2. (i = n + 1 \/ i \in 1 .. n) /\ (j = n + 1 \/ j \in 1 .. n)
    BY <1>5
  <2>3. QED
    BY <1>5, <1>6, <1>7, <2>1, <2>2
<1>10. ToSet(new) = S
  BY <1>8
<1>11. Len(new) = Len(lru)
  <2> HIDE DEF new, S
  <2>1. Cardinality(ToSet(new)) = Len(new)
    BY <1>5, <1>9, DistinctCount
  <2>2. Cardinality(S) = Len(lru)
    BY DistinctCount DEF S
  <2>3. QED
    BY <1>10, <2>1, <2>2
<1>12. QED
  BY <1>4, <1>5, <1>9, <1>10, <1>11

\* A key that is missed is put in; a full LRU loses its oldest key.
LEMMA PushKeeps ==
  ASSUME NEW K, NEW lru, lru \in Seq(K), Distinct(lru), NEW key \in K, key \notin ToSet(lru),
         NEW c \in Nat, Len(lru) <= c, c > 0
  PROVE  LET new == PopOldest(Append(lru, key), c)
         IN  /\ new \in Seq(K) /\ Distinct(new) /\ Len(new) <= c
             /\ ToSet(new) \subseteq ToSet(lru) \cup {key}
             /\ Len(lru) < c => new = Append(lru, key) /\ Len(new) = Len(lru) + 1
                                /\ ToSet(new) = ToSet(lru) \cup {key}
             /\ Len(lru) = c => new = Append(Tail(lru), key) /\ Len(new) = c
<1> DEFINE n == Len(lru)
           more == Append(lru, key)
           new == PopOldest(more, c)
<1>1. /\ n \in Nat /\ more \in Seq(K) /\ Len(more) = n + 1 /\ more[n + 1] = key
      /\ \A i \in 1 .. n : more[i] = lru[i] /\ lru[i] \in ToSet(lru) /\ lru[i] # key
  BY Elements
<1>2. \A i, j \in 1 .. n : lru[i] = lru[j] => i = j
  BY DEF Distinct
<1>3. \A i, j \in 1 .. n + 1 : more[i] = more[j] => i = j
  <2> HIDE DEF more, n
  <2>1. SUFFICES ASSUME NEW i \in 1 .. n + 1, NEW j \in 1 .. n + 1, more[i] = more[j] PROVE i = j
    OBVIOUS
  <2>2. (i = n + 1 \/ i \in 1 .. n) /\ (j = n + 1 \/ j \in 1 .. n)
    BY <1>1
  <2>3. QED
    BY <1>1, <1>2, <2>1, <2>2
<1>4. ToSet(more) = ToSet(lru) \cup {key}
  <2> HIDE DEF more
  <2>1. ASSUME NEW x \in ToSet(more) PROVE x \in ToSet(lru) \cup {key}
    <3>1. PICK i \in 1 .. n + 1 : more[i] = x
      BY <1>1, Elements
    <3>2. i = n + 1 \/ i \in 1 .. n
      BY <1>1
    <3>3. QED
      BY <1>1, <3>1, <3>2
  <2>2. ASSUME NEW x \in ToSet(lru) PROVE x \in ToSet(more)
    <3>1. PICK i \in 1 .. n : lru[i] = x
      BY Elements
    <3>2. i \in 1 .. Len(more) /\ more[i] = x
      BY <1>1, <3>1
    <3>3. QED
      BY <1>1, <3>2, Elements
  <2>3. key \in ToSet(more)
    <3>1. n + 1 \in 1 .. Len(more)
      BY <1>1
    <3>2. QED
      BY <1>1, <3>1, Elements
  <2>4. QED
    BY <2>1, <2>2, <2>3
<1>5. CASE n < c
  <2>1. new = more
    BY <1>1, <1>5 DEF PopOldest
  <2>2. Len(more) <= c
    BY <1>1, <1>5
  <2>3. Distinct(more)
    BY <1>1, <1>3 DEF Distinct
  <2> HIDE DEF more, new
  <2>4. QED
    BY <1>1, <1>4, <1>5, <2>1, <2>2, <2>3 DEF more, new
<1>6. CASE n = c
  <2> DEFINE t == Tail(more)
  <2>1. new = t
    BY <1>1, <1>6 DEF PopOldest
  <2>2. lru # <<>>
    BY <1>6
  <2>3. t = Append(Tail(lru), key)
    BY <2>2, HeadTailAppend
  <2>4. more # <<>>
    BY <1>1
  <2> HIDE DEF more, new
  <2>5. t \in Seq(K) /\ Len(t) = n /\ \A i \in 1 .. n : t[i] = more[i + 1]
    BY <1>1, <2>4
  <2> HIDE DEF t
  <2>6. Distinct(t)
    <3>1. SUFFICES ASSUME NEW i \in 1 .. n, NEW j \in 1 .. n, t[i] = t[j] PROVE i = j
      BY <2>5 DEF Distinct
    <3>2. i + 1 \in 1 .. n + 1 /\ j + 1 \in 1 .. n + 1 /\ i \in Int /\ j \in Int
      BY <1>1
    <3>3. i + 1 = j + 1
      BY <1>3, <2>5, <3>1, <3>2
    <3>4. QED
      BY <3>2, <3>3
  <2>7. ToSet(t) \subseteq ToSet(more)
    <3>1. SUFFICES ASSUME NEW x \in ToSet(t) PROVE x \in ToSet(more)
      OBVIOUS
    <3>2. PICK i \in 1 .. n : t[i] = x
      BY <2>5, Elements
    <3>3. i + 1 \in 1 .. Len(more) /\ more[i + 1] = x
      BY <1>1, <2>5, <3>2
    <3>4. QED
      BY <1>1, <3>3, Elements
  <2>8. QED
    BY <1>4, <1>6, <2>1, <2>3, <2>5, <2>6, <2>7 DEF new, more
<1>7. n < c \/ n = c
  BY <1>1
<1>8. QED
  BY <1>5, <1>6, <1>7

\* What a key that is not pinned does to the LRU.
Used(lru, key, c) ==
  IF key \in ToSet(lru) THEN MoveToEnd(lru, key)
  ELSE IF c > 0 THEN PopOldest(Append(lru, key), c) ELSE lru

\* One reference, field by field.
LEMMA AccessIs ==
  ASSUME NEW sim, NEW key, NEW c, NEW pinned, NEW counting \in BOOLEAN
  PROVE  LET next == Access(sim, key, c, pinned, counting)
             hit == key \in pinned \/ key \in ToSet(sim.lru)
         IN  /\ next.lru = IF key \in pinned THEN sim.lru ELSE Used(sim.lru, key, c)
             /\ next.accesses = sim.accesses + (IF counting THEN 1 ELSE 0)
             /\ next.hits = sim.hits + (IF counting /\ hit THEN 1 ELSE 0)
<1> DEFINE lru == sim.lru
           moved == MoveToEnd(lru, key)
           pushed == PopOldest(Append(lru, key), c)
           hit == key \in pinned \/ key \in ToSet(lru)
           a == sim.accesses + (IF counting THEN 1 ELSE 0)
           h == sim.hits + (IF counting /\ hit THEN 1 ELSE 0)
           here == IF key \in pinned THEN lru
                   ELSE IF hit THEN moved
                   ELSE IF c > 0 THEN pushed ELSE lru
<1>1. Access(sim, key, c, pinned, counting) = [accesses |-> a, hits |-> h, lru |-> here]
  BY DEF Access
<1>2. Used(lru, key, c) = IF key \in ToSet(lru) THEN moved ELSE IF c > 0 THEN pushed ELSE lru
  BY DEF Used
<1> HIDE DEF moved, pushed, lru
<1>3. here = IF key \in pinned THEN lru ELSE Used(lru, key, c)
  BY <1>2, Zenon
<1> HIDE DEF here, a, h
<1>4. /\ Access(sim, key, c, pinned, counting).lru = here
      /\ Access(sim, key, c, pinned, counting).accesses = a
      /\ Access(sim, key, c, pinned, counting).hits = h
  BY <1>1
<1>5. QED
  BY <1>3, <1>4 DEF a, h, lru

\* The LRU and the pinned keys: no key is there twice.
Fits(lru, K, c, pinned) ==
  /\ lru \in Seq(K) /\ Distinct(lru) /\ Len(lru) <= c
  /\ ToSet(lru) \cap pinned = {}

\* An LRU of c places, and a key that is not pinned.
LEMMA UsedFits ==
  ASSUME NEW K, NEW c \in Nat, NEW pinned, NEW lru, Fits(lru, K, c, pinned), NEW key \in K, key \notin pinned
  PROVE  Fits(Used(lru, key, c), K, c, pinned)
<1>1. lru \in Seq(K) /\ Distinct(lru) /\ Len(lru) <= c /\ ToSet(lru) \cap pinned = {}
  BY DEF Fits
<1>2. CASE key \in ToSet(lru)
  <2> DEFINE new == MoveToEnd(lru, key)
  <2>1. new \in Seq(K) /\ Distinct(new) /\ Len(new) = Len(lru) /\ ToSet(new) = ToSet(lru)
    BY <1>1, <1>2, MoveKeeps
  <2>2. Used(lru, key, c) = new
    BY <1>2 DEF Used
  <2> HIDE DEF new
  <2>3. QED
    BY <1>1, <2>1, <2>2 DEF Fits
<1>3. CASE key \notin ToSet(lru) /\ c > 0
  <2> DEFINE new == PopOldest(Append(lru, key), c)
  <2>1. new \in Seq(K) /\ Distinct(new) /\ Len(new) <= c /\ ToSet(new) \subseteq ToSet(lru) \cup {key}
    BY <1>1, <1>3, PushKeeps
  <2>2. Used(lru, key, c) = new
    BY <1>3 DEF Used
  <2> HIDE DEF new
  <2>3. QED
    BY <1>1, <2>1, <2>2 DEF Fits
<1>4. CASE key \notin ToSet(lru) /\ ~(c > 0)
  BY <1>1, <1>4 DEF Used, Fits
<1>5. QED
  BY <1>2, <1>3, <1>4

\* Nothing is there at first.
LEMMA EmptyFits ==
  ASSUME NEW K, NEW c \in Nat, NEW pinned
  PROVE  Fits(<<>>, K, c, pinned)
<1> DEFINE s == <<>>
<1>1. s \in Seq(K) /\ Len(s) = 0
  OBVIOUS
<1>2. ToSet(s) = {}
  BY DEF ToSet
<1> HIDE DEF s
<1>3. Distinct(s)
  BY <1>1 DEF Distinct
<1>4. QED
  BY <1>1, <1>2, <1>3 DEF Fits, s

\* At every reference of a simulation.
LEMMA SimFits ==
  ASSUME NEW K, NEW trace, trace \in Seq(Seq(K)), NEW capacity \in Nat, NEW pinned, IsFiniteSet(pinned), NEW w,
         NEW f, Sims(f, K, trace, capacity, pinned, w)
  PROVE  \A n \in 0 .. Len(FlattenSeq(trace)) : Fits(f[n].lru, K, LruCapacity(capacity, pinned), pinned)
<1> DEFINE keys == FlattenSeq(trace)
           N == Len(keys)
           c == LruCapacity(capacity, pinned)
           P == {n \in 0 .. N : Fits(f[n].lru, K, c, pinned)}
<1>1. keys \in Seq(K) /\ c \in Nat
  BY FlattenElements, CapacityIs
<1>2. /\ f \in [0 .. N -> SimStates(K)] /\ f[0] = NoneSeen
      /\ \A n \in 1 .. N : f[n] = Access(f[n - 1], keys[n], c, pinned, n > WarmupOf(trace, w))
  BY DEF Sims
<1> HIDE DEF keys, c
<1>3. N \in Nat /\ \A n \in 1 .. N : keys[n] \in K
  BY <1>1
<1>4. 0 \in P
  BY <1>1, <1>2, <1>3, EmptyFits DEF NoneSeen
<1>5. ASSUME NEW n \in 0 .. N - 1, n \in P PROVE n + 1 \in P
  <2> DEFINE key == keys[n + 1]
             old == f[n]
             counting == n + 1 > WarmupOf(trace, w)
  <2>1. n + 1 \in 1 .. N /\ n + 1 \in 0 .. N /\ (n + 1) - 1 = n
    BY <1>3
  <2>2. f[n + 1] = Access(old, key, c, pinned, counting) /\ key \in K /\ counting \in BOOLEAN
    BY <1>2, <1>3, <2>1
  <2>3. Fits(old.lru, K, c, pinned)
    BY <1>5
  <2> HIDE DEF key, old, counting
  <2>4. f[n + 1].lru = IF key \in pinned THEN old.lru ELSE Used(old.lru, key, c)
    BY <2>2, AccessIs
  <2>5. Fits(f[n + 1].lru, K, c, pinned)
    BY <1>1, <2>2, <2>3, <2>4, UsedFits
  <2>6. QED
    BY <2>1, <2>5
<1>6. \A n \in 0 .. N : n \in P
  <2> HIDE DEF P, N
  <2>1. QED
    BY ONLY <1>3, <1>4, <1>5, UpTo
<1>7. QED
  BY <1>6 DEF keys, c

-----------------------------------------------------------------------------
(* Two capacities.                                                         *)

\* Before the first place there is one more: it is not touched by what follows.
LEMMA MoveBehind ==
  ASSUME NEW K, NEW lru, lru \in Seq(K), NEW x \in K, NEW key \in K, key # x
  PROVE  MoveToEnd(<<x>> \o lru, key) = <<x>> \o MoveToEnd(lru, key)
<1> DEFINE l == <<x>> \o lru
           M == ToSet(l) \ {key}
           S == ToSet(lru) \ {key}
           kept == Keep(lru, S)
<1>1. l \in Seq(K) /\ Len(l) = Len(lru) + 1 /\ l[1] = x /\ \A i \in 1 .. Len(lru) : l[i + 1] = lru[i]
  OBVIOUS
<1>2. kept \in Seq(K)
  BY KeepSet
<1>3. \A i \in 1 .. Len(lru) : lru[i] \in M <=> lru[i] \in S
  <2> HIDE DEF l
  <2>1. SUFFICES ASSUME NEW i \in 1 .. Len(lru) PROVE lru[i] \in ToSet(l) /\ lru[i] \in ToSet(lru)
    OBVIOUS
  <2>2. i + 1 \in 1 .. Len(l) /\ l[i + 1] = lru[i]
    BY <1>1
  <2>3. QED
    BY <1>1, <2>2, Elements
<1>4. x \in M
  <2> HIDE DEF l
  <2>1. 1 \in 1 .. Len(l)
    BY <1>1
  <2>2. QED
    BY <1>1, <2>1, Elements
<1>5. Keep(lru, M) = kept
  <2> HIDE DEF M, S
  <2>1. QED
    BY <1>3, KeepSame DEF kept
<1>6. Keep(l, M) = <<x>> \o Keep(lru, M)
  <2> HIDE DEF M
  <2>1. QED
    BY <1>4, KeepBefore
<1>7. MoveToEnd(l, key) = Append(<<x>> \o kept, key)
  BY <1>5, <1>6 DEF MoveToEnd
<1>8. MoveToEnd(lru, key) = Append(kept, key)
  BY DEF MoveToEnd
<1> HIDE DEF kept
<1>9. Append(<<x>> \o kept, key) = <<x>> \o Append(kept, key)
  BY <1>2
<1>10. QED
  BY <1>7, <1>8, <1>9

\* The first key is hit.
LEMMA MoveFirst ==
  ASSUME NEW K, NEW lru, lru \in Seq(K), NEW x \in K, x \notin ToSet(lru)
  PROVE  MoveToEnd(<<x>> \o lru, x) = Append(lru, x)
<1> DEFINE l == <<x>> \o lru
           M == ToSet(l) \ {x}
<1>1. l \in Seq(K) /\ Len(l) = Len(lru) + 1 /\ \A i \in 1 .. Len(lru) : l[i + 1] = lru[i]
  OBVIOUS
<1>2. \A i \in 1 .. Len(lru) : lru[i] \in M
  <2> HIDE DEF l
  <2>1. SUFFICES ASSUME NEW i \in 1 .. Len(lru) PROVE lru[i] \in ToSet(l) /\ lru[i] # x
    OBVIOUS
  <2>2. i + 1 \in 1 .. Len(l) /\ l[i + 1] = lru[i]
    BY <1>1
  <2>3. QED
    BY <1>1, <2>2, Elements
<1>3. Keep(lru, M) = lru
  <2> HIDE DEF M
  <2>1. QED
    BY <1>2, KeepAll
<1>4. Keep(l, M) = Keep(lru, M)
  <2>1. x \notin M
    OBVIOUS
  <2> HIDE DEF M
  <2>2. QED
    BY <2>1, KeepBefore
<1>5. QED
  BY <1>3, <1>4 DEF MoveToEnd

\* With one place more, all that is in the smaller LRU is in the larger one, in that order.
Wider(small, large, K, c) ==
  \/ large = small
  \/ Len(small) = c - 1 /\ \E x \in K : large = <<x>> \o small

\* The larger LRU had the key put in, the smaller one puts it in.
LEMMA PushWider ==
  ASSUME NEW K, NEW c \in Nat \ {0}, NEW s, Fits(s, K, c - 1, {}), NEW key \in K, key \notin ToSet(s)
  PROVE  Wider(Used(s, key, c - 1), Append(s, key), K, c)
<1> DEFINE more == Append(s, key)
<1>1. s \in Seq(K) /\ Len(s) \in Nat /\ Len(s) <= c - 1 /\ c - 1 \in Nat /\ Distinct(s)
  BY DEF Fits
<1>2. CASE c = 1
  <2>1. s = <<>>
    BY <1>1, <1>2
  <2>2. Used(s, key, c - 1) = <<>>
    BY <1>2, <2>1 DEF Used
  <2>3. more = <<key>> \o <<>>
    BY <2>1
  <2>4. QED
    BY <1>2, <2>2, <2>3 DEF Wider
<1>3. CASE c > 1
  <2> DEFINE new == PopOldest(more, c - 1)
  <2>1. c - 1 > 0
    BY <1>3
  <2>2. Used(s, key, c - 1) = new
    BY <2>1 DEF Used
  <2>3. /\ Len(s) < c - 1 => new = more
        /\ Len(s) = c - 1 => new = Append(Tail(s), key) /\ Len(new) = c - 1
    <3> DEFINE d == c - 1
    <3> HIDE DEF d
    <3>1. d \in Nat /\ d > 0 /\ Len(s) <= d
      BY <1>1, <2>1 DEF d
    <3>2. LET n == PopOldest(Append(s, key), d)
          IN  /\ Len(s) < d => n = Append(s, key)
              /\ Len(s) = d => n = Append(Tail(s), key) /\ Len(n) = d
      BY <1>1, <3>1, PushKeeps
    <3>3. QED
      BY <3>2 DEF d
  <2>4. CASE Len(s) < c - 1
    BY <2>2, <2>3, <2>4 DEF Wider
  <2>5. CASE Len(s) = c - 1
    <3> DEFINE t == Tail(s)
    <3>1. s # <<>>
      BY <2>1, <2>5
    <3>2. Head(s) \in K /\ t \in Seq(K) /\ s = <<Head(s)>> \o t
      BY <1>1, <3>1
    <3> HIDE DEF t
    <3>3. Append(s, key) = <<Head(s)>> \o Append(t, key)
      BY <3>2
    <3>4. QED
      BY <2>2, <2>3, <2>5, <3>2, <3>3 DEF Wider, t
  <2>6. QED
    BY <1>1, <2>4, <2>5
<1>4. QED
  BY <1>2, <1>3

\* It stays so whatever key is used.
LEMMA UsedWider ==
  ASSUME NEW K, NEW c \in Nat \ {0}, NEW s, Fits(s, K, c - 1, {}), NEW l, Fits(l, K, c, {}),
         Wider(s, l, K, c), NEW key \in K
  PROVE  Wider(Used(s, key, c - 1), Used(l, key, c), K, c) /\ ToSet(s) \subseteq ToSet(l)
<1>1. /\ s \in Seq(K) /\ Len(s) \in Nat /\ Len(s) <= c - 1 /\ Distinct(s)
      /\ l \in Seq(K) /\ Len(l) \in Nat /\ Len(l) <= c /\ Distinct(l)
      /\ c \in Nat /\ c > 0
  BY DEF Fits
<1>2. CASE l = s
  <2>1. CASE key \in ToSet(s)
    BY <1>2, <2>1 DEF Used, Wider
  <2>2. CASE key \notin ToSet(s)
    <3>1. LET n == PopOldest(Append(s, key), c) IN Len(s) < c => n = Append(s, key)
      BY <1>1, <1>2, <2>2, PushKeeps
    <3>2. Used(l, key, c) = Append(s, key)
      BY <1>1, <1>2, <2>2, <3>1 DEF Used
    <3>3. QED
      BY <1>2, <2>2, <3>2, PushWider
  <2>3. QED
    BY <1>2, <2>1, <2>2
<1>3. CASE l # s
  <2>1. PICK x \in K : l = <<x>> \o s
    BY <1>3 DEF Wider
  <2>2. Len(s) = c - 1
    BY <1>3 DEF Wider
  <2>3. Len(l) = Len(s) + 1 /\ l[1] = x /\ \A i \in 1 .. Len(s) : l[i + 1] = s[i]
    BY <1>1, <2>1
  <2>4. x \notin ToSet(s)
    <3>1. SUFFICES ASSUME x \in ToSet(s) PROVE FALSE
      OBVIOUS
    <3>2. PICK i \in 1 .. Len(s) : s[i] = x
      BY <1>1, <3>1, Elements
    <3>3. 1 \in 1 .. Len(l) /\ i + 1 \in 1 .. Len(l) /\ l[i + 1] = l[1] /\ i + 1 # 1
      BY <1>1, <2>3, <3>2
    <3>4. QED
      BY <1>1, <3>3 DEF Distinct
  <2>5. ToSet(l) = ToSet(s) \cup {x}
    <3>1. ASSUME NEW y \in ToSet(l) PROVE y \in ToSet(s) \cup {x}
      <4>1. PICK i \in 1 .. Len(l) : l[i] = y
        BY <1>1, Elements
      <4>2. CASE i = 1
        BY <2>3, <4>1, <4>2
      <4>3. CASE i # 1
        <5>1. i - 1 \in 1 .. Len(s) /\ (i - 1) + 1 = i
          BY <1>1, <2>3, <4>3
        <5>2. y = s[i - 1]
          BY <2>3, <4>1, <5>1
        <5>3. QED
          BY <1>1, <5>1, <5>2, Elements
      <4>4. QED
        BY <4>2, <4>3
    <3>2. ASSUME NEW y \in ToSet(s) PROVE y \in ToSet(l)
      <4>1. PICK i \in 1 .. Len(s) : s[i] = y
        BY <1>1, Elements
      <4>2. i + 1 \in 1 .. Len(l) /\ l[i + 1] = y
        BY <1>1, <2>3, <4>1
      <4>3. QED
        BY <1>1, <4>2, Elements
    <3>3. x \in ToSet(l)
      <4>1. 1 \in 1 .. Len(l)
        BY <1>1, <2>3
      <4>2. QED
        BY <1>1, <2>3, <4>1, Elements
    <3>4. QED
      BY <3>1, <3>2, <3>3
  <2>6. CASE key \in ToSet(s)
    <3> DEFINE moved == MoveToEnd(s, key)
    <3>1. key # x /\ key \in ToSet(l)
      BY <2>4, <2>5, <2>6
    <3>2. Used(l, key, c) = <<x>> \o moved
      <4>1. Used(l, key, c) = MoveToEnd(l, key)
        BY ONLY <3>1 DEF Used
      <4>2. s \in Seq(K) /\ x \in K /\ key \in K /\ key # x
        BY <1>1, <2>1, <3>1
      <4>3. MoveToEnd(<<x>> \o s, key) = <<x>> \o MoveToEnd(s, key)
        BY ONLY <4>2, MoveBehind
      <4>4. QED
        BY <2>1, <4>1, <4>3
    <3>3. Used(s, key, c - 1) = moved
      BY <2>6 DEF Used
    <3>4. Len(moved) = Len(s)
      BY <1>1, <2>6, MoveKeeps
    <3> HIDE DEF moved
    <3>5. QED
      BY <2>2, <2>5, <3>2, <3>3, <3>4 DEF Wider
  <2>7. CASE key \notin ToSet(s)
    <3>1. Used(l, key, c) = Append(s, key)
      <4>1. CASE key = x
        <5>1. MoveToEnd(l, key) = Append(s, key)
          BY <1>1, <2>1, <2>4, <4>1, MoveFirst
        <5>2. QED
          BY <2>5, <4>1, <5>1 DEF Used
      <4>2. CASE key # x
        <5>1. key \notin ToSet(l)
          BY <2>5, <2>7, <4>2
        <5>2. LET n == PopOldest(Append(l, key), c) IN Len(l) = c => n = Append(Tail(l), key)
          BY <1>1, <5>1, PushKeeps
        <5>3. Len(l) = c
          BY <1>1, <2>2, <2>3
        <5>4. Tail(l) = s
          BY <1>1, <2>1
        <5>5. QED
          BY <1>1, <5>1, <5>2, <5>3, <5>4 DEF Used
      <4>3. QED
        BY <4>1, <4>2
    <3>2. QED
      BY <2>5, <2>7, <3>1, PushWider
  <2>8. QED
    BY <2>6, <2>7
<1>4. QED
  BY <1>2, <1>3

\* A larger cache has the hits of a smaller one, and its keys.
LEMMA LargerHolds ==
  ASSUME NEW K, NEW trace, trace \in Seq(Seq(K)), NEW c \in Nat \ {0}, NEW w
  PROVE  LET small == simulate_lru(trace, c - 1, {}, w)
             large == simulate_lru(trace, c, {}, w)
         IN  /\ ToSet(small.lru) \subseteq ToSet(large.lru)
             /\ small.hits <= large.hits
             /\ small.accesses = large.accesses
<1> DEFINE keys == FlattenSeq(trace)
           N == Len(keys)
           b == c - 1
           wu == WarmupOf(trace, w)
<1>1. IsFiniteSet({}) /\ Cardinality({}) = 0
  BY FS_EmptySet
<1>2. LruCapacity(c, {}) = c /\ LruCapacity(b, {}) = b /\ b \in Nat /\ c \in Nat
  <2>1. b \in Nat /\ c \in Nat
    OBVIOUS
  <2> HIDE DEF b
  <2>2. LruCapacity(c, {}) = c - 0 /\ LruCapacity(b, {}) = b - 0
    BY <1>1, <2>1, CapacityIs
  <2>3. QED
    BY <2>1, <2>2
<1> HIDE DEF b
<1>3. PICK f : Sims(f, K, trace, b, {}, w)
  BY <1>1, <1>2, SimIsRecursion
<1>4. PICK g : Sims(g, K, trace, c, {}, w)
  BY <1>1, <1>2, SimIsRecursion
<1>5. keys \in Seq(K)
  BY FlattenElements
<1>6. /\ f \in [0 .. N -> SimStates(K)] /\ f[0] = NoneSeen
      /\ \A n \in 1 .. N : f[n] = Access(f[n - 1], keys[n], b, {}, n > wu)
      /\ simulate_lru(trace, b, {}, w) = f[N]
  BY <1>2, <1>3 DEF Sims
<1>7. /\ g \in [0 .. N -> SimStates(K)] /\ g[0] = NoneSeen
      /\ \A n \in 1 .. N : g[n] = Access(g[n - 1], keys[n], c, {}, n > wu)
      /\ simulate_lru(trace, c, {}, w) = g[N]
  BY <1>2, <1>4 DEF Sims
<1>8. \A n \in 0 .. N : Fits(f[n].lru, K, b, {}) /\ Fits(g[n].lru, K, c, {})
  BY <1>1, <1>2, <1>3, <1>4, SimFits
<1> HIDE DEF keys, wu
<1>9. N \in Nat /\ \A n \in 1 .. N : keys[n] \in K
  BY <1>5
<1> DEFINE P == {n \in 0 .. N : /\ Wider(f[n].lru, g[n].lru, K, c)
                                /\ f[n].hits <= g[n].hits /\ f[n].accesses = g[n].accesses}
<1>10. 0 \in P
  BY <1>6, <1>7, <1>9 DEF NoneSeen, Wider
<1>11. ASSUME NEW n \in 0 .. N - 1, n \in P PROVE n + 1 \in P
  <2> DEFINE key == keys[n + 1]
             s == f[n]
             l == g[n]
             counting == n + 1 > wu
             s2 == f[n + 1]
             l2 == g[n + 1]
  <2>1. n + 1 \in 1 .. N /\ n + 1 \in 0 .. N /\ (n + 1) - 1 = n
    BY <1>9
  <2>2. /\ s2 = Access(s, key, b, {}, counting) /\ l2 = Access(l, key, c, {}, counting)
        /\ key \in K /\ counting \in BOOLEAN
    BY <1>6, <1>7, <1>9, <2>1
  <2>3. /\ Fits(s.lru, K, b, {}) /\ Fits(l.lru, K, c, {}) /\ Wider(s.lru, l.lru, K, c)
        /\ s.hits <= l.hits /\ s.accesses = l.accesses
    BY <1>8, <1>11
  <2>4. s \in SimStates(K) /\ l \in SimStates(K)
    <3>1. n \in 0 .. N
      BY <1>9
    <3>2. QED
      BY <1>6, <1>7, <3>1
  <2> HIDE DEF key, s, l, counting, s2, l2
  <2>5. /\ s2.lru = Used(s.lru, key, b) /\ l2.lru = Used(l.lru, key, c)
        /\ s2.accesses = s.accesses + (IF counting THEN 1 ELSE 0)
        /\ l2.accesses = l.accesses + (IF counting THEN 1 ELSE 0)
        /\ s2.hits = s.hits + (IF counting /\ key \in ToSet(s.lru) THEN 1 ELSE 0)
        /\ l2.hits = l.hits + (IF counting /\ key \in ToSet(l.lru) THEN 1 ELSE 0)
    BY <2>2, AccessIs
  <2>6. Wider(s2.lru, l2.lru, K, c) /\ ToSet(s.lru) \subseteq ToSet(l.lru)
    <3>1. /\ Fits(s.lru, K, c - 1, {}) /\ Fits(l.lru, K, c, {}) /\ Wider(s.lru, l.lru, K, c)
          /\ key \in K /\ c \in Nat \ {0}
      BY <2>2, <2>3 DEF b
    <3>2. /\ Wider(Used(s.lru, key, c - 1), Used(l.lru, key, c), K, c)
          /\ ToSet(s.lru) \subseteq ToSet(l.lru)
      BY ONLY <3>1, UsedWider
    <3>3. QED
      BY <2>5, <3>2 DEF b
  <2>7. s.hits \in Nat /\ l.hits \in Nat
    BY <2>4 DEF SimStates
  <2>8. s2.hits <= l2.hits
    BY <2>3, <2>5, <2>6, <2>7
  <2>9. s2.accesses = l2.accesses
    BY <2>3, <2>5
  <2>10. QED
    BY <2>1, <2>6, <2>8, <2>9 DEF s2, l2
<1>12. N \in P
  <2> HIDE DEF P, N
  <2>1. QED
    BY ONLY <1>9, <1>10, <1>11, UpTo
<1>13. Wider(f[N].lru, g[N].lru, K, c) /\ f[N].hits <= g[N].hits /\ f[N].accesses = g[N].accesses
  BY <1>12
<1>14. ToSet(f[N].lru) \subseteq ToSet(g[N].lru)
  <2> DEFINE s == f[N].lru
             l == g[N].lru
  <2>1. Fits(s, K, b, {}) /\ Fits(l, K, c, {}) /\ Wider(s, l, K, c)
    BY <1>8, <1>9, <1>13
  <2>2. CASE N = 0
    BY <1>6, <1>7, <2>2
  <2>3. CASE N > 0
    <3>1. keys[N] \in K
      BY <1>9, <2>3
    <3> HIDE DEF s, l, N
    <3>2. ToSet(s) \subseteq ToSet(l)
      BY <2>1, <3>1, UsedWider DEF b
    <3>3. QED
      BY <3>2 DEF s, l
  <2>4. QED
    BY <1>9, <2>2, <2>3
<1>15. QED
  BY <1>6, <1>7, <1>13, <1>14 DEF b

\* Capacities are numbers.
LEMMA CapacitiesAre == Capacities \subseteq Nat
  BY DEF Capacities

\* A larger cache never has fewer hits than a smaller one on the traces that are collected,
\* after any warm-up, at every number of layers and experts (cache_sim.py:51-58).
THEOREM LargerCorrect == Spec => []LargerCacheHoldsMore
<1>1. ASSUME TraceInv PROVE LargerCacheHoldsMore
  <2> DEFINE trace == Trace
             sim == [w \in {0, 1} |-> [c \in Capacities |-> simulate_lru(trace, c, {}, w)]]
  <2>1. trace \in Seq(Routed)
    BY <1>1, TracesRouted
  <2>2. trace \in Seq(Seq(AllKeys))
    <3> HIDE DEF trace
    <3>1. \A i \in 1 .. Len(trace) : trace[i] \in Seq(AllKeys)
      BY <2>1 DEF Routed
    <3>2. QED
      BY <2>1, <3>1, Retyped
  <2>3. SUFFICES ASSUME NEW w \in {0, 1}, NEW c \in Capacities \ {0}
                 PROVE  /\ ToSet(sim[w][c - 1].lru) \subseteq ToSet(sim[w][c].lru)
                        /\ sim[w][c - 1].hits <= sim[w][c].hits
                        /\ sim[w][c - 1].accesses = sim[w][c].accesses
    BY DEF LargerCacheHoldsMore
  <2>4. c \in Nat \ {0} /\ c \in Capacities /\ c - 1 \in Capacities
    <3> DEFINE most == Len(MoeLayers) * Cardinality(Experts) + 1
    <3>1. most \in Int
      BY ConstantsAre, TraceAssumption, FS_CardinalityType
    <3>2. Capacities = 0 .. most
      BY DEF Capacities
    <3> HIDE DEF most
    <3>3. QED
      BY <3>1, <3>2
  <2> HIDE DEF trace
  <2>5. /\ sim[w][c - 1] = simulate_lru(trace, c - 1, {}, w)
        /\ sim[w][c] = simulate_lru(trace, c, {}, w)
    BY <2>3, <2>4
  <2>6. LET small == simulate_lru(trace, c - 1, {}, w)
            large == simulate_lru(trace, c, {}, w)
        IN  /\ ToSet(small.lru) \subseteq ToSet(large.lru)
            /\ small.hits <= large.hits
            /\ small.accesses = large.accesses
    BY <2>2, <2>4, LargerHolds
  <2>7. QED
    BY <2>5, <2>6
<1>2. QED
  BY <1>1, StepsCorrect, PTL

-----------------------------------------------------------------------------
(* The layers of a token, and the other LRU.                               *)

\* Where a place is in n blocks of the same width: the block, and the place in it.
IsPlace(p, i, k, n, width) == i \in 1 .. n /\ k \in 1 .. width /\ p = (i - 1) * width + k

\* Each place is in one of the blocks.
LEMMA PlaceIs ==
  ASSUME NEW width \in Nat \ {0}, NEW n \in Nat, NEW p \in 1 .. n * width
  PROVE  \E i, k : IsPlace(p, i, k, n, width)
<1> DEFINE q == p - 1
           i == q \div width
           r == q % width
<1>1. n * width \in Nat /\ q \in Nat /\ q < n * width /\ p = q + 1
  OBVIOUS
<1> HIDE DEF q
<1>2. i \in 0 .. n - 1
  BY <1>1, RowBound
<1>3. r \in 0 .. width - 1 /\ q = (width * i) + r
  <2>1. q \in Int
    BY <1>1
  <2>2. QED
    BY <2>1, Division
<1> HIDE DEF i, r
<1>4. i + 1 \in 1 .. n /\ r + 1 \in 1 .. width /\ (i + 1) - 1 = i
  BY <1>2, <1>3
<1>5. i \in Int /\ width * i = i * width
  BY <1>2
<1>6. p = ((i + 1) - 1) * width + (r + 1)
  <2> DEFINE m == i * width
  <2>1. m \in Int /\ r \in Int /\ q = m + r
    BY <1>3, <1>5
  <2> HIDE DEF m
  <2>2. p = m + (r + 1)
    BY <1>1, <2>1
  <2>3. QED
    BY <1>4, <2>2 DEF m
<1>7. IsPlace(p, i + 1, r + 1, n, width)
  BY <1>4, <1>6 DEF IsPlace
<1>8. QED
  BY <1>7

\* A later place is in the same block or a later one.
LEMMA PlacesInOrder ==
  ASSUME NEW n \in Nat, NEW p, NEW i, NEW k, IsPlace(p, i, k, n, TopK),
         NEW q, NEW j, NEW m, IsPlace(q, j, m, n, TopK), p <= q
  PROVE  i <= j
<1> DEFINE a == (i - 1) * TopK
           b == (j - 1) * TopK
<1>1. /\ TopK \in Nat /\ i \in Int /\ j \in Int /\ k \in Int /\ m \in Int
      /\ k >= 1 /\ m <= TopK /\ p = a + k /\ q = b + m /\ a \in Int /\ b \in Int
  BY ConstantsAre DEF IsPlace
<1>2. SUFFICES ASSUME j < i PROVE FALSE
  BY <1>1
<1>3. a >= b + TopK
  <2> DEFINE d == i - j
             e == (d - 1) * TopK
  <2>1. d \in Nat /\ d - 1 \in Nat /\ i - 1 = (j - 1) + d
    BY <1>1, <1>2
  <2>2. a = ((j - 1) + d) * TopK
    BY <2>1
  <2>3. ((j - 1) + d) * TopK = b + TopK + e
    BY <1>1, <2>1
  <2>4. e \in Nat
    BY <1>1, <2>1
  <2> HIDE DEF e, a, b
  <2>5. QED
    BY <1>1, <2>2, <2>3, <2>4
<1> HIDE DEF a, b
<1>4. QED
  BY <1>1, <1>3

\* The keys of a token are in the order of the layers.
LEMMA LayersInOrder ==
  ASSUME NEW token \in Routed
  PROVE  /\ token \in Seq(AllKeys)
         /\ \A p \in 1 .. Len(token) : token[p][1] \in Nat /\ token[p][1] <= Last(MoeLayers)
         /\ \A p, q \in 1 .. Len(token) : p <= q => token[p][1] <= token[q][1]
<1> DEFINE L == Len(MoeLayers)
<1>1. PICK n \in 1 .. L : Blocks(token, n)
  BY DEF Routed
<1>2. token \in Seq(AllKeys) /\ Len(token) = n * TopK
  BY <1>1 DEF Blocks
<1>3. /\ L \in Nat /\ L > 1 /\ n \in Nat /\ n <= L /\ TopK \in Nat
      /\ \A i \in 1 .. L : MoeLayers[i] \in Nat
  BY ConstantsAre
<1>4. TopK \in Nat \ {0} /\ n \in Nat
  BY ConstantsAre
<1>5. Last(MoeLayers) = MoeLayers[L]
  BY DEF Last
<1>6. \A i, j \in 1 .. L : i <= j => MoeLayers[i] <= MoeLayers[j]
  BY <1>3, LayersGoUp
<1>7. \A i \in 1 .. n : \A k \in 1 .. TopK : token[(i - 1) * TopK + k][1] = MoeLayers[i]
  BY <1>1 DEF Blocks
<1>8. ASSUME NEW p, NEW i, NEW k, IsPlace(p, i, k, n, TopK)
      PROVE  token[p][1] = MoeLayers[i] /\ i \in 1 .. L
  <2>1. i \in 1 .. n /\ k \in 1 .. TopK /\ p = (i - 1) * TopK + k
    BY <1>8 DEF IsPlace
  <2>2. token[(i - 1) * TopK + k][1] = MoeLayers[i]
    BY <1>7, <2>1
  <2>3. token[p][1] = MoeLayers[i]
    BY <2>1, <2>2, Zenon
  <2>4. QED
    BY <1>3, <2>1, <2>3
<1>9. ASSUME NEW p \in 1 .. Len(token)
      PROVE  token[p][1] \in Nat /\ token[p][1] <= Last(MoeLayers)
  <2>1. PICK i, k : IsPlace(p, i, k, n, TopK)
    BY <1>2, <1>4, PlaceIs
  <2>2. token[p][1] = MoeLayers[i] /\ i \in 1 .. L
    BY <1>8, <2>1
  <2>3. L \in 1 .. L /\ i <= L
    BY <1>3, <2>2
  <2>4. QED
    BY <1>3, <1>5, <1>6, <2>2, <2>3
<1>10. ASSUME NEW p \in 1 .. Len(token), NEW q \in 1 .. Len(token), p <= q
       PROVE  token[p][1] <= token[q][1]
  <2>1. PICK i, k : IsPlace(p, i, k, n, TopK)
    BY <1>2, <1>4, PlaceIs
  <2>2. PICK j, m : IsPlace(q, j, m, n, TopK)
    BY <1>2, <1>4, PlaceIs
  <2>3. i <= j
    BY <1>3, <1>10, <2>1, <2>2, PlacesInOrder
  <2>4. /\ token[p][1] = MoeLayers[i] /\ i \in 1 .. L
        /\ token[q][1] = MoeLayers[j] /\ j \in 1 .. L
    BY <1>8, <2>1, <2>2
  <2>5. QED
    BY <1>6, <2>3, <2>4
<1>11. QED
  BY <1>2, <1>9, <1>10

\* Nothing is kept if no element satisfies the condition.
LEMMA KeepNone ==
  ASSUME NEW S, NEW s, s \in Seq(S), NEW K, ToSet(s) \cap K = {}
  PROVE  Keep(s, K) = <<>>
<1> DEFINE kept == Keep(s, K)
<1>1. kept \in Seq(S) /\ ToSet(kept) = {}
  BY KeepSet
<1> HIDE DEF kept
<1>2. Len(kept) \in Nat /\ ~(1 \in 1 .. Len(kept))
  BY <1>1, Elements
<1>3. Len(kept) = 0
  BY <1>2
<1>4. QED
  BY <1>1, <1>3, EmptySeq DEF kept

\* Read layer by layer, a token is the same.
LEMMA ByLayerIs ==
  ASSUME NEW token \in Routed
  PROVE  ByLayer(token, Last(MoeLayers) + 1) = token
<1> DEFINE nL == Last(MoeLayers) + 1
           parts == [j \in 1 .. nL |-> OfLayer(token, j - 1)]
           Below(j) == {key \in ToSet(token) : key[1] < j}
           At(j) == {key \in ToSet(token) : key[1] = j}
<1>1. nL \in Nat
  BY ConstantsAre DEF Last
<1>2. token \in Seq(AllKeys)
  BY DEF Routed
<1>3. /\ \A p \in 1 .. Len(token) : /\ token[p] \in ToSet(token)
                                    /\ token[p][1] \in Nat /\ token[p][1] <= Last(MoeLayers)
      /\ \A p, q \in 1 .. Len(token) : p <= q => token[p][1] <= token[q][1]
      /\ \A key \in ToSet(token) : key[1] \in Nat
  BY <1>2, LayersInOrder, Elements
<1>4. \A j \in 1 .. nL : parts[j] = Keep(token, At(j - 1)) /\ parts[j] \in Seq(AllKeys)
  BY <1>2, KeepSet DEF OfLayer
<1>5. parts \in Seq(Seq(AllKeys)) /\ Len(parts) = nL
  <2> HIDE DEF nL
  <2>1. parts \in [1 .. nL -> Seq(AllKeys)]
    BY <1>4
  <2> HIDE DEF parts
  <2>2. QED
    BY <1>1, <2>1
<1>6. ByLayer(token, nL) = FlattenSeq(parts)
  BY DEF ByLayer
<1> HIDE DEF parts, nL
<1>7. PICK f \in [0 .. Len(parts) -> Seq(AllKeys)] :
        /\ f[0] = <<>>
        /\ \A i \in 1 .. Len(parts) : f[i] = f[i - 1] \o parts[i]
        /\ FlattenSeq(parts) = f[Len(parts)]
  BY <1>5, Flatten
<1> DEFINE P == {j \in 0 .. nL : f[j] = Keep(token, Below(j))}
<1>8. 0 \in P
  <2>1. ToSet(token) \cap Below(0) = {}
    BY <1>3
  <2> HIDE DEF Below
  <2>2. Keep(token, Below(0)) = <<>>
    BY <1>2, <2>1, KeepNone
  <2>3. QED
    BY <1>1, <1>7, <2>2
<1>9. ASSUME NEW j \in 0 .. nL - 1, j \in P PROVE j + 1 \in P
  <2>1. j \in Nat /\ j + 1 \in 1 .. nL /\ j + 1 \in 0 .. nL /\ (j + 1) - 1 = j
    BY <1>1
  <2>2. f[j + 1] = Keep(token, Below(j)) \o Keep(token, At(j))
    BY <1>4, <1>5, <1>7, <1>9, <2>1
  <2>3. \A p \in 1 .. Len(token) : ~(token[p] \in Below(j) /\ token[p] \in At(j))
    BY <1>3, <2>1
  <2>4. \A p, q \in 1 .. Len(token) : token[p] \in At(j) /\ token[q] \in Below(j) => q < p
    <3>1. SUFFICES ASSUME NEW p \in 1 .. Len(token), NEW q \in 1 .. Len(token),
                          token[p][1] = j, token[q][1] < j
                   PROVE  q < p
      OBVIOUS
    <3>2. ~(token[p][1] <= token[q][1])
      BY <2>1, <1>3, <3>1
    <3>3. ~(p <= q)
      BY <1>3, <3>2
    <3>4. Len(token) \in Nat
      BY <1>2
    <3>5. QED
      BY <3>3, <3>4
  <2>5. Below(j) \cup At(j) = Below(j + 1)
    BY <1>3, <2>1
  <2>6. Keep(token, Below(j)) \o Keep(token, At(j)) = Keep(token, Below(j) \cup At(j))
    <3> DEFINE K == Below(j)
               M == At(j)
    <3>1. Split(token, K, M)
      BY <2>3, <2>4 DEF Split
    <3> HIDE DEF K, M
    <3>2. Keep(token, K) \o Keep(token, M) = Keep(token, K \cup M)
      BY <1>2, <3>1, KeepSplit
    <3>3. QED
      BY <3>2 DEF K, M
  <2> HIDE DEF Below, At
  <2>7. QED
    BY <2>1, <2>2, <2>5, <2>6
<1>10. nL \in P
  <2> HIDE DEF P
  <2>1. QED
    BY ONLY <1>1, <1>8, <1>9, UpTo
<1>11. \A p \in 1 .. Len(token) : token[p] \in Below(nL)
  <2>1. Last(MoeLayers) \in Int
    BY ConstantsAre DEF Last
  <2>2. QED
    BY <1>3, <2>1 DEF nL
<1>12. Keep(token, Below(nL)) = token
  <2> HIDE DEF Below
  <2>1. QED
    BY <1>2, <1>11, KeepAll
<1>13. QED
  BY <1>5, <1>6, <1>7, <1>10, <1>12 DEF nL

\* The states of a replay.
RepStates(K) == [cache : Seq(K), hits : Nat, fetches : Nat]

NothingFetched == [cache |-> <<>>, hits |-> 0, fetches |-> 0]

\* A reference of the replay, field by field.
LEMMA ReferIs ==
  ASSUME NEW K, NEW rep \in RepStates(K), NEW key \in K, NEW c \in Nat
  PROVE  LET next == Refer(rep, key, c)
             hit == key \in ToSet(rep.cache)
         IN  /\ next \in RepStates(K)
             /\ next.cache = IF hit THEN MoveToEnd(rep.cache, key) ELSE PopOldest(Append(rep.cache, key), c)
             /\ next.hits = rep.hits + (IF hit THEN 1 ELSE 0)
             /\ next.fetches = rep.fetches + (IF hit THEN 0 ELSE 1)
<1> DEFINE moved == MoveToEnd(rep.cache, key)
           pushed == PopOldest(Append(rep.cache, key), c)
           cache == rep.cache
           h == rep.hits
           m == rep.fetches
<1>1. rep = [cache |-> cache, hits |-> h, fetches |-> m] /\ cache \in Seq(K) /\ h \in Nat /\ m \in Nat
  BY DEF RepStates
<1>2. moved \in Seq(K) /\ pushed \in Seq(K)
  BY <1>1, ListsTyped
<1>3. Refer(rep, key, c) =
        IF key \in ToSet(cache) THEN [rep EXCEPT !.hits = h + 1, !.cache = moved]
        ELSE [rep EXCEPT !.fetches = m + 1, !.cache = pushed]
  BY DEF Refer
<1> HIDE DEF moved, pushed
<1>4. CASE key \in ToSet(cache)
  <2>1. Refer(rep, key, c) = [cache |-> moved, hits |-> h + 1, fetches |-> m]
    <3>1. Refer(rep, key, c) = [rep EXCEPT !.hits = h + 1, !.cache = moved]
      BY <1>3, <1>4
    <3>2. QED
      BY <1>1, <3>1
  <2>2. [cache |-> moved, hits |-> h + 1, fetches |-> m] \in RepStates(K)
    BY <1>1, <1>2 DEF RepStates
  <2>3. QED
    BY <1>1, <1>4, <2>1, <2>2 DEF moved
<1>5. CASE key \notin ToSet(cache)
  <2>1. Refer(rep, key, c) = [cache |-> pushed, hits |-> h, fetches |-> m + 1]
    <3>1. Refer(rep, key, c) = [rep EXCEPT !.fetches = m + 1, !.cache = pushed]
      BY <1>3, <1>5
    <3>2. QED
      BY <1>1, <3>1
  <2>2. [cache |-> pushed, hits |-> h, fetches |-> m + 1] \in RepStates(K)
    BY <1>1, <1>2 DEF RepStates
  <2>3. QED
    BY <1>1, <1>5, <2>1, <2>2 DEF pushed
<1>6. QED
  BY <1>4, <1>5

\* A trace is replayed reference by reference.
Replays(f, K, trace, n_layers, keys, c) ==
  /\ f \in [0 .. Len(keys) -> RepStates(K)]
  /\ f[0] = NothingFetched
  /\ \A n \in 1 .. Len(keys) : f[n] = Refer(f[n - 1], keys[n], c)
  /\ replay(trace, n_layers, c) = f[Len(keys)]

\* The references of a replay.
LayerKeys(trace, n_layers) == FlattenSeq([t \in DOMAIN trace |-> ByLayer(trace[t], n_layers)])

\* The loop of replay does what its equation says.
LEMMA ReplayIsRecursion ==
  ASSUME NEW K, NEW trace, NEW n_layers, NEW c \in Nat, NEW keys, keys \in Seq(K),
         keys = LayerKeys(trace, n_layers)
  PROVE  \E f : Replays(f, K, trace, n_layers, keys, c)
<1> DEFINE N == Len(keys)
           T == RepStates(K)
           E == NothingFetched
           flat == FlattenSeq([t \in DOMAIN trace |-> ByLayer(trace[t], n_layers)])
           step == [i \in 1 .. N |-> [v \in T |-> Refer(v, keys[i], c)]]
           Body(g, i) == IF i = 0 THEN E ELSE Refer(g[i - 1], keys[i], c)
           Rec(g) == g = [i \in 0 .. N |-> Body(g, i)]
           rec == CHOOSE g : Rec(g)
<1>1. replay(trace, n_layers, c) = rec[N]
  <2> DEFINE BodyF(g, i) == IF i = 0 THEN E ELSE Refer(g[i - 1], flat[i], c)
             RecF(g) == g = [i \in 0 .. Len(flat) |-> BodyF(g, i)]
  <2>1. replay(trace, n_layers, c) = (CHOOSE g : RecF(g))[Len(flat)]
    BY Zenon DEF replay, NothingFetched
  <2>2. flat = keys
    BY DEF LayerKeys
  <2> HIDE DEF flat
  <2>3. QED
    BY <2>1, <2>2, ZenonT(30)
<1>2. N \in Nat /\ \A i \in 1 .. N : keys[i] \in K
  OBVIOUS
<1>3. E \in T
  BY DEF NothingFetched, RepStates
<1>4. step \in [1 .. N -> [T -> T]]
  BY <1>2, ReferIs
<1>5. \A i \in 1 .. N : \A v \in T : step[i][v] = Refer(v, keys[i], c)
  OBVIOUS
<1>6. \E f : IsRecursion(f, T, E, N, step)
  <2> HIDE DEF N, T, E, step
  <2>1. QED
    BY ONLY <1>2, <1>3, <1>4, Recursion
<1>7. PICK f : f \in [0 .. N -> T] /\ f[0] = E /\ \A i \in 1 .. N : f[i] = step[i][f[i - 1]]
  BY <1>6, Zenon DEF IsRecursion
<1> HIDE DEF N, T, E, step
<1>8. ASSUME NEW i \in 1 .. N PROVE f[i] = Refer(f[i - 1], keys[i], c)
  <2>1. i - 1 \in 0 .. N
    BY <1>2
  <2>2. f[i - 1] \in T
    BY <1>7, <2>1
  <2>3. QED
    BY <1>5, <1>7, <2>2
<1>9. Rec(f)
  <2>1. ASSUME NEW i \in 0 .. N PROVE f[i] = Body(f, i)
    <3>1. CASE i = 0
      BY <1>7, <3>1
    <3>2. CASE i # 0
      <4>1. i \in 1 .. N
        BY <1>2, <3>2
      <4>2. QED
        BY <1>8, <3>2, <4>1
    <3>3. QED
      BY <3>1, <3>2
  <2> HIDE DEF Body
  <2>2. QED
    BY <1>7, <2>1
<1>10. Rec(rec)
  BY <1>9, Zenon
<1>11. ASSUME NEW i \in 0 .. N PROVE rec[i] = Body(rec, i)
  <2> DEFINE again == [j \in 0 .. N |-> Body(rec, j)]
  <2>1. rec = again
    BY <1>10, Zenon
  <2>2. again[i] = Body(rec, i)
    BY Zenon
  <2>3. QED
    BY <2>1, <2>2, Zenon
<1> HIDE DEF rec
<1> DEFINE P == {n \in 0 .. N : rec[n] = f[n]}
<1>12. 0 \in P
  BY <1>2, <1>7, <1>11
<1>13. ASSUME NEW n \in 0 .. N - 1, n \in P PROVE n + 1 \in P
  <2>1. n + 1 \in 1 .. N /\ n + 1 \in 0 .. N /\ n + 1 # 0 /\ (n + 1) - 1 = n
    BY <1>2
  <2>2. /\ rec[n + 1] = Refer(rec[n], keys[n + 1], c)
        /\ f[n + 1] = Refer(f[n], keys[n + 1], c)
    BY <1>8, <1>11, <2>1
  <2>3. QED
    BY <1>13, <2>1, <2>2
<1>14. N \in P
  <2> HIDE DEF P
  <2>1. QED
    BY ONLY <1>2, <1>12, <1>13, UpTo
<1>15. replay(trace, n_layers, c) = f[N]
  BY <1>1, <1>14
<1>16. Replays(f, K, trace, n_layers, keys, c)
  BY <1>7, <1>8, <1>15 DEF Replays, N, T, E
<1>17. QED
  BY <1>16

\* Without a warm-up every reference counts.
LEMMA NoWarmup ==
  ASSUME NEW K, NEW trace, trace \in Seq(Seq(K))
  PROVE  WarmupOf(trace, 0) = 0
<1> DEFINE T == {0, Len(trace)}
           none == SubSeq(trace, 1, 0)
<1>1. T \in SUBSET Nat /\ T # {} /\ 0 \in T
  OBVIOUS
<1> HIDE DEF T
<1>2. Min(T) \in Nat /\ Min(T) <= 0
  BY <1>1, MinIs
<1>3. Min(T) = 0
  BY <1>2
<1>4. none \in Seq(Seq(K)) /\ Len(none) = 0
  OBVIOUS
<1> HIDE DEF none
<1>5. PICK f \in [0 .. Len(none) -> Seq(K)] : f[0] = <<>> /\ FlattenSeq(none) = f[Len(none)]
  BY <1>4, Flatten
<1>6. FlattenSeq(none) = <<>>
  BY <1>4, <1>5
<1>7. WarmupOf(trace, 0) = Len(FlattenSeq(SubSeq(trace, 1, Min(T))))
  BY DEF WarmupOf, T
<1>8. QED
  BY <1>3, <1>6, <1>7 DEF none

\* The layers one after the other are the token, for each token of a trace.
LEMMA TraceByLayer ==
  ASSUME NEW trace, trace \in Seq(Routed)
  PROVE  [t \in DOMAIN trace |-> ByLayer(trace[t], Last(MoeLayers) + 1)] = trace
<1> DEFINE nL == Last(MoeLayers) + 1
           again == [t \in DOMAIN trace |-> ByLayer(trace[t], nL)]
<1>1. \A t \in DOMAIN trace : trace[t] \in Routed
  OBVIOUS
<1>2. \A t \in DOMAIN trace : ByLayer(trace[t], nL) = trace[t]
  BY <1>1, ByLayerIs
<1>3. again = [t \in DOMAIN trace |-> trace[t]]
  <2> HIDE DEF nL
  <2>1. QED
    BY <1>2
<1>4. trace = [t \in DOMAIN trace |-> trace[t]]
  OBVIOUS
<1>5. QED
  BY <1>3, <1>4

\* A token is a sequence of keys.
LEMMA RoutedKeys ==
  ASSUME NEW trace, trace \in Seq(Routed)
  PROVE  trace \in Seq(Seq(AllKeys))
<1>1. \A i \in 1 .. Len(trace) : trace[i] \in Seq(AllKeys)
  BY DEF Routed
<1>2. QED
  BY <1>1, Retyped

\* The two loops, reference by reference.
LEMMA LoopsAgree ==
  ASSUME NEW trace, trace \in Seq(Routed), NEW c \in Nat
  PROVE  LET sim == simulate_lru(trace, c, {}, 0)
             rep == replay(trace, Last(MoeLayers) + 1, c)
         IN  /\ sim.hits = rep.hits /\ sim.accesses = rep.hits + rep.fetches
             /\ sim.lru = rep.cache
<1> DEFINE K == AllKeys
           keys == FlattenSeq(trace)
           N == Len(keys)
           nL == Last(MoeLayers) + 1
<1>1. trace \in Seq(Seq(K)) /\ keys \in Seq(K)
  BY RoutedKeys, FlattenElements
<1>2. keys = LayerKeys(trace, nL)
  BY TraceByLayer DEF LayerKeys
<1>3. IsFiniteSet({}) /\ Cardinality({}) = 0
  BY FS_EmptySet
<1>4. LruCapacity(c, {}) = c
  <2>1. LruCapacity(c, {}) = c - 0
    BY <1>3, CapacityIs
  <2>2. QED
    BY <2>1
<1> HIDE DEF K, nL
<1>5. PICK f : Sims(f, K, trace, c, {}, 0)
  BY <1>1, <1>3, SimIsRecursion
<1>6. /\ f \in [0 .. N -> SimStates(K)] /\ f[0] = NoneSeen
      /\ \A n \in 1 .. N : f[n] = Access(f[n - 1], keys[n], c, {}, n > 0)
      /\ simulate_lru(trace, c, {}, 0) = f[N]
  BY <1>1, <1>4, <1>5, NoWarmup DEF Sims
<1>7. \A n \in 0 .. N : Fits(f[n].lru, K, c, {})
  BY <1>1, <1>3, <1>4, <1>5, SimFits
<1> HIDE DEF keys
<1>8. PICK g : Replays(g, K, trace, nL, keys, c)
  BY <1>1, <1>2, ReplayIsRecursion
<1>9. /\ g \in [0 .. N -> RepStates(K)] /\ g[0] = NothingFetched
      /\ \A n \in 1 .. N : g[n] = Refer(g[n - 1], keys[n], c)
      /\ replay(trace, nL, c) = g[N]
  BY <1>8 DEF Replays
<1>10. N \in Nat /\ \A n \in 1 .. N : keys[n] \in K
  BY <1>1
<1> DEFINE P == {n \in 0 .. N : /\ f[n].lru = g[n].cache /\ f[n].hits = g[n].hits
                                /\ f[n].accesses = g[n].hits + g[n].fetches}
<1>11. 0 \in P
  BY <1>6, <1>9, <1>10 DEF NoneSeen, NothingFetched
<1>12. ASSUME NEW n \in 0 .. N - 1, n \in P PROVE n + 1 \in P
  <2> DEFINE key == keys[n + 1]
             s == f[n]
             r == g[n]
             s2 == f[n + 1]
             r2 == g[n + 1]
             counting == n + 1 > 0
             pushed == PopOldest(Append(s.lru, key), c)
  <2>1. n \in 0 .. N /\ n + 1 \in 1 .. N /\ n + 1 \in 0 .. N /\ (n + 1) - 1 = n /\ n + 1 > 0
    BY <1>10
  <2>2. s2 = Access(s, key, c, {}, counting) /\ r2 = Refer(r, key, c) /\ key \in K /\ counting
    BY <1>6, <1>9, <1>10, <2>1
  <2>3. /\ Fits(s.lru, K, c, {}) /\ s.lru = r.cache /\ s.hits = r.hits /\ s.accesses = r.hits + r.fetches
        /\ s \in SimStates(K) /\ r \in RepStates(K)
    BY <1>6, <1>7, <1>9, <1>12, <2>1
  <2>4. r.hits \in Nat /\ r.fetches \in Nat
    BY <2>3 DEF RepStates
  <2> HIDE DEF key, s, r, s2, r2, counting
  <2>5. /\ s2.lru = Used(s.lru, key, c)
        /\ s2.accesses = s.accesses + 1
        /\ s2.hits = s.hits + (IF key \in ToSet(s.lru) THEN 1 ELSE 0)
    <3>1. counting \in BOOLEAN
      BY <2>2
    <3>2. LET next == Access(s, key, c, {}, counting)
              hit == key \in {} \/ key \in ToSet(s.lru)
          IN  /\ next.lru = IF key \in {} THEN s.lru ELSE Used(s.lru, key, c)
              /\ next.accesses = s.accesses + (IF counting THEN 1 ELSE 0)
              /\ next.hits = s.hits + (IF counting /\ hit THEN 1 ELSE 0)
      BY <3>1, AccessIs
    <3>3. QED
      BY <2>2, <3>2
  <2>6. LET next == Refer(r, key, c)
            hit == key \in ToSet(r.cache)
        IN  /\ next.cache = IF hit THEN MoveToEnd(r.cache, key) ELSE PopOldest(Append(r.cache, key), c)
            /\ next.hits = r.hits + (IF hit THEN 1 ELSE 0)
            /\ next.fetches = r.fetches + (IF hit THEN 0 ELSE 1)
    <3>1. r \in RepStates(K) /\ key \in K /\ c \in Nat
      BY <2>2, <2>3
    <3>2. QED
      BY ONLY <3>1, ReferIs
  <2>7. r2.cache = IF key \in ToSet(s.lru) THEN MoveToEnd(s.lru, key) ELSE pushed
    BY <2>2, <2>3, <2>6
  <2>8. s2.lru = r2.cache
    <3>1. CASE key \in ToSet(s.lru)
      BY <2>5, <2>7, <3>1 DEF Used
    <3>2. CASE key \notin ToSet(s.lru) /\ c > 0
      BY <2>5, <2>7, <3>2 DEF Used
    <3>3. CASE key \notin ToSet(s.lru) /\ c = 0
      <4>1. s.lru \in Seq(K) /\ Len(s.lru) <= 0
        BY <2>3, <3>3 DEF Fits
      <4>2. s.lru = <<>>
        BY <4>1
      <4>3. pushed = <<>>
        BY <2>2, <3>3, <4>2 DEF PopOldest
      <4>4. s2.lru = <<>>
        BY <2>5, <3>3, <4>2 DEF Used
      <4>5. QED
        BY <2>7, <3>3, <4>3, <4>4
    <3>4. QED
      BY <3>1, <3>2, <3>3
  <2>9. s2.hits = r2.hits /\ s2.accesses = r2.hits + r2.fetches
    <3>1. /\ r2.hits = r.hits + (IF key \in ToSet(s.lru) THEN 1 ELSE 0)
          /\ r2.fetches = r.fetches + (IF key \in ToSet(s.lru) THEN 0 ELSE 1)
      BY <2>2, <2>3, <2>6
    <3> DEFINE hit == key \in ToSet(s.lru)
               h == r.hits
               m == r.fetches
    <3> HIDE DEF hit
    <3>2. /\ r2.hits = h + (IF hit THEN 1 ELSE 0) /\ r2.fetches = m + (IF hit THEN 0 ELSE 1)
          /\ s2.hits = h + (IF hit THEN 1 ELSE 0) /\ s2.accesses = h + m + 1
          /\ h \in Nat /\ m \in Nat
      BY <2>3, <2>4, <2>5, <3>1 DEF hit
    <3> HIDE DEF h, m
    <3>3. QED
      BY <3>2
  <2>10. QED
    BY <2>1, <2>8, <2>9 DEF s2, r2
<1>13. N \in P
  <2> HIDE DEF P, N
  <2>1. QED
    BY ONLY <1>10, <1>11, <1>12, UpTo
<1>14. QED
  BY <1>6, <1>9, <1>13 DEF nL

\* The replay of analyze_lookahead.py and simulate_lru of cache_sim.py report the same hits,
\* and end with the same cache, at every capacity (analyze_lookahead.py:115-149 against
\* cache_sim.py:30-64).
THEOREM SimulatorsCorrect == Spec => []SimulatorsAgree
<1>1. ASSUME TraceInv PROVE SimulatorsAgree
  <2> DEFINE trace == Trace
  <2>1. trace \in Seq(Routed)
    BY <1>1, TracesRouted
  <2> HIDE DEF trace
  <2>2. ASSUME NEW c \in Capacities
        PROVE  LET sim == simulate_lru(trace, c, {}, 0)
                   rep == replay(trace, Last(MoeLayers) + 1, c)
               IN  /\ sim.hits = rep.hits /\ sim.accesses = rep.hits + rep.fetches
                   /\ sim.lru = rep.cache
    <3>1. c \in Nat
      BY CapacitiesAre
    <3>2. QED
      BY <2>1, <3>1, LoopsAgree
  <2>3. QED
    BY <2>2 DEF SimulatorsAgree, trace
<1>2. QED
  BY <1>1, StepsCorrect, PTL

-----------------------------------------------------------------------------
(* The pinned keys.                                                        *)

\* A sequence has finitely many different elements.
LEMMA FiniteElements ==
  ASSUME NEW S, NEW s, s \in Seq(S)
  PROVE  IsFiniteSet(ToSet(s))
<1> DEFINE n == Len(s)
           T == ToSet(s)
<1>1. n \in Nat /\ DOMAIN s = 1 .. n /\ (\A i \in 1 .. n : s[i] \in T)
      /\ (\A x \in T : \E i \in 1 .. n : s[i] = x) /\ s = [i \in 1 .. n |-> s[i]]
  BY Elements
<1> HIDE DEF n, T
<1>2. s \in Surjection(1 .. n, T)
  BY <1>1 DEF Surjection
<1>3. IsFiniteSet(1 .. n)
  BY <1>1, FS_Interval
<1>4. QED
  BY <1>2, <1>3, FS_Surjection DEF T

\* The pinned keys are in the trace, and take at most half of the capacity.
LEMMA PinsAre ==
  ASSUME NEW K, NEW trace, trace \in Seq(Seq(K)), NEW c \in Nat, NEW pins \in Pins(trace, c)
  PROVE  /\ Touched(trace) = ToSet(FlattenSeq(trace)) /\ IsFiniteSet(Touched(trace))
         /\ pins \subseteq Touched(trace) /\ IsFiniteSet(pins) /\ Cardinality(pins) <= c
<1> DEFINE keys == FlattenSeq(trace)
           all == Touched(trace)
           half == c \div 2
           T == {half, Cardinality(all)}
<1>1. keys \in Seq(K) /\ ToSet(keys) = all
  BY FlattenElements DEF Touched
<1>2. IsFiniteSet(all)
  BY <1>1, FiniteElements
<1>3. pins \subseteq all /\ Cardinality(pins) = Min(T)
  BY DEF Pins, hottest_experts
<1> HIDE DEF all, keys
<1>4. half \in Nat /\ half <= c
  BY NatDivision, Division
<1> HIDE DEF half
<1>5. T \in SUBSET Nat /\ T # {} /\ half \in T
  BY <1>2, <1>4, FS_CardinalityType
<1> HIDE DEF T
<1>6. Min(T) \in Nat /\ Min(T) <= half
  BY <1>5, MinIs
<1>7. IsFiniteSet(pins)
  BY <1>2, <1>3, FS_Subset
<1>8. QED
  BY <1>1, <1>2, <1>3, <1>4, <1>6, <1>7 DEF all, keys

\* A key that is put in, when the LRU has room for all the keys there are.
LEMMA PushRoom ==
  ASSUME NEW K, NEW c \in Nat, NEW pins, NEW lru, Fits(lru, K, c, pins), NEW key \in K, key \notin ToSet(lru),
         NEW all, IsFiniteSet(all), Cardinality(all) <= c, ToSet(lru) \subseteq all, key \in all
  PROVE  /\ Len(Used(lru, key, c)) = Len(lru) + 1
         /\ ToSet(Used(lru, key, c)) = ToSet(lru) \cup {key}
<1> DEFINE S == ToSet(lru)
           n == Len(lru)
<1>1. lru \in Seq(K) /\ Distinct(lru) /\ n <= c /\ n \in Nat
  BY DEF Fits
<1>2. IsFiniteSet(S) /\ Cardinality(S) = n
  BY <1>1, DistinctCount
<1> HIDE DEF S, n
<1>3. Cardinality(S \cup {key}) = n + 1 /\ IsFiniteSet(S \cup {key})
  BY <1>2, FS_AddElement DEF S
<1>4. S \cup {key} \in SUBSET all
  BY DEF S
<1>5. n + 1 <= Cardinality(all) /\ Cardinality(all) \in Nat
  BY <1>3, <1>4, FS_Subset, FS_CardinalityType
<1>6. n < c /\ c > 0
  BY <1>1, <1>5
<1>7. LET new == PopOldest(Append(lru, key), c)
      IN  Len(lru) < c => new = Append(lru, key) /\ Len(new) = Len(lru) + 1
                          /\ ToSet(new) = ToSet(lru) \cup {key}
  BY <1>1, <1>6, PushKeeps DEF n
<1>8. QED
  BY <1>6, <1>7 DEF Used, n

\* A reference is counted, and hits or not.
LEMMA Counted ==
  ASSUME NEW a \in Nat, NEW h \in Nat, NEW n \in Nat, a - h = n
  PROVE  (a + 1) - (h + 1) = n /\ (a + 1) - h = n + 1
OBVIOUS

\* What the policies hold, and what they hit.
LEMMA PolicyFits ==
  ASSUME NEW K, NEW trace, trace \in Seq(Seq(K)), NEW c \in Nat, NEW pins \in Pins(trace, c)
  PROVE  LET sim == simulate_lru(trace, c, pins, 0)
         IN  /\ Cardinality(pins) + Len(sim.lru) <= c
             /\ ToSet(sim.lru) \cap pins = {}
             /\ sim.hits >= Len(Keep(FlattenSeq(trace), pins))
             /\ Cardinality(Touched(trace)) <= c =>
                  sim.accesses - sim.hits = Cardinality(Touched(trace) \ pins)
<1> DEFINE keys == FlattenSeq(trace)
           N == Len(keys)
           all == Touched(trace)
           free == all \ pins
           room == LruCapacity(c, pins)
<1>1. /\ all = ToSet(keys) /\ IsFiniteSet(all) /\ pins \subseteq all
      /\ IsFiniteSet(pins) /\ Cardinality(pins) <= c
  BY PinsAre
<1>2. keys \in Seq(K)
  BY FlattenElements
<1>3. room \in Nat /\ room = c - Cardinality(pins) /\ Cardinality(pins) \in Nat
  BY <1>1, CapacityIs
<1>4. PICK f : Sims(f, K, trace, c, pins, 0)
  BY <1>1, SimIsRecursion
<1>5. /\ f \in [0 .. N -> SimStates(K)] /\ f[0] = NoneSeen
      /\ \A n \in 1 .. N : f[n] = Access(f[n - 1], keys[n], room, pins, n > 0)
      /\ simulate_lru(trace, c, pins, 0) = f[N]
  BY <1>4, NoWarmup DEF Sims
<1>6. \A n \in 0 .. N : Fits(f[n].lru, K, room, pins)
  BY <1>1, <1>4, SimFits
<1> HIDE DEF keys, room, all
<1>7. PICK g : Keeps(g, K, keys, pins)
  BY <1>2, KeepIsRecursion
<1>8. /\ g \in [0 .. N -> Seq(K)] /\ g[0] = <<>>
      /\ \A n \in 1 .. N : g[n] = IF keys[n] \in pins THEN Append(g[n - 1], keys[n]) ELSE g[n - 1]
      /\ Keep(keys, pins) = g[N]
  BY <1>7 DEF Keeps
<1>9. N \in Nat /\ \A n \in 1 .. N : keys[n] \in K /\ keys[n] \in all
  BY <1>1, <1>2, Elements
<1>10. IsFiniteSet(free) /\ Cardinality(free) = Cardinality(all) - Cardinality(pins)
  <2>1. all \cap pins = pins
    BY <1>1
  <2>2. IsFiniteSet(all \ pins) /\ Cardinality(all \ pins) = Cardinality(all) - Cardinality(all \cap pins)
    BY ONLY <1>1, FS_Difference
  <2>3. QED
    BY <2>1, <2>2
<1> DEFINE Small == Cardinality(all) <= c
           Seen(n) == {keys[i] : i \in 1 .. n}
           P == {n \in 0 .. N : /\ f[n].hits >= Len(g[n])
                                /\ Small => /\ f[n].accesses - f[n].hits = Len(f[n].lru)
                                            /\ ToSet(f[n].lru) = Seen(n) \ pins}
<1>11. 0 \in P
  <2>1. f[0].lru = <<>> /\ f[0].accesses = 0 /\ f[0].hits = 0 /\ Len(g[0]) = 0
    BY <1>5, <1>8 DEF NoneSeen
  <2>2. ToSet(<<>>) = {}
    BY DEF ToSet
  <2>3. Seen(0) = {}
    OBVIOUS
  <2> HIDE DEF Seen
  <2>4. QED
    BY <1>9, <2>1, <2>2, <2>3
<1>12. ASSUME NEW n \in 0 .. N - 1, n \in P PROVE n + 1 \in P
  <2> DEFINE key == keys[n + 1]
             s == f[n]
             s2 == f[n + 1]
             k == g[n]
             k2 == g[n + 1]
             counting == n + 1 > 0
             hit == key \in pins \/ key \in ToSet(s.lru)
  <2>1. n \in 0 .. N /\ n + 1 \in 1 .. N /\ n + 1 \in 0 .. N /\ (n + 1) - 1 = n /\ n + 1 > 0 /\ n \in Nat
    BY <1>9
  <2>2. /\ s2 = Access(s, key, room, pins, counting) /\ key \in K /\ key \in all /\ counting
        /\ k2 = IF key \in pins THEN Append(k, key) ELSE k
    BY <1>5, <1>8, <1>9, <2>1
  <2>3. /\ Fits(s.lru, K, room, pins) /\ s \in SimStates(K) /\ k \in Seq(K)
        /\ s.hits >= Len(k)
        /\ Small => s.accesses - s.hits = Len(s.lru) /\ ToSet(s.lru) = Seen(n) \ pins
    BY <1>5, <1>6, <1>8, <1>12, <2>1
  <2>4. Seen(n + 1) = Seen(n) \cup {key}
    <3>1. \A i : i \in 1 .. n + 1 <=> i \in 1 .. n \/ i = n + 1
      BY <2>1
    <3>2. QED
      BY <3>1
  <2>5. Seen(n) \subseteq all
    BY <1>9, <2>1
  <2> HIDE DEF key, s, s2, k, k2, counting, Seen
  <2>6. /\ s2.lru = IF key \in pins THEN s.lru ELSE Used(s.lru, key, room)
        /\ s2.accesses = s.accesses + 1
        /\ s2.hits = s.hits + (IF hit THEN 1 ELSE 0)
    <3>1. counting \in BOOLEAN
      BY <2>2
    <3>2. LET next == Access(s, key, room, pins, counting)
              h == key \in pins \/ key \in ToSet(s.lru)
          IN  /\ next.lru = IF key \in pins THEN s.lru ELSE Used(s.lru, key, room)
              /\ next.accesses = s.accesses + (IF counting THEN 1 ELSE 0)
              /\ next.hits = s.hits + (IF counting /\ h THEN 1 ELSE 0)
      BY <3>1, AccessIs
    <3>3. QED
      BY <2>2, <3>2
  <2>7. s.hits \in Nat /\ s.accesses \in Nat /\ Len(k) \in Nat /\ Len(s.lru) \in Nat
    BY <2>3 DEF SimStates
  <2> DEFINE a == s.accesses
             h == s.hits
             m == Len(s.lru)
  <2>8. /\ s2.accesses = a + 1 /\ a \in Nat /\ h \in Nat /\ m \in Nat
        /\ hit => s2.hits = h + 1
        /\ ~hit => s2.hits = h
    <3> HIDE DEF hit
    <3>1. s2.accesses = a + 1 /\ s2.hits = h + (IF hit THEN 1 ELSE 0) /\ a \in Nat /\ h \in Nat /\ m \in Nat
      BY <2>6, <2>7 DEF hit
    <3> HIDE DEF a, h
    <3>2. QED
      BY <3>1
  <2>9. s2.hits >= Len(k2)
    <3>1. CASE key \in pins
      <4>1. Len(k2) = Len(k) + 1
        BY <2>2, <2>3, <3>1
      <4>2. QED
        BY <2>3, <2>7, <2>8, <3>1, <4>1
    <3>2. CASE key \notin pins
      <4>1. k2 = k /\ (s2.hits = h \/ s2.hits = h + 1) /\ h >= Len(k)
        BY <2>2, <2>3, <2>8, <3>2
      <4> HIDE DEF h
      <4>2. QED
        BY <2>7, <2>8, <4>1
    <3>3. QED
      BY <3>1, <3>2
  <2>10. ASSUME Small
         PROVE  s2.accesses - s2.hits = Len(s2.lru) /\ ToSet(s2.lru) = Seen(n + 1) \ pins
    <3>1. a - h = m /\ ToSet(s.lru) = Seen(n) \ pins
      BY <2>3, <2>10
    <3>2. (a + 1) - (h + 1) = m /\ (a + 1) - h = m + 1
      <4> HIDE DEF a, h, m
      <4>1. QED
        BY <2>8, <3>1, Counted
    <3>3. CASE key \in pins
      <4>1. s2.hits = h + 1 /\ s2.lru = s.lru
        BY <2>6, <2>8, <3>3
      <4>2. s2.accesses - s2.hits = Len(s2.lru)
        <5>1. s2.accesses - s2.hits = (a + 1) - (h + 1)
          BY <2>8, <4>1
        <5>2. QED
          BY <3>2, <4>1, <5>1
      <4>3. Seen(n + 1) \ pins = Seen(n) \ pins
        BY <2>4, <3>3
      <4>4. QED
        BY <3>1, <4>1, <4>2, <4>3
    <3>4. CASE key \notin pins /\ key \in ToSet(s.lru)
      <4> DEFINE new == MoveToEnd(s.lru, key)
      <4>1. s2.lru = new
        BY <2>6, <3>4 DEF Used
      <4>2. Len(new) = Len(s.lru) /\ ToSet(new) = ToSet(s.lru)
        BY <2>3, <3>4, MoveKeeps DEF Fits
      <4> HIDE DEF new
      <4>3. s2.hits = h + 1
        BY <2>8, <3>4
      <4>4. s2.accesses - s2.hits = (a + 1) - (h + 1)
        BY <2>8, <4>3
      <4>5. Seen(n + 1) \ pins = Seen(n) \ pins
        BY <2>4, <3>1, <3>4
      <4>6. QED
        BY <3>1, <3>2, <4>1, <4>2, <4>5, <4>4
    <3>5. CASE key \notin pins /\ key \notin ToSet(s.lru)
      <4> DEFINE new == Used(s.lru, key, room)
      <4>1. s2.lru = new /\ s2.hits = s.hits
        BY <2>6, <2>7, <3>5
      <4>2. Cardinality(free) <= room
        BY <1>1, <1>3, <1>10, <2>10, FS_CardinalityType
      <4>3. ToSet(s.lru) \subseteq free /\ key \in free
        BY <2>2, <2>5, <3>1, <3>5
      <4> HIDE DEF free
      <4>4. Len(new) = Len(s.lru) + 1 /\ ToSet(new) = ToSet(s.lru) \cup {key}
        BY <1>3, <1>10, <2>2, <2>3, <3>5, <4>2, <4>3, PushRoom
      <4> HIDE DEF new
      <4>5. ToSet(new) = Seen(n + 1) \ pins
        BY <2>4, <3>1, <3>5, <4>4
      <4>6. s2.accesses - s2.hits = (a + 1) - h
        BY <2>8, <4>1
      <4>7. s2.accesses - s2.hits = Len(new)
        BY <3>2, <4>4, <4>6
      <4>8. QED
        BY <4>1, <4>5, <4>7
    <3>6. QED
      BY <3>3, <3>4, <3>5
  <2>11. QED
    BY <2>1, <2>9, <2>10 DEF s2, k2
<1>13. N \in P
  <2> HIDE DEF P, N
  <2>1. QED
    BY ONLY <1>9, <1>11, <1>12, UpTo
<1> DEFINE sim == simulate_lru(trace, c, pins, 0)
<1>14. sim = f[N] /\ Fits(sim.lru, K, room, pins) /\ N \in 0 .. N
  BY <1>5, <1>6, <1>9
<1>15. /\ sim.hits >= Len(Keep(keys, pins))
       /\ Small => sim.accesses - sim.hits = Len(sim.lru) /\ ToSet(sim.lru) = Seen(N) \ pins
  BY <1>8, <1>13, <1>14
<1>16. Seen(N) = all
  BY <1>1, <1>2, Elements
<1> HIDE DEF sim, Seen
<1>17. Len(sim.lru) \in Nat /\ Len(sim.lru) <= room /\ ToSet(sim.lru) \cap pins = {}
       /\ Len(sim.lru) = Cardinality(ToSet(sim.lru))
  BY <1>14, DistinctCount DEF Fits
<1>18. Cardinality(pins) + Len(sim.lru) <= c
  BY <1>3, <1>17
<1>19. Small => sim.accesses - sim.hits = Cardinality(all \ pins)
  BY <1>15, <1>16, <1>17
<1>20. QED
  BY <1>15, <1>17, <1>18, <1>19 DEF sim, keys, all

\* No policy of run_sim.report uses more than its budget, at any capacity: pinned keys and
\* LRU fit it together and are apart (cache_sim.py:41), a pinned key hits from the start,
\* and a cache with room for all keys misses each of the others once.
THEOREM PoliciesCorrect == Spec => []PoliciesFitTheirBudget
<1>1. ASSUME TraceInv PROVE PoliciesFitTheirBudget
  <2> DEFINE trace == Trace
  <2>1. trace \in Seq(Seq(AllKeys))
    BY <1>1, TracesRouted, RoutedKeys
  <2> HIDE DEF trace
  <2>2. ASSUME NEW c \in Capacities, NEW pins \in Pins(trace, c)
        PROVE  LET sim == simulate_lru(trace, c, pins, 0)
               IN  /\ Cardinality(pins) + Len(sim.lru) <= c
                   /\ ToSet(sim.lru) \cap pins = {}
                   /\ sim.hits >= Len(Keep(FlattenSeq(trace), pins))
                   /\ Cardinality(Touched(trace)) <= c =>
                        sim.accesses - sim.hits = Cardinality(Touched(trace) \ pins)
    <3>1. c \in Nat
      BY CapacitiesAre
    <3>2. QED
      BY <2>1, <3>1, PolicyFits
  <2>3. QED
    BY <2>2 DEF PoliciesFitTheirBudget, trace
<1>2. QED
  BY <1>1, StepsCorrect, PTL

-----------------------------------------------------------------------------
(* Below the thrash cliff.                                                 *)

\* The keys of a token that passed every layer.
TokenSize == Len(MoeLayers) * TopK

\* Where the keys of full tokens are in the list of references.
LEMMA ReferencesAre ==
  ASSUME NEW trace, trace \in Seq(Routed), \A token \in ToSet(trace) : Len(token) = TokenSize
  PROVE  /\ FlattenSeq(trace) \in Seq(AllKeys)
         /\ \A p \in 1 .. Len(FlattenSeq(trace)) :
              \E t, r : IsPlace(p, t, r, Len(trace), TokenSize) /\ FlattenSeq(trace)[p] = trace[t][r]
<1> DEFINE W == TokenSize
           n == Len(trace)
           keys == FlattenSeq(trace)
           at == [t \in 0 .. n |-> t * W]
<1>1. W \in Nat \ {0}
  <2>1. Len(MoeLayers) \in Nat \ {0} /\ TopK \in Nat \ {0}
    BY ConstantsAre
  <2>2. QED
    BY <2>1 DEF TokenSize
<1>2. trace \in Seq(Seq(AllKeys)) /\ n \in Nat
  BY RoutedKeys
<1>3. \A t \in 1 .. n : Len(trace[t]) = W
  BY <1>2, Elements
<1> HIDE DEF W
<1>4. Places(at, trace)
  <2>1. at \in [0 .. n -> Nat]
    BY <1>1, <1>2
  <2>2. at[0] = 0
    BY <1>1, <1>2
  <2>3. ASSUME NEW t \in 1 .. n PROVE at[t] = at[t - 1] + Len(trace[t])
    <3>1. t \in 0 .. n /\ t - 1 \in 0 .. n
      BY <1>2
    <3>2. at[t] = t * W /\ at[t - 1] = (t - 1) * W
      BY <3>1
    <3>3. t * W = (t - 1) * W + W
      BY <1>1, <1>2
    <3>4. QED
      BY <1>3, <3>2, <3>3
  <2> HIDE DEF at
  <2>4. QED
    BY <2>1, <2>2, <2>3 DEF Places
<1>5. at[n] = n * W /\ \A t \in 1 .. n : at[t - 1] = (t - 1) * W
  BY <1>2
<1> HIDE DEF at
<1>6. /\ keys \in Seq(AllKeys) /\ Len(keys) = at[n]
      /\ \A t \in 1 .. n : \A r \in 1 .. Len(trace[t]) : keys[at[t - 1] + r] = trace[t][r]
  BY <1>2, <1>4, FlattenParts
<1> HIDE DEF n, keys
<1>7. ASSUME NEW p \in 1 .. Len(keys)
      PROVE  \E t, r : IsPlace(p, t, r, n, W) /\ keys[p] = trace[t][r]
  <2>1. PICK t, r : IsPlace(p, t, r, n, W)
    BY <1>1, <1>2, <1>5, <1>6, PlaceIs DEF n
  <2>2. t \in 1 .. n /\ r \in 1 .. W /\ p = (t - 1) * W + r
    BY <2>1 DEF IsPlace
  <2>3. p = at[t - 1] + r
    BY <1>5, <2>2, Zenon
  <2>4. keys[at[t - 1] + r] = trace[t][r]
    BY <1>3, <1>6, <2>2
  <2>5. QED
    BY <2>1, <2>3, <2>4, Zenon
<1>8. QED
  BY <1>6, <1>7 DEF W, n, keys

\* A full token has blocks of all layers.
LEMMA FullToken ==
  ASSUME NEW token \in Routed, Len(token) = TokenSize
  PROVE  Blocks(token, Len(MoeLayers))
<1>1. PICK n \in 1 .. Len(MoeLayers) : Blocks(token, n)
  BY DEF Routed
<1>2. n * TopK = Len(MoeLayers) * TopK
  BY <1>1 DEF Blocks, TokenSize
<1>3. n \in Nat /\ Len(MoeLayers) \in Nat /\ n <= Len(MoeLayers) /\ TopK \in Nat /\ TopK > 0
  BY ConstantsAre
<1>4. n = Len(MoeLayers)
  <2> DEFINE d == Len(MoeLayers) - n
  <2>1. d \in Nat /\ Len(MoeLayers) = n + d
    BY <1>3
  <2>2. d * TopK = 0
    <3>1. (n + d) * TopK = n * TopK + d * TopK /\ n * TopK \in Nat /\ d * TopK \in Nat
      BY <1>3, <2>1
    <3>2. QED
      BY <1>2, <2>1, <3>1
  <2> HIDE DEF d
  <2>3. d = 0
    BY <1>3, <2>1, <2>2
  <2>4. QED
    BY <1>3, <2>1, <2>3
<1>5. QED
  BY <1>1, <1>4

\* Two references to one key are further apart than the other layers' keys of a token.
LEMMA FarApart ==
  ASSUME NEW trace, trace \in Seq(Routed), \A token \in ToSet(trace) : Len(token) = TokenSize,
         NEW p \in 1 .. Len(FlattenSeq(trace)), NEW q \in 1 .. Len(FlattenSeq(trace)), p < q,
         FlattenSeq(trace)[p] = FlattenSeq(trace)[q]
  PROVE  q - p > TokenSize - TopK
<1> DEFINE L == Len(MoeLayers)
           W == TokenSize
           n == Len(trace)
           keys == FlattenSeq(trace)
<1>1. PICK t, r : IsPlace(p, t, r, n, W) /\ keys[p] = trace[t][r]
  BY ReferencesAre
<1>2. PICK u, s : IsPlace(q, u, s, n, W) /\ keys[q] = trace[u][s]
  BY ReferencesAre
<1>3. L \in Nat /\ L > 1 /\ TopK \in Nat /\ TopK > 0 /\ W = L * TopK /\ n \in Nat
  BY ConstantsAre DEF TokenSize
<1>4. /\ t \in 1 .. n /\ r \in 1 .. W /\ p = (t - 1) * W + r
      /\ u \in 1 .. n /\ s \in 1 .. W /\ q = (u - 1) * W + s
  BY <1>1, <1>2 DEF IsPlace
<1>5. trace[t][r] = trace[u][s]
  BY <1>1, <1>2
<1>6. Blocks(trace[t], L) /\ Blocks(trace[u], L)
  <2>1. /\ trace[t] \in Routed /\ Len(trace[t]) = TokenSize
        /\ trace[u] \in Routed /\ Len(trace[u]) = TokenSize
    BY <1>4, Elements
  <2>2. QED
    BY <2>1, FullToken
<1> HIDE DEF W, n, keys, L
<1>7. r \in 1 .. L * TopK /\ s \in 1 .. L * TopK /\ TopK \in Nat \ {0}
  BY <1>3, <1>4
<1>8. PICK i, k : IsPlace(r, i, k, L, TopK)
  BY ONLY <1>3, <1>7, PlaceIs
<1>9. PICK j, m : IsPlace(s, j, m, L, TopK)
  BY ONLY <1>3, <1>7, PlaceIs
<1>10. /\ i \in 1 .. L /\ k \in 1 .. TopK /\ r = (i - 1) * TopK + k
       /\ j \in 1 .. L /\ m \in 1 .. TopK /\ s = (j - 1) * TopK + m
  BY <1>8, <1>9 DEF IsPlace
<1>11. trace[t][r][1] = MoeLayers[i] /\ trace[u][s][1] = MoeLayers[j]
  <2>1. /\ trace[t][(i - 1) * TopK + k][1] = MoeLayers[i]
        /\ trace[u][(j - 1) * TopK + m][1] = MoeLayers[j]
    BY <1>6, <1>10 DEF Blocks, L
  <2>2. QED
    BY <1>10, <2>1, Zenon
<1>12. i = j
  <2>1. MoeLayers[i] = MoeLayers[j]
    BY <1>5, <1>11, Zenon
  <2>2. MoeLayers[i] \in Nat /\ MoeLayers[j] \in Nat
    BY <1>10, ConstantsAre DEF L
  <2>3. ~(i < j) /\ ~(j < i)
    <3>1. i \in 1 .. Len(MoeLayers) /\ j \in 1 .. Len(MoeLayers)
      BY <1>10 DEF L
    <3>2. /\ i < j => MoeLayers[i] < MoeLayers[j]
          /\ j < i => MoeLayers[j] < MoeLayers[i]
      BY ONLY <3>1, LayersGoUp
    <3>3. QED
      BY ONLY <2>1, <2>2, <3>2
  <2>4. QED
    BY <1>10, <2>3
<1> DEFINE b == (i - 1) * TopK
<1>13. b \in Int /\ r = b + k /\ s = b + m
  BY <1>3, <1>10, <1>12
<1>14. CASE t = u
  <2>1. trace[t][(i - 1) * TopK + k] = trace[t][(i - 1) * TopK + m]
    BY <1>5, <1>10, <1>12, <1>14, Zenon
  <2>2. k = m
    BY <1>6, <1>10, <2>1 DEF Blocks, L
  <2>3. p = q
    BY <1>4, <1>13, <1>14, <2>2
  <2>4. QED
    BY <2>3
<1>15. CASE u < t
  <2> DEFINE a == (u - 1) * W
             e == (t - u) * W
  <2>1. (t - 1) * W = a + e /\ a \in Int /\ e \in Int
    BY <1>3, <1>4
  <2>2. e >= W
    <3> DEFINE d == (t - u) - 1
    <3>1. d \in Nat /\ W \in Nat /\ t - u = d + 1
      BY <1>3, <1>4, <1>15
    <3> HIDE DEF d
    <3>2. d * W \in Nat /\ (d + 1) * W = d * W + W
      BY ONLY <3>1, NextRow
    <3>3. QED
      BY <3>1, <3>2
  <2>3. p = (a + e) + r /\ q = a + s
    BY <1>4, <2>1
  <2> HIDE DEF a, e, b
  <2>4. p = a + e + b + k /\ q = a + b + m
    BY <1>10, <1>13, <2>1, <2>3
  <2>5. W >= TopK
    BY <1>4, <1>10, <1>13, <1>3
  <2>6. QED
    BY <1>3, <1>10, <1>13, <2>1, <2>2, <2>4, <2>5
<1>16. CASE t < u
  <2> DEFINE a == (t - 1) * W
             e == (u - t) * W
  <2>1. (u - 1) * W = a + e /\ a \in Int /\ e \in Int
    BY <1>3, <1>4
  <2>2. e >= W
    <3> DEFINE d == (u - t) - 1
    <3>1. d \in Nat /\ W \in Nat /\ u - t = d + 1
      BY <1>3, <1>4, <1>16
    <3> HIDE DEF d
    <3>2. d * W \in Nat /\ (d + 1) * W = d * W + W
      BY ONLY <3>1, NextRow
    <3>3. QED
      BY <3>1, <3>2
  <2>3. q = (a + e) + s /\ p = a + r
    BY <1>4, <2>1
  <2> HIDE DEF a, e, b
  <2>4. q = a + e + b + m /\ p = a + b + k
    BY <1>10, <1>13, <2>1, <2>3
  <2>5. W \in Int
    BY <1>3
  <2>6. q - p = e + (m - k)
    BY <1>10, <1>13, <2>1, <2>4
  <2>7. q - p > W - TopK
    BY <1>3, <1>10, <2>1, <2>2, <2>5, <2>6
  <2>8. QED
    BY <2>7 DEF W
<1>17. QED
  BY <1>4, <1>14, <1>15, <1>16

\* An LRU that was never hit holds the last references, in their order.
Recent(lru, keys, n) ==
  Len(lru) <= n /\ \A j \in 1 .. Len(lru) : lru[j] = keys[(n - Len(lru)) + j]

\* It stays so when the next reference is missed.
LEMMA RecentGoesOn ==
  ASSUME NEW K, NEW keys, keys \in Seq(K), NEW n \in Nat, n + 1 <= Len(keys), NEW c \in Nat,
         NEW lru, Fits(lru, K, c, {}), Recent(lru, keys, n), keys[n + 1] \notin ToSet(lru)
  PROVE  Recent(Used(lru, keys[n + 1], c), keys, n + 1)
<1> DEFINE key == keys[n + 1]
           m == Len(lru)
           new == Used(lru, key, c)
<1>1. lru \in Seq(K) /\ Distinct(lru) /\ m <= c /\ m \in Nat /\ m <= n
      /\ \A j \in 1 .. m : lru[j] = keys[(n - m) + j]
  BY DEF Fits, Recent
<1>2. key \in K
  <2>1. n + 1 \in 1 .. Len(keys)
    OBVIOUS
  <2>2. QED
    BY <2>1, Elements
<1>3. key \notin ToSet(lru)
  OBVIOUS
<1>4. Len(keys) \in Nat
  OBVIOUS
<1> HIDE DEF key
<1>5. CASE c = 0
  <2>1. new = lru /\ m = 0
    BY <1>1, <1>5, <1>3 DEF Used
  <2> HIDE DEF new
  <2>2. QED
    BY <1>1, <2>1 DEF Recent, new, key
<1>6. CASE m < c
  <2>1. Len(lru) <= c /\ c > 0
    BY <1>1, <1>6
  <2>2. LET x == PopOldest(Append(lru, key), c) IN Len(lru) < c => x = Append(lru, key)
    BY ONLY <1>1, <1>2, <1>3, <2>1, PushKeeps
  <2>3. new = Append(lru, key)
    BY <1>1, <1>6, <1>3, <2>2 DEF Used
  <2> HIDE DEF new
  <2>4. Len(new) = m + 1 /\ new[m + 1] = key /\ \A j \in 1 .. m : new[j] = lru[j]
    BY <1>1, <1>2, <2>3
  <2>5. ASSUME NEW j \in 1 .. m + 1 PROVE new[j] = keys[((n + 1) - (m + 1)) + j]
    <3>1. ((n + 1) - (m + 1)) + j = (n - m) + j
      BY <1>1
    <3>2. CASE j = m + 1
      <4>1. (n - m) + j = n + 1
        BY <1>1, <3>2
      <4>2. QED
        BY <2>4, <3>1, <3>2, <4>1 DEF key
    <3>3. CASE j # m + 1
      <4>1. j \in 1 .. m
        BY <1>1, <3>3
      <4>2. QED
        BY <1>1, <2>4, <3>1, <4>1
    <3>4. QED
      BY <3>2, <3>3
  <2>6. m + 1 <= n + 1
    BY <1>1
  <2>7. QED
    BY <2>4, <2>5, <2>6 DEF Recent, new, key
<1>7. CASE m = c /\ c > 0
  <2> DEFINE t == Tail(lru)
  <2>1. Len(lru) <= c /\ c > 0
    BY <1>1, <1>7
  <2>2. LET x == PopOldest(Append(lru, key), c)
        IN  Len(lru) = c => x = Append(Tail(lru), key) /\ Len(x) = c
    BY ONLY <1>1, <1>2, <1>3, <2>1, PushKeeps
  <2>3. new = Append(t, key)
    BY <1>1, <1>7, <1>3, <2>2 DEF Used
  <2>4. lru # <<>>
    BY <1>7
  <2>5. t \in Seq(K) /\ Len(t) = m - 1 /\ \A j \in 1 .. m - 1 : t[j] = lru[j + 1]
    BY <1>1, <2>4
  <2> HIDE DEF t, new
  <2>6. Len(new) = m /\ new[m] = key /\ \A j \in 1 .. m - 1 : new[j] = t[j]
    BY <1>1, <1>2, <2>3, <2>5
  <2>7. ASSUME NEW j \in 1 .. m PROVE new[j] = keys[((n + 1) - m) + j]
    <3>1. CASE j = m
      <4>1. ((n + 1) - m) + j = n + 1
        BY <1>1, <3>1
      <4>2. QED
        BY <2>6, <3>1, <4>1 DEF key
    <3>2. CASE j # m
      <4>1. j \in 1 .. m - 1 /\ j + 1 \in 1 .. m /\ (n - m) + (j + 1) = ((n + 1) - m) + j
        BY <1>1, <3>2
      <4>2. new[j] = lru[j + 1] /\ lru[j + 1] = keys[(n - m) + (j + 1)]
        BY <1>1, <2>5, <2>6, <4>1
      <4>3. QED
        BY <4>1, <4>2
    <3>3. QED
      BY <3>1, <3>2
  <2>8. m <= n + 1
    BY <1>1
  <2>9. QED
    BY <2>6, <2>7, <2>8 DEF Recent, new, key
<1>8. QED
  BY <1>1, <1>5, <1>6, <1>7

\* A cache with no more places than the keys of all layers but one never hits.
LEMMA NeverHits ==
  ASSUME NEW trace, trace \in Seq(Routed), \A token \in ToSet(trace) : Len(token) = TokenSize,
         NEW c \in Nat, c <= TokenSize - TopK
  PROVE  simulate_lru(trace, c, {}, 0).hits = 0
<1> DEFINE K == AllKeys
           keys == FlattenSeq(trace)
           N == Len(keys)
<1>1. trace \in Seq(Seq(K)) /\ keys \in Seq(K)
  BY RoutedKeys, FlattenElements
<1>2. IsFiniteSet({}) /\ Cardinality({}) = 0
  BY FS_EmptySet
<1>3. LruCapacity(c, {}) = c
  <2>1. LruCapacity(c, {}) = c - 0
    BY <1>2, CapacityIs
  <2>2. QED
    BY <2>1
<1> HIDE DEF K
<1>4. PICK f : Sims(f, K, trace, c, {}, 0)
  BY <1>1, <1>2, SimIsRecursion
<1>5. /\ f \in [0 .. N -> SimStates(K)] /\ f[0] = NoneSeen
      /\ \A n \in 1 .. N : f[n] = Access(f[n - 1], keys[n], c, {}, n > 0)
      /\ simulate_lru(trace, c, {}, 0) = f[N]
  BY <1>1, <1>3, <1>4, NoWarmup DEF Sims
<1>6. \A n \in 0 .. N : Fits(f[n].lru, K, c, {})
  BY <1>1, <1>2, <1>3, <1>4, SimFits
<1>7. ASSUME NEW p \in 1 .. N, NEW q \in 1 .. N, p < q, q - p <= c PROVE keys[p] # keys[q]
  <2>1. SUFFICES ASSUME keys[p] = keys[q] PROVE FALSE
    OBVIOUS
  <2>2. q - p > TokenSize - TopK
    BY <1>7, <2>1, FarApart
  <2>3. TokenSize \in Int /\ TopK \in Int
    BY ConstantsAre DEF TokenSize
  <2>4. p \in Int /\ q \in Int
    OBVIOUS
  <2> HIDE DEF N, keys
  <2>5. QED
    BY <1>7, <2>2, <2>3, <2>4
<1> HIDE DEF keys
<1>8. N \in Nat
  BY <1>1
<1> DEFINE P == {n \in 0 .. N : f[n].hits = 0 /\ Recent(f[n].lru, keys, n)}
<1>9. 0 \in P
  BY <1>5, <1>8 DEF NoneSeen, Recent
<1>10. ASSUME NEW n \in 0 .. N - 1, n \in P PROVE n + 1 \in P
  <2> DEFINE key == keys[n + 1]
             s == f[n]
             s2 == f[n + 1]
             counting == n + 1 > 0
  <2>1. n \in 0 .. N /\ n + 1 \in 1 .. N /\ n + 1 \in 0 .. N /\ (n + 1) - 1 = n /\ n + 1 > 0 /\ n \in Nat
        /\ n + 1 <= N
    BY <1>8
  <2>2. s2 = Access(s, key, c, {}, counting) /\ counting
    BY <1>5, <2>1
  <2>3. Fits(s.lru, K, c, {}) /\ s.hits = 0 /\ Recent(s.lru, keys, n)
    BY <1>6, <1>10, <2>1
  <2>4. key \notin ToSet(s.lru)
    <3> DEFINE lru == s.lru
               m == Len(lru)
    <3>1. SUFFICES ASSUME key \in ToSet(lru) PROVE FALSE
      OBVIOUS
    <3>2. Fits(lru, K, c, {}) /\ Recent(lru, keys, n)
      BY <2>3
    <3> HIDE DEF lru
    <3>3. /\ lru \in Seq(K) /\ m \in Nat /\ m <= c /\ m <= n
          /\ \A j \in 1 .. m : lru[j] = keys[(n - m) + j]
      BY <3>2 DEF Fits, Recent
    <3>4. PICK j \in 1 .. m : lru[j] = key
      BY <3>1, <3>3, Elements
    <3> DEFINE p == (n - m) + j
    <3>5. p \in 1 .. N /\ p < n + 1 /\ (n + 1) - p <= c
      BY <1>8, <2>1, <3>3
    <3>6. keys[p] = key
      BY <3>3, <3>4
    <3> HIDE DEF p
    <3>7. QED
      BY <1>7, <2>1, <3>5, <3>6
  <2> HIDE DEF key, s, s2, counting
  <2>5. s2.lru = Used(s.lru, key, c) /\ s2.hits = s.hits + 0
    <3>1. counting \in BOOLEAN
      BY <2>2
    <3>2. LET next == Access(s, key, c, {}, counting)
              hit == key \in {} \/ key \in ToSet(s.lru)
          IN  /\ next.lru = IF key \in {} THEN s.lru ELSE Used(s.lru, key, c)
              /\ next.hits = s.hits + (IF counting /\ hit THEN 1 ELSE 0)
      BY <3>1, AccessIs
    <3>3. QED
      BY <2>2, <2>4, <3>2
  <2>6. Recent(s2.lru, keys, n + 1)
    <3>1. Recent(Used(s.lru, keys[n + 1], c), keys, n + 1)
      BY <1>1, <2>1, <2>3, <2>4, RecentGoesOn DEF key
    <3>2. QED
      BY <2>5, <3>1 DEF key
  <2>7. s2.hits = 0
    BY <2>3, <2>5
  <2>8. QED
    BY <2>1, <2>6, <2>7 DEF s2
<1>11. N \in P
  <2> HIDE DEF P, N
  <2>1. QED
    BY ONLY <1>8, <1>9, <1>10, UpTo
<1>12. QED
  BY <1>5, <1>11

\* The thrash cliff (plan.py:130-132): at every number of layers and experts, a cache that
\* holds no more than the experts of all layers but one has not one hit on decode tokens
\* that passed every layer.
THEOREM CliffCorrect == Spec => []NoHitBelowTheCliff
<1>1. ASSUME TraceInv PROVE NoHitBelowTheCliff
  <2> DEFINE trace == DecodeTrace
  <2>1. trace \in Seq(Routed)
    BY <1>1, TracesRouted
  <2>2. (Len(MoeLayers) - 1) * TopK = TokenSize - TopK /\ (Len(MoeLayers) - 1) * TopK \in Int
    BY ConstantsAre DEF TokenSize
  <2> HIDE DEF trace
  <2>3. ASSUME \A token \in ToSet(trace) : Len(token) = TokenSize,
               NEW c \in 0 .. (Len(MoeLayers) - 1) * TopK
        PROVE  simulate_lru(trace, c, {}, 0).hits = 0
    <3>1. c \in Nat /\ c <= TokenSize - TopK
      BY <2>2
    <3>2. QED
      BY <2>1, <2>3, <3>1, NeverHits
  <2>4. QED
    BY <2>3 DEF NoHitBelowTheCliff, TokenSize, trace
<1>2. QED
  BY <1>1, StepsCorrect, PTL
=============================================================================
