--------------------------- MODULE Download_proofs ---------------------------
(***************************************************************************)
(* Proofs about the download, for every size of the file, number of        *)
(* streams and size of the buffers.                                        *)
(***************************************************************************)
EXTENDS Download, SequenceTheorems, TLAPS

-----------------------------------------------------------------------------
(* Ranges.                                                                 *)

LEMMA StepType == Step \in Nat /\ Chunks * Step >= Size
<1>1. Size + Chunks - 1 \in Nat /\ Chunks \in Nat /\ Chunks > 0 /\ Size \in Nat
  BY DownloadAssumption
<1> DEFINE n == Size + Chunks - 1
<1>2. n \div Chunks \in Nat /\ n % Chunks \in 0 .. Chunks - 1
  BY <1>1
<1>3. n = (Chunks * (n \div Chunks)) + (n % Chunks)
  BY <1>1
<1>4. QED
  BY <1>1, <1>2, <1>3 DEF Step

\* Multiples are ordered as their factors are.
LEMMA TimesMonotone ==
  ASSUME NEW a \in Nat, NEW b \in Nat, NEW c \in Nat, a <= b
  PROVE  a * c \in Nat /\ b * c \in Nat /\ a * c <= b * c
<1>1. PICK d \in Nat : b = a + d
  BY b - a \in Nat
<1>2. b * c = a * c + d * c
  BY <1>1
<1>3. a * c \in Nat /\ d * c \in Nat
  OBVIOUS
<1>4. QED
  BY <1>2, <1>3

\* Where n ranges end.
UpTo(n) == Least(n * Step, Size)

\* The ranges follow each other, none is empty, and they end with the file.
LEMMA Ranges ==
  /\ UpTo(0) = 0 /\ UpTo(Chunks) = Size
  /\ \A i \in Streams :
       /\ i \in Nat /\ Start(i) \in Nat /\ Want(i) \in Nat
       /\ UpTo(i) = Start(i)
       /\ UpTo(i + 1) = Start(i) + Want(i)
<1>1. Step \in Nat /\ Size \in Nat /\ Chunks \in Nat /\ Chunks > 0 /\ Chunks * Step >= Size
  BY StepType, DownloadAssumption
<1>2. UpTo(0) = 0
  BY <1>1 DEF UpTo, Least
<1>3. UpTo(Chunks) = Size
  <2>1. Chunks * Step \in Nat
    BY <1>1
  <2>2. QED
    BY <1>1, <2>1 DEF UpTo, Least
<1>4. ASSUME NEW i \in Streams
      PROVE  /\ i \in Nat /\ Start(i) \in Nat /\ Want(i) \in Nat
             /\ UpTo(i) = Start(i)
             /\ UpTo(i + 1) = Start(i) + Want(i)
  <2>1. i \in Nat /\ i <= Chunks - 1 /\ Chunks - 1 \in Nat
    BY <1>1 DEF Streams
  <2>2. /\ i * Step \in Nat
        /\ i * Step <= (Chunks - 1) * Step
        /\ (Chunks - 1) * Step \in Nat
    BY <1>1, <2>1, TimesMonotone
  <2>3. i * Step < Size
    BY <1>1, <2>2, DownloadAssumption
  <2>4. (i + 1) * Step \in Nat /\ i * Step <= (i + 1) * Step
    BY <1>1, <2>1, TimesMonotone
  <2>5. QED
    BY <1>1, <2>1, <2>2, <2>3, <2>4 DEF Start, Want, UpTo, Least
<1>5. QED
  BY <1>2, <1>3, <1>4

-----------------------------------------------------------------------------
(* Bytes of the remote file.                                               *)

LEMMA BytesType ==
  ASSUME NEW o \in Nat, NEW n \in Nat
  PROVE  /\ Bytes(o, n) \in Seq(Nat)
         /\ Len(Bytes(o, n)) = n
         /\ \A j \in 1 .. n : Bytes(o, n)[j] = o + j - 1
<1>1. \A j \in 1 .. n : o + j - 1 \in Nat
  OBVIOUS
<1>2. Bytes(o, n) \in [1 .. n -> Nat]
  BY <1>1 DEF Bytes
<1>3. QED
  BY <1>2, IsASeq, LenProperties DEF Bytes

LEMMA BytesNone == \A o \in Nat : Bytes(o, 0) = <<>>
<1> TAKE o \in Nat
<1>1. Bytes(o, 0) \in Seq(Nat) /\ Len(Bytes(o, 0)) = 0
  BY BytesType
<1>2. QED
  BY <1>1, EmptySeq

LEMMA BytesConcat ==
  ASSUME NEW o \in Nat, NEW m \in Nat, NEW n \in Nat
  PROVE  Bytes(o, m) \o Bytes(o + m, n) = Bytes(o, m + n)
<1> DEFINE s == Bytes(o, m)  t == Bytes(o + m, n)  u == Bytes(o, m + n)
<1>1. /\ s \in Seq(Nat) /\ Len(s) = m
      /\ t \in Seq(Nat) /\ Len(t) = n
      /\ u \in Seq(Nat) /\ Len(u) = m + n
  BY BytesType, o + m \in Nat, m + n \in Nat
<1>2. s \o t \in Seq(Nat) /\ Len(s \o t) = m + n
  BY <1>1, ConcatProperties
<1>3. ASSUME NEW j \in 1 .. m + n PROVE (s \o t)[j] = u[j]
  <2>1. u[j] = o + j - 1
    BY BytesType, m + n \in Nat
  <2> HIDE DEF s, t
  <2>0. j \in 1 .. Len(s) + Len(t)
    BY <1>1
  <2>6. (s \o t)[j] = IF j <= Len(s) THEN s[j] ELSE t[j - Len(s)]
    BY <1>1, <2>0, ConcatProperties
  <2>2. CASE j <= m
    <3>1. (s \o t)[j] = s[j]
      BY <1>1, <2>2, <2>6
    <3>2. j \in 1 .. m
      BY <2>2
    <3>3. s[j] = o + j - 1
      BY <3>2, BytesType DEF s
    <3>4. QED
      BY <2>1, <3>1, <3>3
  <2>3. CASE j > m
    <3>1. (s \o t)[j] = t[j - m]
      BY <1>1, <2>3, <2>6
    <3>2. j - m \in 1 .. n /\ o + m \in Nat
      BY <2>3
    <3>3. t[j - m] = (o + m) + (j - m) - 1
      BY <3>2, BytesType DEF t
    <3>4. (o + m) + (j - m) - 1 = o + j - 1
      OBVIOUS
    <3>5. QED
      BY <2>1, <3>1, <3>3, <3>4
  <2>4. j <= m \/ j > m
    OBVIOUS
  <2>5. QED
    BY <2>2, <2>3, <2>4
<1>4. QED
  BY <1>1, <1>2, <1>3, SeqEqual

\* A prefix of bytes of the file is bytes of the file.
LEMMA BytesPrefix ==
  ASSUME NEW o \in Nat, NEW n \in Nat, NEW x \in Seq(Nat), NEW y \in Seq(Nat),
         x \o y = Bytes(o, n)
  PROVE  Len(x) \in Nat /\ Len(x) <= n /\ x = Bytes(o, Len(x))
<1>1. Len(x) \in Nat /\ Len(y) \in Nat
  BY LenProperties
<1>2. Len(x \o y) = Len(x) + Len(y)
  BY ConcatProperties
<1>3. Len(x) <= n
  BY <1>1, <1>2, BytesType
<1>4. Bytes(o, Len(x)) \in Seq(Nat) /\ Len(Bytes(o, Len(x))) = Len(x)
  BY <1>1, BytesType
<1>5. ASSUME NEW j \in 1 .. Len(x) PROVE x[j] = Bytes(o, Len(x))[j]
  <2>1. (x \o y)[j] = x[j]
    BY ConcatProperties
  <2>2. j \in 1 .. n
    BY <1>1, <1>3
  <2>3. QED
    BY <1>1, <2>1, <2>2, BytesType
<1>6. QED
  BY <1>1, <1>3, <1>4, <1>5, SeqEqual

LEMMA ConcatAssoc ==
  \A s, t, u \in Seq(Nat) : (s \o t) \o u = s \o (t \o u)
<1> TAKE s, t, u \in Seq(Nat)
<1>1. s \in Seq(Nat) /\ t \in Seq(Nat) /\ u \in Seq(Nat)
  OBVIOUS
<1>2. QED
  BY ONLY <1>1, ConcatAssociative, SMTT(30)

\* A sequence is its first l elements and the others.
LEMMA Split ==
  ASSUME NEW b \in Seq(Nat), NEW l \in 0 .. Len(b)
  PROVE  /\ SubSeq(b, 1, l) \in Seq(Nat)
         /\ SubSeq(b, l + 1, Len(b)) \in Seq(Nat)
         /\ SubSeq(b, 1, l) \o SubSeq(b, l + 1, Len(b)) = b
<1>1. Len(b) \in Nat
  BY LenProperties
<1>2. \A j \in 1 .. Len(b) : b[j] \in Nat
  BY ElementOfSeq
<1>3. SubSeq(b, 1, l) \in Seq(Nat) /\ SubSeq(b, l + 1, Len(b)) \in Seq(Nat)
  BY <1>1, <1>2, SubSeqProperties
<1>4. SubSeq(b, 1, l) \o SubSeq(b, l + 1, Len(b)) = SubSeq(b, 1, Len(b))
  <2>1. 1 \in 1 .. Len(b) + 1 /\ l \in 1 - 1 .. Len(b) /\ Len(b) \in l .. Len(b)
    BY <1>1
  <2>2. QED
    BY <2>1, ConcatAdjacentSubSeq
<1>5. QED
  BY <1>3, <1>4, SubSeqFull

-----------------------------------------------------------------------------
(* The inductive invariant.                                                *)

\* What the constants are, and what a fault does to their count.
LEMMA Sizes ==
  /\ Size \in Nat /\ Chunks \in Nat /\ MaxRead \in Nat /\ WriterBuffer \in Nat
  /\ MaxErrors \in Nat /\ MaxFaults \in Nat
  BY DownloadAssumption

LEMMA FaultType ==
  TypeOK /\ Fault => faults' \in 0 .. MaxFaults
  BY Sizes DEF TypeOK, Fault

LEMMA InitInv == Init => DownloadInv
<1> SUFFICES ASSUME Init PROVE DownloadInv
  OBVIOUS
<1>1. TypeOK
  BY Sizes, EmptySeq DEF Init, TypeOK
<1>2. PartsArePrefixes
  BY Ranges, BytesNone, EmptySeq DEF Init, PartsArePrefixes, PartIsPrefix
<1>3. HeldByStreams /\ CountsFromFirst /\ AssembledRight /\ DestIsWhole /\ CleansAfterwards
  BY EmptySeq DEF Init, HeldByStreams, CountsFromFirst, AssembledRight, DestIsWhole,
     CleansAfterwards
<1>4. QED
  BY <1>1, <1>2, <1>3 DEF DownloadInv

\* A process that is gone leaves the files, and they are all a rerun knows.
LEMMA EndsKeeps ==
  ASSUME DownloadInv, Ends, UNCHANGED <<files, spoilt>>, faults' \in 0 .. MaxFaults
  PROVE  DownloadInv'
<1>1. TypeOK'
  BY Sizes, EmptySeq DEF DownloadInv, TypeOK, Ends, files
<1>2. PartsArePrefixes'
  BY DEF DownloadInv, PartsArePrefixes, PartIsPrefix, Ends, files
<1>3. HeldByStreams'
  BY DEF Ends, HeldByStreams
<1>4. CountsFromFirst' /\ AssembledRight' /\ DestIsWhole' /\ CleansAfterwards'
  BY DEF DownloadInv, Ends, files, CountsFromFirst, AssembledRight, DestIsWhole,
     CleansAfterwards
<1>5. QED
  BY <1>1, <1>2, <1>3, <1>4 DEF DownloadInv

\* When no stream is open nothing is held back.
LEMMA NothingHeld ==
  ASSUME DownloadInv, AllEnded \/ main # "fetching", NEW i \in Streams
  PROVE  held[i] = <<>>
  BY DEF DownloadInv, HeldByStreams, AllEnded

LEMMA RunKeeps == DownloadInv /\ Run => DownloadInv'
<1> SUFFICES ASSUME DownloadInv, Run PROVE DownloadInv'
  OBVIOUS
<1>1. TypeOK'
  <2>1. \A i \in Streams : Len(part[i]) \in Nat
    BY LenProperties DEF DownloadInv, TypeOK
  <2>2. QED
    BY <2>1 DEF DownloadInv, TypeOK, Run, files
<1>2. PartsArePrefixes'
  <2> SUFFICES ASSUME NEW i \in Streams \ spoilt PROVE PartIsPrefix(i)'
    BY DEF PartsArePrefixes, Run
  <2>1. PartIsPrefix(i) /\ part[i] \in Seq(Nat)
    BY DEF DownloadInv, PartsArePrefixes, TypeOK
  <2>2. part[i] \o held[i] = part[i]
    BY <2>1, NothingHeld, ConcatEmptySeq DEF Run
  <2>3. QED
    BY <2>1, <2>2 DEF PartIsPrefix, Run, files
<1>3. HeldByStreams'
  BY NothingHeld DEF Run, HeldByStreams
<1>4. CountsFromFirst' /\ AssembledRight' /\ DestIsWhole' /\ CleansAfterwards'
  BY DEF DownloadInv, Run, files, CountsFromFirst, AssembledRight, DestIsWhole,
     CleansAfterwards
<1>5. QED
  BY <1>1, <1>2, <1>3, <1>4 DEF DownloadInv

LEMMA AssembleKeeps == DownloadInv /\ Assemble => DownloadInv'
<1> SUFFICES ASSUME DownloadInv, Assemble PROVE DownloadInv'
  OBVIOUS
<1>1. TypeOK'
  BY EmptySeq DEF DownloadInv, TypeOK, Assemble
<1>2. PartsArePrefixes'
  BY DEF DownloadInv, PartsArePrefixes, PartIsPrefix, Assemble
<1>3. HeldByStreams'
  BY NothingHeld DEF Assemble, HeldByStreams
<1>4. AssembledRight'
  <2>1. next' = 0 /\ tmp' = <<>>
    BY DEF DownloadInv, CountsFromFirst, Assemble, AllEnded
  <2>2. Least(0 * Step, Size) = 0
    BY Ranges DEF UpTo
  <2>3. QED
    BY <2>1, <2>2, BytesNone, EmptySeq DEF AssembledRight
<1>5. CountsFromFirst' /\ DestIsWhole' /\ CleansAfterwards'
  BY DEF DownloadInv, Assemble, CountsFromFirst, DestIsWhole, CleansAfterwards
<1>6. QED
  BY <1>1, <1>2, <1>3, <1>4, <1>5 DEF DownloadInv

\* What is assembled reaches the end of a range only with the whole of the part.
LEMMA CopyPartKeeps == DownloadInv /\ CopyPart => DownloadInv'
<1> SUFFICES ASSUME DownloadInv, CopyPart PROVE DownloadInv'
  OBVIOUS
<1>1. next \in Streams /\ next + 1 \in 0 .. Chunks
  BY Sizes DEF DownloadInv, TypeOK, CopyPart, Streams
<1>2. part[next] \in Seq(Nat) /\ tmp \in Seq(Nat)
  BY <1>1 DEF DownloadInv, TypeOK
<1>3. /\ tmp' \in Seq(Nat)
      /\ Len(tmp') = Len(tmp) + Len(part[next])
      /\ Len(tmp) \in Nat /\ Len(part[next]) \in Nat
  BY <1>2, ConcatProperties, LenProperties DEF CopyPart
<1>4. TypeOK'
  BY <1>1, <1>3 DEF DownloadInv, TypeOK, CopyPart
<1>5. PartsArePrefixes'
  BY DEF DownloadInv, PartsArePrefixes, PartIsPrefix, CopyPart
<1>6. HeldByStreams' /\ CountsFromFirst' /\ DestIsWhole' /\ CleansAfterwards'
  BY DEF DownloadInv, CopyPart, HeldByStreams, CountsFromFirst, DestIsWhole, CleansAfterwards
<1>7. AssembledRight'
  <2> SUFFICES ASSUME spoilt = {}
               PROVE  /\ Len(tmp') <= UpTo(next + 1)
                      /\ Len(tmp') = UpTo(next + 1) => tmp' = Bytes(0, UpTo(next + 1))
    BY DEF AssembledRight, CopyPart, UpTo
  <2>1. PartIsPrefix(next)
    BY <1>1 DEF DownloadInv, PartsArePrefixes
  <2>2. /\ UpTo(next) = Start(next) /\ UpTo(next + 1) = Start(next) + Want(next)
        /\ Start(next) \in Nat /\ Want(next) \in Nat
    BY <1>1, Ranges
  <2>3. Len(tmp) <= UpTo(next) /\ (Len(tmp) = UpTo(next) => tmp = Bytes(0, UpTo(next)))
    BY DEF DownloadInv, AssembledRight, CopyPart, UpTo
  <2>4. Len(tmp') <= UpTo(next + 1)
    BY <1>3, <2>1, <2>2, <2>3 DEF PartIsPrefix
  <2>5. ASSUME Len(tmp') = UpTo(next + 1) PROVE tmp' = Bytes(0, UpTo(next + 1))
    <3>1. Len(tmp) = Start(next) /\ Len(part[next]) = Want(next)
      BY <1>3, <2>1, <2>2, <2>3, <2>5 DEF PartIsPrefix
    <3>2. tmp = Bytes(0, Start(next)) /\ part[next] = Bytes(0 + Start(next), Want(next))
      BY <2>1, <2>2, <2>3, <3>1 DEF PartIsPrefix
    <3>3. tmp' = tmp \o part[next]
      BY DEF CopyPart
    <3>4. tmp' = Bytes(0, Start(next)) \o Bytes(0 + Start(next), Want(next))
      BY <3>2, <3>3
    <3>5. tmp' = Bytes(0, Start(next) + Want(next))
      BY <2>2, <3>4, BytesConcat
    <3>6. QED
      BY <2>2, <3>5
  <2>6. QED
    BY <2>4, <2>5
<1>8. QED
  BY <1>4, <1>5, <1>6, <1>7 DEF DownloadInv

\* The comparison of sizes is enough.
LEMMA RenameKeeps == DownloadInv /\ Rename => DownloadInv'
<1> SUFFICES ASSUME DownloadInv, Rename PROVE DownloadInv'
  OBVIOUS
<1>1. TypeOK'
  BY Sizes, EmptySeq DEF DownloadInv, TypeOK, Rename
<1>2. PartsArePrefixes'
  BY DEF DownloadInv, PartsArePrefixes, PartIsPrefix, Rename
<1>3. HeldByStreams' /\ CountsFromFirst' /\ AssembledRight'
  BY DEF DownloadInv, Rename, HeldByStreams, CountsFromFirst, AssembledRight
<1>4. DestIsWhole'
  <2>1. next = Chunks /\ UpTo(Chunks) = Size
    BY Ranges DEF Rename
  <2>2. QED
    BY <2>1 DEF DownloadInv, AssembledRight, Rename, DestIsWhole, Whole, UpTo
<1>5. CleansAfterwards'
  BY EmptySeq, DownloadAssumption DEF Rename, CleansAfterwards
<1>6. QED
  BY <1>1, <1>2, <1>3, <1>4, <1>5 DEF DownloadInv

LEMMA UnlinkKeeps == DownloadInv /\ Unlink => DownloadInv'
<1> SUFFICES ASSUME DownloadInv, Unlink PROVE DownloadInv'
  OBVIOUS
<1>1. TypeOK'
  <2>1. next + 1 \in 0 .. Chunks
    BY Sizes DEF DownloadInv, TypeOK, Unlink
  <2>2. part' \in [Streams -> Seq(Nat)]
    BY EmptySeq DEF DownloadInv, TypeOK, Unlink
  <2>3. QED
    BY <2>1, <2>2 DEF DownloadInv, TypeOK, Unlink
<1>2. PartsArePrefixes'
  <2> SUFFICES ASSUME NEW i \in Streams \ spoilt PROVE PartIsPrefix(i)'
    BY DEF PartsArePrefixes, Unlink
  <2>1. PartIsPrefix(i) /\ part \in [Streams -> Seq(Nat)]
    BY DEF DownloadInv, PartsArePrefixes, TypeOK
  <2>2. part'[i] = part[i] \/ part'[i] = <<>>
    BY <2>1 DEF Unlink
  <2>3. Start(i) \in Nat /\ Want(i) \in Nat
    BY Ranges
  <2>4. QED
    BY <2>1, <2>2, <2>3, BytesNone, EmptySeq DEF PartIsPrefix, Unlink
<1>3. HeldByStreams' /\ CountsFromFirst' /\ AssembledRight' /\ DestIsWhole' /\ CleansAfterwards'
  BY DEF DownloadInv, Unlink, HeldByStreams, CountsFromFirst, AssembledRight, DestIsWhole,
     CleansAfterwards
<1>4. QED
  BY <1>1, <1>2, <1>3 DEF DownloadInv

-----------------------------------------------------------------------------
(* The threads.                                                            *)

\* A thread moves between its loop and a stream.
LEMMA MoveKeeps ==
  ASSUME DownloadInv, NEW i \in Streams, Enough(i) \/ Connect(i)
  PROVE  DownloadInv'
<1>1. /\ UNCHANGED <<part, tmp, dest, main, done, held, errors, next, faults, spoilt>>
      /\ main = "fetching" /\ thread[i] = "request"
      /\ \/ To(i, "ended") \/ To(i, "stream")
  BY DEF Enough, Connect, At, files
<1>2. TypeOK'
  BY <1>1 DEF DownloadInv, TypeOK, To
<1>3. PartsArePrefixes'
  BY <1>1 DEF DownloadInv, PartsArePrefixes, PartIsPrefix
<1>4. HeldByStreams'
  BY <1>1 DEF DownloadInv, HeldByStreams, To, TypeOK
<1>5. CountsFromFirst' /\ AssembledRight' /\ DestIsWhole' /\ CleansAfterwards'
  BY <1>1 DEF DownloadInv, CountsFromFirst, AssembledRight, DestIsWhole, CleansAfterwards
<1>6. QED
  BY <1>2, <1>3, <1>4, <1>5 DEF DownloadInv

\* A thread appends w to its part, keeps h back and has counted d bytes.
LEMMA AppendKeeps ==
  ASSUME DownloadInv, main = "fetching", UNCHANGED <<tmp, dest, main, next>>,
         NEW i \in Streams, NEW w \in Seq(Nat), NEW h \in Seq(Nat), NEW d \in Nat,
         part' = [part EXCEPT ![i] = @ \o w],
         held' = [held EXCEPT ![i] = h],
         done' = [done EXCEPT ![i] = d],
         \E l \in {"request", "stream", "ended"} :
           To(i, l) /\ (h # <<>> => l = "stream"),
         errors' \in Nat, faults' \in 0 .. MaxFaults,
         spoilt \subseteq spoilt', spoilt' \subseteq spoilt \cup {i},
         i \notin spoilt' =>
           d <= Want(i) /\ (part[i] \o w) \o h = Bytes(Start(i), d)
  PROVE  DownloadInv'
<1>1. /\ part \in [Streams -> Seq(Nat)] /\ held \in [Streams -> Seq(Nat)]
      /\ done \in [Streams -> Nat]
      /\ thread \in [Streams -> {"none", "request", "stream", "ended"}]
      /\ spoilt \subseteq Streams
  BY DEF DownloadInv, TypeOK
<1>2. part[i] \o w \in Seq(Nat)
  BY <1>1, ConcatProperties
<1>3. TypeOK'
  BY <1>1, <1>2 DEF DownloadInv, TypeOK, To
<1>4. PartsArePrefixes'
  <2> SUFFICES ASSUME NEW j \in Streams, j \notin spoilt' PROVE PartIsPrefix(j)'
    BY DEF PartsArePrefixes
  <2>1. CASE j = i
    <3>1. part'[j] = part[i] \o w /\ held'[j] = h /\ done'[j] = d
      BY <1>1, <2>1
    <3>2. Start(i) \in Nat /\ Want(i) \in Nat
      BY Ranges
    <3>3. d <= Want(i) /\ (part[i] \o w) \o h = Bytes(Start(i), d)
      BY <2>1
    <3>4. /\ Len(part[i] \o w) \in Nat /\ Len(part[i] \o w) <= d
          /\ part[i] \o w = Bytes(Start(i), Len(part[i] \o w))
      BY <1>2, <3>2, <3>3, BytesPrefix
    <3>5. Len(part[i] \o w) <= Want(i)
      BY <3>2, <3>3, <3>4
    <3>6. /\ part'[j] = Bytes(Start(j), Len(part'[j])) /\ Len(part'[j]) <= Want(j)
          /\ done'[j] <= Want(j) /\ part'[j] \o held'[j] = Bytes(Start(j), done'[j])
      BY <2>1, <3>1, <3>3, <3>4, <3>5
    <3>7. QED
      BY <3>6 DEF PartIsPrefix
  <2>2. CASE j # i
    <3>1. part'[j] = part[j] /\ held'[j] = held[j] /\ done'[j] = done[j]
      BY <1>1, <2>2
    <3>2. PartIsPrefix(j)
      BY DEF DownloadInv, PartsArePrefixes
    <3>3. QED
      BY <3>1, <3>2 DEF PartIsPrefix
  <2>3. QED
    BY <2>1, <2>2
<1>5. HeldByStreams'
  BY <1>1 DEF DownloadInv, HeldByStreams, To
<1>6. CountsFromFirst' /\ AssembledRight' /\ DestIsWhole' /\ CleansAfterwards'
  BY DEF DownloadInv, CountsFromFirst, AssembledRight, DestIsWhole, CleansAfterwards
<1>7. QED
  BY <1>3, <1>4, <1>5, <1>6 DEF DownloadInv

\* What a thread of an open or unopened stream starts from.
LEMMA Before ==
  ASSUME DownloadInv, NEW i \in Streams, main = "fetching"
  PROVE  /\ part[i] \in Seq(Nat) /\ held[i] \in Seq(Nat) /\ done[i] \in Nat
         /\ part \in [Streams -> Seq(Nat)] /\ done \in [Streams -> Nat]
         /\ errors \in Nat /\ faults \in 0 .. MaxFaults
         /\ Start(i) \in Nat /\ Want(i) \in Nat
         /\ i \notin spoilt => /\ done[i] <= Want(i)
                              /\ part[i] \o held[i] = Bytes(Start(i), done[i])
  BY Ranges DEF DownloadInv, TypeOK, PartsArePrefixes, PartIsPrefix

LEMMA PendingType ==
  ASSUME DownloadInv, NEW i \in Streams, main = "fetching", NEW n \in Nat
  PROVE  Pending(i, n) \in Seq(Nat) /\ Len(Pending(i, n)) \in Nat
<1>1. Bytes(Start(i) + done[i], n) \in Seq(Nat)
  <2>1. Start(i) \in Nat /\ done[i] \in Nat
    BY Before
  <2>2. Start(i) + done[i] \in Nat
    BY <2>1
  <2>3. QED
    BY <2>2, BytesType
<1>2. Pending(i, n) \in Seq(Nat)
  BY <1>1, Before, ConcatProperties DEF Pending
<1>3. QED
  BY <1>2, LenProperties

\* The next read of stream i returns a natural number of bytes of its range.
LEMMA ReadType ==
  ASSUME DownloadInv, NEW i \in Streams, main = "fetching",
         NEW n \in 1 .. Least(MaxRead, Want(i) - done[i])
  PROVE  n \in Nat /\ done[i] + n \in Nat /\ done[i] + n <= Want(i)
<1>1. MaxRead \in Nat /\ Want(i) \in Nat /\ done[i] \in Nat
  BY Before, Sizes
<1>2. n \in Nat /\ n <= Want(i) - done[i]
  BY <1>1 DEF Least
<1>3. QED
  BY <1>1, <1>2

LEMMA ReceiveKeeps ==
  ASSUME DownloadInv, NEW i \in Streams, Receive(i)
  PROVE  DownloadInv'
<1>1. main = "fetching" /\ thread[i] = "stream"
  BY DEF Receive, At
<1>2. PICK n \in 1 .. Least(MaxRead, Want(i) - done[i]) :
        /\ done' = [done EXCEPT ![i] = @ + n]
        /\ \E k \in 0 .. Least(WriterBuffer, Len(Pending(i, n))) :
             /\ Written(i, Pending(i, n), Len(Pending(i, n)) - k)
             /\ held' = [held EXCEPT ![i] = SubSeq(Pending(i, n), Len(Pending(i, n)) - k + 1,
                                                  Len(Pending(i, n)))]
  BY DEF Receive
<1>0. PICK kept \in 0 .. Least(WriterBuffer, Len(Pending(i, n))) :
        /\ Written(i, Pending(i, n), Len(Pending(i, n)) - kept)
        /\ held' = [held EXCEPT ![i] = SubSeq(Pending(i, n), Len(Pending(i, n)) - kept + 1,
                                             Len(Pending(i, n)))]
  BY <1>2
<1> DEFINE b == Pending(i, n)
           l == Len(b) - kept
           w == SubSeq(b, 1, l)
           h == SubSeq(b, l + 1, Len(b))
           d == done[i] + n
<1>3. n \in Nat /\ d \in Nat /\ d <= Want(i)
  BY <1>1, ReadType
<1>4. b \in Seq(Nat) /\ Len(b) \in Nat
  BY <1>1, <1>3, PendingType
<1>5. l \in 0 .. Len(b)
  BY <1>4, Sizes DEF Least
<1>6. w \in Seq(Nat) /\ h \in Seq(Nat) /\ w \o h = b
  BY <1>4, <1>5, Split
<1>7. part' = [part EXCEPT ![i] = @ \o w] /\ held' = [held EXCEPT ![i] = h]
  BY <1>0 DEF Written
<1>8. done' = [done EXCEPT ![i] = d]
  BY <1>2
<1>9. ASSUME i \notin spoilt PROVE (part[i] \o w) \o h = Bytes(Start(i), d)
  <2>1. /\ part[i] \in Seq(Nat) /\ held[i] \in Seq(Nat) /\ done[i] \in Nat
        /\ Start(i) \in Nat
        /\ part[i] \o held[i] = Bytes(Start(i), done[i])
    BY <1>1, <1>9, Before
  <2> DEFINE t == Bytes(Start(i) + done[i], n)
  <2>2. Start(i) + done[i] \in Nat
    BY <2>1
  <2>3. t \in Seq(Nat)
    BY <1>3, <2>2, BytesType
  <2>4. b = held[i] \o t
    BY DEF Pending
  <2> HIDE DEF t, w, h, b
  <2>5. (part[i] \o w) \o h = part[i] \o (w \o h)
    BY <1>6, <2>1, ConcatAssoc
  <2>6. part[i] \o (held[i] \o t) = (part[i] \o held[i]) \o t
    BY <2>1, <2>3, ConcatAssoc
  <2>7. (part[i] \o w) \o h = Bytes(Start(i), done[i]) \o t
    BY <1>6, <2>1, <2>4, <2>5, <2>6
  <2>8. Bytes(Start(i), done[i]) \o t = Bytes(Start(i), done[i] + n)
    BY <1>3, <2>1, BytesConcat DEF t
  <2>9. QED
    BY <2>7, <2>8
<1>10. UNCHANGED <<tmp, dest, main, next>> /\ errors' \in Nat /\ faults' \in 0 .. MaxFaults
       /\ spoilt' = spoilt /\ To(i, "stream")
  <2>1. UNCHANGED <<tmp, dest, main, thread, errors, next, faults, spoilt>>
    BY DEF Receive
  <2>2. thread = [thread EXCEPT ![i] = "stream"]
    BY <1>1 DEF DownloadInv, TypeOK
  <2>3. QED
    BY <1>1, <2>1, <2>2, Before DEF To
<1> HIDE DEF b, l, w, h, d
<1>11. QED
  BY <1>1, <1>3, <1>6, <1>7, <1>8, <1>9, <1>10, AppendKeeps

\* After an exception the thread is in its loop or has ended.
LEMMA CaughtType ==
  ASSUME DownloadInv, NEW i \in Streams, main = "fetching", Caught(i)
  PROVE  errors' \in Nat /\ \E l \in {"request", "stream", "ended"} : To(i, l)
<1>1. errors \in Nat
  BY Before
<1>2. CASE done[i] < Want(i)
  <2>1. errors' = errors + 1 /\ To(i, IF errors + 1 > MaxErrors THEN "ended" ELSE "request")
    BY <1>2 DEF Caught
  <2>2. To(i, "ended") \/ To(i, "request")
    BY <2>1
  <2>3. QED
    BY <1>1, <2>1, <2>2
<1>3. CASE ~(done[i] < Want(i))
  BY <1>1, <1>3 DEF Caught
<1>4. QED
  BY <1>2, <1>3

LEMMA CloseKeeps ==
  ASSUME DownloadInv, NEW i \in Streams, main = "fetching", Close(i),
         UNCHANGED <<tmp, dest, main, done, next, spoilt>>,
         faults' \in 0 .. MaxFaults, errors' \in Nat,
         \E l \in {"request", "stream", "ended"} : To(i, l)
  PROVE  DownloadInv'
<1>1. /\ part[i] \in Seq(Nat) /\ held[i] \in Seq(Nat) /\ done[i] \in Nat
      /\ done \in [Streams -> Nat]
      /\ i \notin spoilt => /\ done[i] <= Want(i)
                           /\ part[i] \o held[i] = Bytes(Start(i), done[i])
  BY Before
<1>2. SubSeq(held[i], 1, Len(held[i])) = held[i]
  BY <1>1, SubSeqFull
<1>3. part' = [part EXCEPT ![i] = @ \o held[i]] /\ held' = [held EXCEPT ![i] = <<>>]
  BY <1>2 DEF Close, Written
<1>4. done' = [done EXCEPT ![i] = done[i]]
  BY <1>1
<1>5. part[i] \o held[i] \in Seq(Nat) /\ <<>> \in Seq(Nat)
  BY <1>1, ConcatProperties, EmptySeq
<1>6. (part[i] \o held[i]) \o <<>> = part[i] \o held[i]
  BY <1>5, ConcatEmptySeq
<1>7. QED
  BY <1>1, <1>3, <1>4, <1>5, <1>6, AppendKeeps

\* A write that fails spoils its stream, and no other.
LEMMA SpoilKeeps ==
  ASSUME DownloadInv, NEW i \in Streams, main = "fetching",
         NEW b \in Seq(Nat), NEW l \in 0 .. Len(b), Written(i, b, l),
         held' = [held EXCEPT ![i] = <<>>], spoilt' = spoilt \cup {i},
         UNCHANGED <<tmp, dest, main, done, next>>, Fault, Caught(i)
  PROVE  DownloadInv'
<1>1. SubSeq(b, 1, l) \in Seq(Nat) /\ <<>> \in Seq(Nat)
  BY Split, EmptySeq
<1>2. part' = [part EXCEPT ![i] = @ \o SubSeq(b, 1, l)]
  BY DEF Written
<1>3. done[i] \in Nat /\ done' = [done EXCEPT ![i] = done[i]]
  BY Before
<1>4. errors' \in Nat /\ (\E m \in {"request", "stream", "ended"} : To(i, m))
      /\ faults' \in 0 .. MaxFaults
  BY CaughtType, FaultType DEF DownloadInv
<1>5. QED
  BY <1>1, <1>2, <1>3, <1>4, AppendKeeps

LEMMA ThreadKeeps ==
  ASSUME DownloadInv, NEW i \in Streams, ThreadStep(i)
  PROVE  DownloadInv'
<1>1. CASE Enough(i) \/ Connect(i)
  BY <1>1, MoveKeeps
<1>2. CASE Receive(i)
  BY <1>2, ReceiveKeeps
<1>3. CASE EndOfStream(i)
  <2>1. main = "fetching" /\ faults' \in 0 .. MaxFaults /\ errors' \in Nat
    BY <1>3, FaultType, Before DEF EndOfStream, At, DownloadInv, TypeOK
  <2>2. \E l \in {"request", "stream", "ended"} : To(i, l)
    BY <1>3 DEF EndOfStream
  <2>3. Close(i) /\ UNCHANGED <<tmp, dest, main, done, next, spoilt>>
    BY <1>3 DEF EndOfStream
  <2>4. QED
    BY <2>1, <2>2, <2>3, CloseKeeps
<1>4. CASE ReadFails(i)
  <2>1. main = "fetching" /\ faults' \in 0 .. MaxFaults
    BY <1>4, FaultType DEF ReadFails, At, DownloadInv
  <2>2. errors' \in Nat /\ \E l \in {"request", "stream", "ended"} : To(i, l)
    BY <1>4, <2>1, CaughtType DEF ReadFails
  <2>3. Close(i) /\ UNCHANGED <<tmp, dest, main, done, next, spoilt>>
    BY <1>4 DEF ReadFails
  <2>4. QED
    BY <2>1, <2>2, <2>3, CloseKeeps
<1>5. CASE WriteFails(i)
  <2>1. main = "fetching"
    BY <1>5 DEF WriteFails, At
  <2>2. PICK n \in 1 .. Least(MaxRead, Want(i) - done[i]) :
          \E l \in 0 .. Len(Pending(i, n)) - 1 : Written(i, Pending(i, n), l)
    BY <1>5 DEF WriteFails
  <2>6. PICK l \in 0 .. Len(Pending(i, n)) - 1 : Written(i, Pending(i, n), l)
    BY <2>2
  <2>3. Pending(i, n) \in Seq(Nat) /\ Len(Pending(i, n)) \in Nat
    BY <2>1, ReadType, PendingType
  <2>4. l \in 0 .. Len(Pending(i, n))
    BY <2>3
  <2>5. QED
    BY <1>5, <2>1, <2>3, <2>4, <2>6, SpoilKeeps DEF WriteFails
<1>6. CASE CloseFails(i)
  <2>1. main = "fetching"
    BY <1>6 DEF CloseFails, At
  <2>2. PICK l \in 0 .. Len(held[i]) - 1 : Written(i, held[i], l)
    BY <1>6 DEF CloseFails
  <2>3. held[i] \in Seq(Nat) /\ Len(held[i]) \in Nat
    BY <2>1, Before, LenProperties
  <2>4. l \in 0 .. Len(held[i])
    BY <2>3
  <2>5. QED
    BY <1>6, <2>1, <2>2, <2>3, <2>4, SpoilKeeps DEF CloseFails
<1>7. QED
  BY <1>1, <1>2, <1>3, <1>4, <1>5, <1>6 DEF ThreadStep

LEMMA NextInv == DownloadInv /\ [Next]_vars => DownloadInv'
<1> SUFFICES ASSUME DownloadInv, [Next]_vars PROVE DownloadInv'
  OBVIOUS
<1>1. CASE Incomplete \/ Mismatch \/ Complete \/ Interrupted
  <2>1. Ends /\ UNCHANGED <<files, spoilt>> /\ faults' \in 0 .. MaxFaults
    BY <1>1, FaultType DEF Incomplete, Mismatch, Complete, Interrupted, DownloadInv, TypeOK
  <2>2. QED
    BY <2>1, EndsKeeps
<1>2. CASE Run
  BY <1>2, RunKeeps
<1>3. CASE Assemble
  BY <1>3, AssembleKeeps
<1>4. CASE CopyPart
  BY <1>4, CopyPartKeeps
<1>5. CASE Rename
  BY <1>5, RenameKeeps
<1>6. CASE Unlink
  BY <1>6, UnlinkKeeps
<1>7. CASE \E i \in Streams : ThreadStep(i)
  BY <1>7, ThreadKeeps
<1>8. CASE UNCHANGED vars \/ AlreadyComplete
  <2>1. UNCHANGED <<part, tmp, dest, main, thread, done, held, errors, next, faults, spoilt>>
    BY <1>8 DEF vars, files, process, AlreadyComplete
  <2>2. QED
    BY <2>1 DEF DownloadInv, TypeOK, PartsArePrefixes, PartIsPrefix, HeldByStreams,
       CountsFromFirst, AssembledRight, DestIsWhole, CleansAfterwards
<1>9. QED
  BY <1>1, <1>2, <1>3, <1>4, <1>5, <1>6, <1>7, <1>8 DEF Next, MainStep

\* Every part whose writes did not fail is the beginning of its range, in the file
\* and with what its file object holds back, whatever is interrupted.
THEOREM DownloadCorrect == Spec => []DownloadInv
<1>1. QED
  BY InitInv, NextInv, PTL DEF Spec

\* The file that appears at the destination is the remote file, unless a write
\* failed: to compare its size is enough.
THEOREM DestCorrect == Spec => []DestIsWhole
<1>1. DownloadInv => DestIsWhole
  BY DEF DownloadInv
<1>2. QED
  BY <1>1, DownloadCorrect, PTL

-----------------------------------------------------------------------------
(* Parts only grow until the file is in place.                             *)

\* Sequence s begins with t.
Extends(s, t) == Len(t) <= Len(s) /\ SubSeq(s, 1, Len(t)) = t

LEMMA PrefixOfConcat ==
  \A s, t \in Seq(Nat) : Extends(s \o t, s)
<1> TAKE s, t \in Seq(Nat)
<1>1. s \o t \in Seq(Nat) /\ Len(s) \in Nat /\ Len(t) \in Nat
      /\ Len(s \o t) = Len(s) + Len(t)
  BY ConcatProperties, LenProperties
<1>2. CASE s = <<>>
  <2>1. Len(s) = 0
    BY <1>2, EmptySeq
  <2>2. QED
    BY <1>1, <1>2, <2>1, SubSeqEmpty DEF Extends
<1>3. CASE s # <<>>
  <2>1. 1 \in 1 .. Len(s) /\ Len(s) \in 1 .. Len(s)
    BY <1>1, <1>3, EmptySeq
  <2>2. SubSeq(s \o t, 1, Len(s)) = SubSeq(s, 1, Len(s))
    BY <2>1, SubSeqOfConcat1
  <2>3. QED
    BY <1>1, <2>2, SubSeqFull DEF Extends
<1>4. QED
  BY <1>2, <1>3

LEMMA ExtendsItself == \A s \in Seq(Nat) : Extends(s, s)
  BY SubSeqFull, LenProperties DEF Extends

Grow == \A j \in Streams : Extends(part'[j], part[j])

LEMMA UnchangedGrows == TypeOK /\ UNCHANGED part => Grow
<1> SUFFICES ASSUME TypeOK, UNCHANGED part, NEW j \in Streams
             PROVE  Extends(part[j], part[j])
  BY DEF Grow
<1>1. part[j] \in Seq(Nat)
  BY DEF TypeOK
<1>2. QED
  BY <1>1, ExtendsItself

LEMMA WrittenGrows ==
  ASSUME TypeOK, NEW i \in Streams, NEW b \in Seq(Nat), NEW l \in 0 .. Len(b),
         Written(i, b, l)
  PROVE  Grow
<1>1. SubSeq(b, 1, l) \in Seq(Nat) /\ part \in [Streams -> Seq(Nat)]
  BY Split DEF TypeOK
<1> SUFFICES ASSUME NEW j \in Streams PROVE Extends(part'[j], part[j])
  BY DEF Grow
<1>2. CASE j = i
  <2>1. part'[j] = part[j] \o SubSeq(b, 1, l)
    BY <1>1, <1>2 DEF Written
  <2>2. QED
    BY <1>1, <2>1, PrefixOfConcat
<1>3. CASE j # i
  <2>1. part'[j] = part[j] /\ part[j] \in Seq(Nat)
    BY <1>1, <1>3 DEF Written
  <2>2. QED
    BY <2>1, ExtendsItself
<1>4. QED
  BY <1>2, <1>3

LEMMA CloseGrows ==
  ASSUME DownloadInv, NEW i \in Streams, Close(i)
  PROVE  Grow
<1>1. held[i] \in Seq(Nat) /\ Len(held[i]) \in Nat
  BY LenProperties DEF DownloadInv, TypeOK
<1>2. Len(held[i]) \in 0 .. Len(held[i])
  BY <1>1
<1>3. QED
  BY <1>1, <1>2, WrittenGrows DEF Close, DownloadInv

LEMMA ThreadGrows ==
  ASSUME DownloadInv, NEW i \in Streams, ThreadStep(i)
  PROVE  Grow
<1>1. TypeOK
  BY DEF DownloadInv
<1>2. CASE Enough(i) \/ Connect(i)
  BY <1>1, <1>2, UnchangedGrows DEF Enough, Connect, files
<1>3. CASE Receive(i)
  <2>1. main = "fetching"
    BY <1>3 DEF Receive, At
  <2>2. PICK n \in 1 .. Least(MaxRead, Want(i) - done[i]) :
          \E k \in 0 .. Least(WriterBuffer, Len(Pending(i, n))) :
            Written(i, Pending(i, n), Len(Pending(i, n)) - k)
    BY <1>3 DEF Receive
  <2>3. PICK k \in 0 .. Least(WriterBuffer, Len(Pending(i, n))) :
          Written(i, Pending(i, n), Len(Pending(i, n)) - k)
    BY <2>2
  <2>4. Pending(i, n) \in Seq(Nat) /\ Len(Pending(i, n)) \in Nat
    BY <2>1, ReadType, PendingType
  <2>5. Len(Pending(i, n)) - k \in 0 .. Len(Pending(i, n))
    BY <2>4, Sizes DEF Least
  <2>6. QED
    BY <1>1, <2>3, <2>4, <2>5, WrittenGrows
<1>4. CASE EndOfStream(i) \/ ReadFails(i)
  BY <1>4, CloseGrows DEF EndOfStream, ReadFails
<1>5. CASE WriteFails(i)
  <2>1. main = "fetching"
    BY <1>5 DEF WriteFails, At
  <2>2. PICK n \in 1 .. Least(MaxRead, Want(i) - done[i]) :
          \E l \in 0 .. Len(Pending(i, n)) - 1 : Written(i, Pending(i, n), l)
    BY <1>5 DEF WriteFails
  <2>3. PICK l \in 0 .. Len(Pending(i, n)) - 1 : Written(i, Pending(i, n), l)
    BY <2>2
  <2>4. Pending(i, n) \in Seq(Nat) /\ Len(Pending(i, n)) \in Nat
    BY <2>1, ReadType, PendingType
  <2>5. l \in 0 .. Len(Pending(i, n))
    BY <2>4
  <2>6. QED
    BY <1>1, <2>3, <2>4, <2>5, WrittenGrows
<1>6. CASE CloseFails(i)
  <2>1. PICK l \in 0 .. Len(held[i]) - 1 : Written(i, held[i], l)
    BY <1>6 DEF CloseFails
  <2>2. held[i] \in Seq(Nat) /\ Len(held[i]) \in Nat
    BY <1>1, LenProperties DEF TypeOK
  <2>3. l \in 0 .. Len(held[i])
    BY <2>2
  <2>4. QED
    BY <1>1, <2>1, <2>2, <2>3, WrittenGrows
<1>7. QED
  BY <1>2, <1>3, <1>4, <1>5, <1>6 DEF ThreadStep

\* Nothing received is lost before the file is in place, not even by a stream
\* whose writes fail.
THEOREM PartsOnlyGrowCorrect == Spec => PartsOnlyGrow
<1> DEFINE Safe ==
      \/ dest # <<>>
      \/ \A i \in Streams : /\ Len(part[i]) <= Len(part'[i])
                             /\ SubSeq(part'[i], 1, Len(part[i])) = part[i]
<1>1. ASSUME DownloadInv, [Next]_vars
      PROVE  [Safe]_vars
  <2> SUFFICES dest # <<>> \/ Grow
    BY DEF Grow, Extends
  <2> USE <1>1
  <2>1. TypeOK
    BY DEF DownloadInv
  <2>2. CASE Unlink
    BY <2>2 DEF Unlink, DownloadInv, CleansAfterwards
  <2>3. CASE \E i \in Streams : ThreadStep(i)
    BY <2>3, ThreadGrows
  <2>4. CASE \/ UNCHANGED vars \/ AlreadyComplete \/ Interrupted \/ Run \/ Incomplete
             \/ Assemble \/ CopyPart \/ Mismatch \/ Rename \/ Complete
    <3>1. UNCHANGED part
      BY <2>4 DEF vars, files, AlreadyComplete, Interrupted, Run, Incomplete, Assemble,
         CopyPart, Mismatch, Rename, Complete
    <3>2. QED
      BY <2>1, <3>1, UnchangedGrows
  <2>5. QED
    BY <2>2, <2>3, <2>4 DEF Next, MainStep
<1>2. QED
  BY <1>1, DownloadCorrect, PTL DEF Spec, PartsOnlyGrow

=============================================================================
