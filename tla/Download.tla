------------------------------ MODULE Download ------------------------------
(***************************************************************************)
(* The download of a model file (download() in nvmoe): one thread per      *)
(* byte range appends what it receives to a part file, a range is resumed  *)
(* from where its part ends, and when all threads have ended the parts are *)
(* assembled in a .tmp file that is renamed to its destination if it has   *)
(* the right size.  The process may be interrupted between any two steps   *)
(* and is then run again by its user.                                      *)
(*                                                                         *)
(* The byte of the remote file at offset o is o itself, and an absent file *)
(* is an empty one: the code asks for no difference between the two that   *)
(* matters here.                                                           *)
(***************************************************************************)
EXTENDS Integers, Sequences, FiniteSetsExt

CONSTANTS
  Size,          \* bytes of the remote file
  Chunks,        \* byte ranges, and threads
  MaxRead,       \* bytes one read of the response returns at most (1 MiB)
  WriterBuffer,  \* bytes a file object may hold back before it writes them
  MaxErrors,     \* errors of a run after which a failing thread gives up (200)
  WritesMayFail, \* whether the disk may be full
  MaxFaults      \* bound on the interruptions and failures of a behaviour

Streams == 0 .. Chunks - 1

Least(a, b) == IF a <= b THEN a ELSE b

Step     == (Size + Chunks - 1) \div Chunks
Start(i) == i * Step
Want(i)  == Least((i + 1) * Step, Size) - Start(i)

\* n bytes of the remote file from offset o.
Bytes(o, n) == [j \in 1 .. n |-> o + j - 1]

Whole == Bytes(0, Size)

\* No range is empty: the file is much larger than the square of Chunks.
ASSUME DownloadAssumption ==
  /\ Size \in Nat \ {0}
  /\ Chunks \in Nat \ {0}
  /\ (Chunks - 1) * Step < Size
  /\ MaxRead \in Nat \ {0}
  /\ WriterBuffer \in Nat
  /\ MaxErrors \in Nat
  /\ WritesMayFail \in BOOLEAN
  /\ MaxFaults \in Nat

VARIABLES
  part, tmp, dest, \* the files
  main,   \* where the process is; "down" if there is none
  thread, \* stream -> where its thread is
  done,   \* stream -> bytes counted as received
  held,   \* stream -> bytes accepted by the file object, not yet in the file
  errors, \* errors noted in this run
  next,   \* the next part to copy, or to remove
  faults, \* interruptions and failures so far
  spoilt  \* history: the streams of which a write has failed

files == <<part, tmp, dest>>
process == <<main, thread, done, held, errors, next>>
vars == <<files, process, faults, spoilt>>

\* The process is gone, and with it what was in its memory.
Ends ==
  /\ main' = "down"
  /\ thread' = [i \in Streams |-> "none"]
  /\ done' = [i \in Streams |-> 0]
  /\ held' = [i \in Streams |-> <<>>]
  /\ errors' = 0
  /\ next' = 0

Init ==
  /\ part = [i \in Streams |-> <<>>]
  /\ tmp = <<>>
  /\ dest = <<>>
  /\ main = "down"
  /\ thread = [i \in Streams |-> "none"]
  /\ done = [i \in Streams |-> 0]
  /\ held = [i \in Streams |-> <<>>]
  /\ errors = 0
  /\ next = 0
  /\ faults = 0
  /\ spoilt = {}

Fault == faults < MaxFaults /\ faults' = faults + 1

-----------------------------------------------------------------------------
(* The main thread.                                                        *)

\* Fault: the ranges are fetched from their start, and the parts kept.
RunAfresh ==
  /\ main = "down"
  /\ Len(dest) # Size
  /\ main' = "fetching"
  /\ thread' = [i \in Streams |-> "request"]
  /\ UNCHANGED <<files, done, held, errors, next, faults, spoilt>>

\* The user runs the program: each range is resumed from the length of its part.
Run ==
  /\ main = "down"
  /\ Len(dest) # Size
  /\ main' = "fetching"
  /\ thread' = [i \in Streams |-> "request"]
  /\ done' = [i \in Streams |-> Len(part[i])]
  /\ UNCHANGED <<files, held, errors, next, faults, spoilt>>

\* "already complete": a run finds the file and does nothing.
AlreadyComplete == main = "down" /\ Len(dest) = Size /\ UNCHANGED vars

AllEnded == main = "fetching" /\ \A i \in Streams : thread[i] = "ended"

Received == MapThenSumSet(LAMBDA i : done[i], Streams)

\* Fault: the file is taken as incomplete when nothing is missing.
IncompleteAtSize ==
  /\ AllEnded
  /\ Received <= Size
  /\ Ends
  /\ UNCHANGED <<files, faults, spoilt>>

\* "download incomplete; rerun to resume".
Incomplete ==
  /\ AllEnded
  /\ Received < Size
  /\ Ends
  /\ UNCHANGED <<files, faults, spoilt>>

Assemble ==
  /\ AllEnded
  /\ Received >= Size
  /\ tmp' = <<>>
  /\ main' = "assembling"
  /\ UNCHANGED <<part, dest, thread, done, held, errors, next, faults, spoilt>>

\* Fault: a part is removed as soon as it is copied.
CopyAndRemovePart ==
  /\ main = "assembling"
  /\ next < Chunks
  /\ tmp' = tmp \o part[next]
  /\ part' = [part EXCEPT ![next] = <<>>]
  /\ next' = next + 1
  /\ UNCHANGED <<dest, main, thread, done, held, errors, faults, spoilt>>

CopyPart ==
  /\ main = "assembling"
  /\ next < Chunks
  /\ tmp' = tmp \o part[next]
  /\ next' = next + 1
  /\ UNCHANGED <<part, dest, main, thread, done, held, errors, faults, spoilt>>

\* "assembled size mismatch; parts kept - rerun".
Mismatch ==
  /\ main = "assembling"
  /\ next = Chunks
  /\ Len(tmp) # Size
  /\ Ends
  /\ UNCHANGED <<files, faults, spoilt>>

Rename ==
  /\ main = "assembling"
  /\ next = Chunks
  /\ Len(tmp) = Size
  /\ dest' = tmp
  /\ tmp' = <<>>
  /\ main' = "cleaning"
  /\ next' = 0
  /\ UNCHANGED <<part, thread, done, held, errors, faults, spoilt>>

Unlink ==
  /\ main = "cleaning"
  /\ next < Chunks
  /\ part' = [part EXCEPT ![next] = <<>>]
  /\ next' = next + 1
  /\ UNCHANGED <<tmp, dest, main, thread, done, held, errors, faults, spoilt>>

\* "complete + size-verified".
Complete ==
  /\ main = "cleaning"
  /\ next = Chunks
  /\ Ends
  /\ UNCHANGED <<files, faults, spoilt>>

\* Ctrl-c, a kill, or an exception of the main thread, as on a full disk.
Interrupted ==
  /\ main # "down"
  /\ Fault
  /\ Ends
  /\ UNCHANGED <<files, spoilt>>

-----------------------------------------------------------------------------
(* The thread of stream i, in the body of its loop.                        *)

At(i, l) == main = "fetching" /\ thread[i] = l

To(i, l) == thread' = [thread EXCEPT ![i] = l]

\* The while condition is false.
Enough(i) ==
  /\ At(i, "request")
  /\ done[i] >= Want(i)
  /\ To(i, "ended")
  /\ UNCHANGED <<files, main, done, held, errors, next, faults, spoilt>>

\* The server answers with the range from Start(i) + done[i] on, and the part is
\* opened to append.
Connect(i) ==
  /\ At(i, "request")
  /\ done[i] < Want(i)
  /\ To(i, "stream")
  /\ UNCHANGED <<files, main, done, held, errors, next, faults, spoilt>>

\* What reaches the file: the first n of the bytes b.
Written(i, b, n) == part' = [part EXCEPT ![i] = @ \o SubSeq(b, 1, n)]

\* Bytes the file object has when the next n of the range are handed to it.
Pending(i, n) == held[i] \o Bytes(Start(i) + done[i], n)

\* One read and one write; the file object holds back the last `kept` bytes.
Receive(i) ==
  /\ At(i, "stream")
  /\ \E n \in 1 .. Least(MaxRead, Want(i) - done[i]) :
       LET b == Pending(i, n)
       IN  /\ done' = [done EXCEPT ![i] = @ + n]
           /\ \E kept \in 0 .. Least(WriterBuffer, Len(b)) :
                /\ Written(i, b, Len(b) - kept)
                /\ held' = [held EXCEPT ![i] = SubSeq(b, Len(b) - kept + 1, Len(b))]
  /\ UNCHANGED <<tmp, dest, main, thread, errors, next, faults, spoilt>>

\* Fault: what the file object held back is dropped, not written.
CloseUnflushed(i) ==
  /\ held' = [held EXCEPT ![i] = <<>>]
  /\ UNCHANGED part

\* The part is closed, and what the file object held back is written first.
Close(i) ==
  /\ Written(i, held[i], Len(held[i]))
  /\ held' = [held EXCEPT ![i] = <<>>]

\* An exception ends the response: it is noted unless the range is complete, and
\* after too many of them, in all streams together, the thread gives up.
Caught(i) ==
  IF done[i] < Want(i)
  THEN /\ errors' = errors + 1
       /\ To(i, IF errors + 1 > MaxErrors THEN "ended" ELSE "request")
  ELSE To(i, "request") /\ UNCHANGED errors

\* The response ends, with the range or before.
EndOfStream(i) ==
  /\ At(i, "stream")
  /\ \/ done[i] = Want(i) /\ UNCHANGED faults
     \/ done[i] < Want(i) /\ Fault
  /\ Close(i)
  /\ To(i, "request")
  /\ UNCHANGED <<tmp, dest, main, done, errors, next, spoilt>>

\* No connection, or a connection lost or timed out.
ReadFails(i) ==
  /\ At(i, "request") \/ At(i, "stream")
  /\ done[i] < Want(i)
  /\ Fault
  /\ Close(i)
  /\ Caught(i)
  /\ UNCHANGED <<tmp, dest, main, done, next, spoilt>>

\* A write fails: any number of the bytes it was given, and of those held back,
\* have reached the file, and none of those it was given is counted.
WriteFails(i) ==
  /\ WritesMayFail
  /\ At(i, "stream")
  /\ Fault
  /\ \E n \in 1 .. Least(MaxRead, Want(i) - done[i]) :
       \E l \in 0 .. Len(Pending(i, n)) - 1 : Written(i, Pending(i, n), l)
  /\ held' = [held EXCEPT ![i] = <<>>]
  /\ spoilt' = spoilt \cup {i}
  /\ Caught(i)
  /\ UNCHANGED <<tmp, dest, main, done, next>>

\* The write of the bytes held back fails when the part is closed: they had been
\* counted when they were handed to the file object.
CloseFails(i) ==
  /\ WritesMayFail
  /\ At(i, "stream")
  /\ Fault
  /\ \E l \in 0 .. Len(held[i]) - 1 : Written(i, held[i], l)
  /\ held' = [held EXCEPT ![i] = <<>>]
  /\ spoilt' = spoilt \cup {i}
  /\ Caught(i)
  /\ UNCHANGED <<tmp, dest, main, done, next>>

-----------------------------------------------------------------------------
ThreadStep(i) ==
  \/ Enough(i) \/ Connect(i) \/ Receive(i) \/ EndOfStream(i)
  \/ ReadFails(i) \/ WriteFails(i) \/ CloseFails(i)

MainStep ==
  \/ Run \/ Incomplete \/ Assemble \/ CopyPart \/ Mismatch \/ Rename \/ Unlink \/ Complete

Next ==
  \/ MainStep
  \/ AlreadyComplete
  \/ Interrupted
  \/ \E i \in Streams : ThreadStep(i)

Spec == Init /\ [][Next]_vars

(* The user runs the program until it says that the file is complete, and    *)
(* its threads are not suspended for ever.                                   *)
FairSpec == Spec /\ WF_vars(MainStep) /\ \A i \in Streams : WF_vars(ThreadStep(i))

-----------------------------------------------------------------------------
(* Properties.                                                             *)

\* Every variable has its type, and no stream counts more than its range.
TypeOK ==
  /\ part \in [Streams -> Seq(Nat)]
  /\ tmp \in Seq(Nat)
  /\ dest \in Seq(Nat)
  /\ main \in {"down", "fetching", "assembling", "cleaning"}
  /\ thread \in [Streams -> {"none", "request", "stream", "ended"}]
  /\ done \in [Streams -> Nat]
  /\ held \in [Streams -> Seq(Nat)]
  /\ errors \in Nat
  /\ next \in 0 .. Chunks
  /\ faults \in 0 .. MaxFaults
  /\ spoilt \subseteq Streams

\* Part i is the beginning of its range, and with what its file object holds back
\* it is what its thread has counted.
PartIsPrefix(i) ==
  /\ Len(part[i]) <= Want(i)
  /\ part[i] = Bytes(Start(i), Len(part[i]))
  /\ main = "fetching" => /\ done[i] <= Want(i)
                          /\ part[i] \o held[i] = Bytes(Start(i), done[i])

\* A part none of whose writes has failed is the beginning of its range, also
\* after an interruption: a rerun, which knows a part only by its length, relies
\* on it (download, nvmoe 181-196).
PartsArePrefixes == \A i \in Streams \ spoilt : PartIsPrefix(i)

\* What is held back is held by an open part.
HeldByStreams ==
  \A i \in Streams : held[i] # <<>> => main = "fetching" /\ thread[i] = "stream"

\* Parts are counted from the first when they are copied, and when they are removed.
CountsFromFirst == main \in {"down", "fetching"} => next = 0

\* The parts copied so far do not reach beyond their ranges, and if they reach
\* the end of the last one they are all there is before it.
AssembledRight ==
  main = "assembling" /\ spoilt = {} =>
    LET upto == Least(next * Step, Size)
    IN  Len(tmp) <= upto /\ (Len(tmp) = upto => tmp = Bytes(0, upto))

\* A file at the destination is the remote file: it appears at once and is
\* never seen incomplete or mixed up, wherever a run is interrupted, although
\* only its size is compared (download, nvmoe 219-228); unless a write failed.
DestIsWhole == dest # <<>> /\ spoilt = {} => dest = Whole

\* Parts are removed only when a file of the right size is in place.
CleansAfterwards == (main = "cleaning" => dest # <<>>) /\ Len(dest) \in {0, Size}

\* The inductive invariant.
DownloadInv ==
  /\ TypeOK
  /\ PartsArePrefixes /\ HeldByStreams
  /\ CountsFromFirst /\ AssembledRight
  /\ DestIsWhole /\ CleansAfterwards

\* Nothing that has been received is lost before the file is in place: until then
\* no step, be it an interruption, takes a byte from a part ("resumable, ctrl-c
\* safe", nvmoe 176; "parts kept", nvmoe 227).
PartsOnlyGrow ==
  [][\/ dest # <<>>
     \/ \A i \in Streams : /\ Len(part[i]) <= Len(part'[i])
                            /\ SubSeq(part'[i], 1, Len(part[i])) = part[i]]_vars

\* A user who runs the program again after each interruption gets the file
\* ("rerun to resume", nvmoe 220), unless a write failed.
RerunCompletes == <>(dest = Whole \/ spoilt # {})

\* A file at the destination is the remote file: each failure is "transient;
\* resume from byte offset" (nvmoe 201), a failed write included.
EveryFailureIsTransient == dest # <<>> => dest = Whole

=============================================================================
