-------------------------------- MODULE Gguf --------------------------------
(***************************************************************************)
(* GGUF files, as far as the tools read and write them                     *)
(* (tools/gguf_lite.py).  A file is a record:                              *)
(*   whole    whether its header can be parsed to its end,                 *)
(*   version  of the format,                                               *)
(*   kv       the metadata section, a sequence of <<key, value>>,          *)
(*   tensors  a sequence of [name, ne, type, offset], the offset counted   *)
(*            from the start of the tensor data,                           *)
(*   data     the bytes of the tensor data, up to the end of the file.     *)
(* The header's bytes are counted and not spelt: one for each entry.       *)
(***************************************************************************)
EXTENDS SeqFolds

CONSTANTS
  GGML_TYPES,             \* type -> [blk |-> elements of a block, bytes |-> its bytes]
  GGUF_DEFAULT_ALIGNMENT

ASSUME GgufAssumption ==
  /\ \A type \in DOMAIN GGML_TYPES :
       GGML_TYPES[type].blk \in Nat \ {0} /\ GGML_TYPES[type].bytes \in Nat \ {0}
  /\ GGUF_DEFAULT_ALIGNMENT \in Nat \ {0}

align_up(x, a) == ((x + a - 1) \div a) * a

\* A type the table knows, and rows of whole blocks.
Sizeable(t) == t.type \in DOMAIN GGML_TYPES /\ t.ne[1] % GGML_TYPES[t.type].blk = 0

tensor_nbytes(t) ==
  LET row_bytes == (t.ne[1] \div GGML_TYPES[t.type].blk) * GGML_TYPES[t.type].bytes
  IN  row_bytes * ProductOf(Tail(t.ne))

\* A later entry of the metadata hides an earlier one of the same key.
Keyed(f, key) == {i \in 1 .. Len(f.kv) : f.kv[i][1] = key}

Lookup(f, key, default) ==
  IF Keyed(f, key) = {} THEN default
  ELSE f.kv[CHOOSE i \in Keyed(f, key) : \A j \in Keyed(f, key) : j <= i][2]

Alignment(f) == Lookup(f, "general.alignment", GGUF_DEFAULT_ALIGNMENT)

\* The entries of the header, then the tensor data.
data_start(f) == Len(f.kv) + Len(f.tensors)

HeaderByte == -2

FileBytes(f) == [i \in 1 .. data_start(f) |-> HeaderByte] \o f.data

abs_offset(f, t) == data_start(f) + t.offset

file_size(f) == Len(FileBytes(f))

\* A file that ends, or is cut, in its header.
NoGguf == [whole |-> FALSE, version |-> 0, kv |-> <<>>, tensors |-> <<>>, data |-> <<>>]

\* Tensors that come after tensor i when they are sorted by their offsets.
Behind(f, i) ==
  {j \in 1 .. Len(f.tensors) : \/ f.tensors[j].offset > f.tensors[i].offset
                               \/ f.tensors[j].offset = f.tensors[i].offset /\ j > i}

\* Up to where tensor i may reach: the next tensor, or the end of the file.
Reach(f, i) ==
  IF Behind(f, i) = {} THEN Len(f.data)
  ELSE CHOOSE o \in {f.tensors[j].offset : j \in Behind(f, i)} :
         \A j \in Behind(f, i) : o <= f.tensors[j].offset

\* Each tensor starts aligned and fills the room up to the next one, padding aside.
_validate_layout(f) ==
  \A i \in 1 .. Len(f.tensors) :
    LET t == f.tensors[i]
        gap == Reach(f, i) - t.offset
    IN  /\ t.offset % Alignment(f) = 0
        /\ tensor_nbytes(t) <= gap
        /\ gap < tensor_nbytes(t) + Alignment(f)

\* The file can be parsed: the tools stop with an error otherwise.
read_gguf(f) ==
  /\ f.whole
  /\ f.version \in {2, 3}
  /\ \A t \in ToSet(f.tensors) : Sizeable(t)
  /\ _validate_layout(f)

TensorNames(f) == {t.name : t \in ToSet(f.tensors)}

\* The first tensor of that name.
tensor(f, name) == SelectInSeq(f.tensors, LAMBDA t : t.name = name)

Named(f, name) == f.tensors[tensor(f, name)]

-----------------------------------------------------------------------------
(* Ranges of bytes.  An offset counts from 0.                              *)

InRange(b, off, n) == off + n <= Len(b)

Range0(b, off, n) == SubSeq(b, off + 1, off + n)

\* What can be read of a range that may reach behind the end.
Clipped(b, off, n) == SubSeq(b, off + 1, Min({off + n, Len(b)}))

Zeros(n) == [i \in 1 .. n |-> 0]

\* Where each block starts when blocks of these sizes are packed, each padded.
Offsets(sizes, a) ==
  LET at[i \in 1 .. Len(sizes)] ==
        IF i = 1 THEN 0 ELSE align_up(at[i - 1] + sizes[i - 1], a)
  IN  at

-----------------------------------------------------------------------------
(* Writing.  f is the file the tool has parsed, b the file it copies from: *)
(* the one that had f's path when the tool opened it again.                *)

\* copy_range finds all the bytes it is asked for.
Copyable(f, b, keep) ==
  \A t \in ToSet(keep) : InRange(FileBytes(b), abs_offset(f, t), tensor_nbytes(t))

Padded(f, b, t) ==
  LET n == tensor_nbytes(t)
  IN  Range0(FileBytes(b), abs_offset(f, t), n) \o Zeros(align_up(n, Alignment(f)) - n)

\* Fault: the extra entries come before the metadata.
write_extra_first(f, b, keep, extra_kvs) ==
  LET offsets == Offsets([i \in 1 .. Len(keep) |-> tensor_nbytes(keep[i])], Alignment(f))
  IN  [whole   |-> Len(b.kv) >= Len(f.kv),
       version |-> f.version,
       kv      |-> extra_kvs \o SubSeq(b.kv, 1, Min({Len(b.kv), Len(f.kv)})),
       tensors |-> [i \in 1 .. Len(keep) |-> [keep[i] EXCEPT !.offset = offsets[i]]],
       data    |-> FlattenSeq([i \in 1 .. Len(keep) |-> Padded(f, b, keep[i])])]

\* The metadata is copied as bytes, and the extra entries follow it; what is copied is
\* metadata only if the file has as much of it.  The data of the tensors kept is packed
\* anew, in their order, each padded.
write_subset_gguf(f, b, keep, extra_kvs) ==
  LET offsets == Offsets([i \in 1 .. Len(keep) |-> tensor_nbytes(keep[i])], Alignment(f))
  IN  [whole   |-> Len(b.kv) >= Len(f.kv),
       version |-> f.version,
       kv      |-> SubSeq(b.kv, 1, Min({Len(b.kv), Len(f.kv)})) \o extra_kvs,
       tensors |-> [i \in 1 .. Len(keep) |-> [keep[i] EXCEPT !.offset = offsets[i]]],
       data    |-> FlattenSeq([i \in 1 .. Len(keep) |-> Padded(f, b, keep[i])])]
=============================================================================
