----------------------------- MODULE VerifyPack -----------------------------
(***************************************************************************)
(* The two readers of a pack: the verifier (tools/verify_pack.py), which   *)
(* compares it with the source, and the runtime, which finds an expert by  *)
(* the manifest.  Both trust the manifest's offsets and sizes; neither     *)
(* looks at the repacker's plan.                                           *)
(***************************************************************************)
EXTENDS Repack

CONSTANT NoHash          \* the source's hash in a manifest written with --no-hash

NoManifest == [whole |-> FALSE]

\* Check 1: the file at the source's path is the one the manifest was built from.  id
\* stands for the hash of its contents.
RightSize(man, f) == man.whole /\ file_size(f) = man.size

RightHash(man, id) == man.sha256 = NoHash \/ man.sha256 = id

PagedNames(man) ==
  {[layer |-> layer, what |-> kind] : layer \in DOMAIN man.layers, kind \in ToSet(man.kinds)}

\* Check 2: every tensor of the source is paged or resident, none is both or neither.
Accounted(man, src, res) ==
  /\ PagedNames(man) \cap TensorNames(res) = {}
  /\ TensorNames(src) = PagedNames(man) \cup TensorNames(res)

HeadersRight(man, src, res) ==
  /\ read_gguf(src) /\ read_gguf(res)
  /\ Accounted(man, src, res)

\* In checks 3 and 4, src is the file whose header was read, and src_f the one that the
\* bytes come from: the path is opened again for them.
SameRange(a, off_a, b, off_b, n) ==
  /\ InRange(a, off_a, n) /\ InRange(b, off_b, n)
  /\ Range0(a, off_a, n) = Range0(b, off_b, n)

\* Check 3: the pack's file, and each extent compared.
PackFileRight(man, pack) == pack # <<>> /\ pack[1] = PACK_MAGIC /\ Len(pack) = man.pack_file_bytes

\* Fault: the first matrix of an extent stands for all.
FirstPartSame(man, src, src_f, pack, g) ==
  LET part == man.layers[g.layer].parts[1]
  IN  SameRange(pack, g.offset + part.rel_off,
                FileBytes(src_f), SourceOffset(src, g, part), part.slice_bytes)

ExtentSame(man, src, src_f, pack, g) ==
  \A part \in ToSet(man.layers[g.layer].parts) :
    SameRange(pack, g.offset + part.rel_off,
              FileBytes(src_f), SourceOffset(src, g, part), part.slice_bytes)

\* Check 4: the metadata, and each tensor of the resident file.
ResidentSame(src, src_f, res) ==
  /\ Len(src.kv) <= Len(src_f.kv)
  /\ IsPrefix(SubSeq(src_f.kv, 1, Len(src.kv)), res.kv)
  /\ \A t \in ToSet(res.tensors) :
       LET s == Named(src, t.name)
       IN  /\ t.ne = s.ne /\ t.type = s.type
           /\ SameRange(FileBytes(res), abs_offset(res, t),
                        FileBytes(src_f), abs_offset(src, s), tensor_nbytes(t))

\* Checks 3 and 4 with the extents of groups picked.
BytesSame(man, src, src_f, res, pack, picked) ==
  /\ PackFileRight(man, pack)
  /\ \A i \in picked : ExtentSame(man, src, src_f, pack, man.groups[i])
  /\ ResidentSame(src, src_f, res)

-----------------------------------------------------------------------------
(* The runtime.                                                            *)

\* The runtime's row math agrees with the manifest.
PartSizeRight(part) ==
  (part.ne[1] \div GGML_TYPES[part.type].blk) * GGML_TYPES[part.type].bytes * part.ne[2]
    = part.slice_bytes

RuntimeAccepts(man, pack) ==
  /\ man.whole
  /\ \A layer \in DOMAIN man.layers :
       /\ layer < man.n_layers_total
       /\ \A part \in ToSet(man.layers[layer].parts) : PartSizeRight(part)
  /\ \A g \in ToSet(man.groups) : g.layer \in DOMAIN man.layers /\ g.expert < man.n_expert
  /\ Len(pack) >= EXTENT_ALIGN /\ pack[1] = PACK_MAGIC

\* Where the runtime looks for an expert; an expert no group names keeps offset 0.
ExtOff(man, layer, e) ==
  LET i == SelectLastInSeq(man.groups, LAMBDA g : g.layer = layer /\ g.expert = e)
  IN  IF i = 0 THEN 0 ELSE man.groups[i].offset

\* What a fetch puts into a slot is what src_f has in the place that src gives to this
\* layer and expert.
FetchesRight(man, src, src_f, pack, layer, e) ==
  LET off == ExtOff(man, layer, e)
      stride == man.layers[layer].group_stride
  IN  /\ InRange(pack, off, stride)
      /\ \A part \in ToSet(man.layers[layer].parts) :
           SameRange(Range0(pack, off, stride), part.rel_off,
                     FileBytes(src_f), SourceOffset(src, [layer |-> layer, expert |-> e], part),
                     part.slice_bytes)

\* Every routed expert the manifest counts can be fetched from the pack, in every layer of
\* the source.
PackLossless(man, src, src_f, pack) ==
  \A layer \in ToSet(MoeLayers(src)) : \A e \in 0 .. man.n_expert - 1 :
    layer \in DOMAIN man.layers /\ FetchesRight(man, src, src_f, pack, layer, e)

\* The manifest gives each matrix the type and the shape it has in the source, and as many
\* experts as there are.
ShapesRight(man, src) ==
  /\ man.n_expert = NExpert(src)
  /\ \A layer \in ToSet(MoeLayers(src)) : man.layers[layer].parts = Parts(src, layer)
=============================================================================
