------------------------------- MODULE Repack -------------------------------
(***************************************************************************)
(* What the repacker computes (tools/repack_gguf.py), and the planner's    *)
(* own reading of the same file (tools/plan.py).  A tensor's name is       *)
(* [layer, what]: what is a kind of KIND_ORDER for                         *)
(* blk.<layer>.ffn_<what>_exps.weight, and anything else for the rest.     *)
(***************************************************************************)
EXTENDS Gguf

CONSTANTS
  EXTENT_ALIGN,
  PACK_HEADER_BYTES,
  PACK_MAGIC             \* one byte stands for the magic and the version behind it

ASSUME RepackAssumption ==
  /\ EXTENT_ALIGN \in Nat \ {0}
  /\ PACK_HEADER_BYTES \in Nat \ {0}
  /\ PACK_HEADER_BYTES % EXTENT_ALIGN = 0
  /\ PACK_MAGIC \in Nat

\* What a file's header can give: numbers without a sign, and at least one dimension for a
\* tensor.  A dimension or an alignment of 0 stops the tools with a division by zero.
TensorInfo ==
  [name : [layer : Nat, what : STRING], ne : Seq(Nat \ {0}) \ {<<>>}, type : STRING, offset : Nat]

IsFile(f) ==
  f \in [whole : BOOLEAN, version : Nat, kv : Seq(ToSet(f.kv)), tensors : Seq(TensorInfo),
         data : Seq(Int)]

IsGguf(f) == IsFile(f) /\ Alignment(f) \in Nat \ {0}

\* No two tensors have one name.
NamesDiffer(f) ==
  \A i, j \in DOMAIN f.tensors : f.tensors[i].name = f.tensors[j].name => i = j

KIND_ORDER == <<"gate", "up", "down">>

\* EXPS_RE matches the tensor's name.
IsExpert(t) == t.name.what \in ToSet(KIND_ORDER)

\* The repacker's two parts: the tensors to page, by layer and kind, and the others.
Paged(f) == Keep(f.tensors, {t \in ToSet(f.tensors) : IsExpert(t)})

Resident(f) == Keep(f.tensors, {t \in ToSet(f.tensors) : ~IsExpert(t)})

MoeLayers(f) == Sorted({t.name.layer : t \in ToSet(Paged(f))})

PagedTensor(f, layer, kind) == Named(f, [layer |-> layer, what |-> kind])

Have(f, layer) ==
  Keep(KIND_ORDER, {k \in ToSet(KIND_ORDER) : [layer |-> layer, what |-> k] \in TensorNames(f)})

Kinds(f) == Have(f, MoeLayers(f)[1])

NExpert(f) == PagedTensor(f, MoeLayers(f)[1], Kinds(f)[1]).ne[3]

SliceBytes(t) == tensor_nbytes(t) \div t.ne[3]

\* The errors that stop the repacker before it writes anything.
Refuses(f) ==
  \/ Lookup(f, "split.count", 0) > 1
  \/ \E t \in ToSet(Paged(f)) : Len(t.ne) # 3
  \/ Paged(f) = <<>>
  \/ \E t \in ToSet(Resident(f)) : t.name.what = "gate_up"
  \/ \E layer \in ToSet(MoeLayers(f)) : Have(f, layer) # Kinds(f)
  \/ \E t \in ToSet(Paged(f)) : t.ne[3] # NExpert(f)
  \/ Lookup(f, "expert_count", NExpert(f)) # NExpert(f)

\* The matrices of one expert of a layer, back to back, in their order on disk.
Parts(f, layer) ==
  LET slice(i) == SliceBytes(PagedTensor(f, layer, Kinds(f)[i]))
      rel_off == Offsets([i \in DOMAIN Kinds(f) |-> slice(i)], 1)
  IN  [i \in DOMAIN Kinds(f) |->
         LET t == PagedTensor(f, layer, Kinds(f)[i])
         IN  [kind |-> Kinds(f)[i], type |-> t.type, ne |-> SubSeq(t.ne, 1, 2),
              slice_bytes |-> slice(i), rel_off |-> rel_off[i]]]

\* Fault: the stride is not rounded up.
GeometryUnpadded(f, layer) ==
  LET parts == Parts(f, layer)
      group_bytes == Last(parts).rel_off + Last(parts).slice_bytes
  IN  [parts |-> parts, group_bytes |-> group_bytes, group_stride |-> group_bytes]

LayerGeometry(f, layer) ==
  LET parts == Parts(f, layer)
      group_bytes == Last(parts).rel_off + Last(parts).slice_bytes
  IN  [parts |-> parts, group_bytes |-> group_bytes,
       group_stride |-> align_up(group_bytes, EXTENT_ALIGN)]

Layers(f) == [layer \in ToSet(MoeLayers(f)) |-> LayerGeometry(f, layer)]

NGroups(f) == Len(MoeLayers(f)) * NExpert(f)

\* Layer-major: all experts of the first layer, then those of the second.
GroupAt(f, i, off) ==
  [layer  |-> MoeLayers(f)[((i - 1) \div NExpert(f)) + 1],
   expert |-> (i - 1) % NExpert(f),
   offset |-> off]

-----------------------------------------------------------------------------
(* The bytes of the pack.                                                  *)

PackHeader == <<PACK_MAGIC>> \o Zeros(PACK_HEADER_BYTES - 1)

SourceOffset(f, g, part) ==
  abs_offset(f, PagedTensor(f, g.layer, part.kind)) + g.expert * part.slice_bytes

ExtentCopyable(f, b, g) ==
  \A part \in ToSet(Layers(f)[g.layer].parts) :
    InRange(FileBytes(b), SourceOffset(f, g, part), part.slice_bytes)

\* Fault: the padding behind the extent is forgotten.
ExtentUnpadded(f, b, g) ==
  LET lay == Layers(f)[g.layer]
      slice(part) == Range0(FileBytes(b), SourceOffset(f, g, part), part.slice_bytes)
  IN  FlattenSeq([i \in DOMAIN lay.parts |-> slice(lay.parts[i])])

Extent(f, b, g) ==
  LET lay == Layers(f)[g.layer]
      slice(part) == Range0(FileBytes(b), SourceOffset(f, g, part), part.slice_bytes)
  IN  FlattenSeq([i \in DOMAIN lay.parts |-> slice(lay.parts[i])])
        \o Zeros(lay.group_stride - lay.group_bytes)

\* As much of an extent as there is when the file ends in one of its matrices.
ExtentCut(f, b, g) ==
  LET parts == Layers(f)[g.layer].parts
      in_file(part) == InRange(FileBytes(b), SourceOffset(f, g, part), part.slice_bytes)
      cut == Min({i \in DOMAIN parts : ~in_file(parts[i])})
  IN  FlattenSeq([i \in 1 .. cut |->
        Clipped(FileBytes(b), SourceOffset(f, g, parts[i]), parts[i].slice_bytes)])

\* The manifest, written when all else is: sha is the source's hash or NoHash.
Manifest(f, sha, groups, off) ==
  [whole           |-> TRUE,
   size            |-> file_size(f),
   sha256          |-> sha,
   n_layers_total  |-> Lookup(f, "block_count", 0),
   n_expert        |-> NExpert(f),
   kinds           |-> Kinds(f),
   layers          |-> Layers(f),
   groups          |-> groups,
   pack_file_bytes |-> off]

\* What pack_extents.py exports of it, for the I/O bench: an offset and a length.
ExtentTable(man) ==
  [i \in DOMAIN man.groups |->
     <<man.groups[i].offset, man.layers[man.groups[i].layer].group_stride>>]

-----------------------------------------------------------------------------
(* The planner's geometry of the same file.                                *)

PlannerRefuses(f) ==
  \/ \E t \in ToSet(Paged(f)) : Len(t.ne) # 3
  \/ Paged(f) = <<>>
  \/ Keyed(f, "expert_used_count") = {}

\* The last expert tensor of the file has the last word.
PlannerNExpert(f) == Last(Paged(f)).ne[3]

PlannerStride(f, layer) ==
  LET paged == Paged(f)
      in_layer(t) == IF t.name.layer = layer THEN SliceBytes(t) ELSE 0
  IN  align_up(SumOf([i \in DOMAIN paged |-> in_layer(paged[i])]), EXTENT_ALIGN)

paged_bytes(f) ==
  LET layers == MoeLayers(f)
  IN  SumOf([i \in DOMAIN layers |-> PlannerStride(f, layers[i])]) * PlannerNExpert(f)
=============================================================================
