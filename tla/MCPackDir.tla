------------------------------ MODULE MCPackDir -----------------------------
(***************************************************************************)
(* Source files for PackDir.  A byte of a file's data is a number of its   *)
(* own, so that a byte taken from the wrong place shows.                   *)
(***************************************************************************)
EXTENDS PackDir

\* F and I have blocks of the same size; H packs two elements into a byte.
Types == [F |-> [blk |-> 1, bytes |-> 1], I |-> [blk |-> 1, bytes |-> 1],
          H |-> [blk |-> 2, bytes |-> 1]]

T(layer, what, type, ne) == [name |-> [layer |-> layer, what |-> what], type |-> type, ne |-> ne]

Build(id, kv, ts) ==
  LET sizes == [i \in DOMAIN ts |-> tensor_nbytes(ts[i])]
      offset == Offsets(sizes, GGUF_DEFAULT_ALIGNMENT)
      end == align_up(offset[Len(ts)] + sizes[Len(ts)], GGUF_DEFAULT_ALIGNMENT)
  IN  [whole |-> TRUE, version |-> 3, kv |-> kv,
       tensors |-> [i \in DOMAIN ts |->
                      [name |-> ts[i].name, type |-> ts[i].type, ne |-> ts[i].ne,
                       offset |-> offset[i]]],
       data |-> [i \in 1 .. end |-> 100 * id + i]]

Kv(experts) == <<<<"block_count", 3>>, <<"expert_count", experts>>, <<"expert_used_count", 1>>>>

\* Two layers with experts, of different geometry; layer 1 is dense.
Two(type) == <<T(0, "embd", "F", <<3>>),
               T(0, "gate", "H", <<2, 1, 2>>), T(0, "down", "F", <<1, 2, 2>>), T(0, "up", "F", <<2, 1, 2>>),
               T(1, "norm", "F", <<1, 1>>),
               T(2, "gate", "F", <<1, 1, 2>>), T(2, "up", "F", <<1, 1, 2>>), T(2, "down", type, <<1, 2, 2>>)>>

Sound == Build(1, Kv(2), Two("F"))

\* The same size and layout, another type in one place and another byte in one expert.
Changed == [Build(1, Kv(2), Two("I")) EXCEPT !.data[Len(Sound.data)] = 299]

\* Fewer experts and no gate; and the same bytes as twice the experts.
One(id, ne) == Build(id, <<<<"block_count", 1>>, <<"expert_used_count", 1>>>>,
                     <<T(0, "up", "F", ne), T(0, "down", "F", ne), T(0, "norm", "F", <<1>>)>>)

Small   == One(3, <<2, 1, 1>>)
Regrouped == One(3, <<1, 1, 2>>)

\* Files the repacker must refuse.
Uneven == Build(4, Kv(2), [Two("F") EXCEPT ![7].ne = <<1, 1, 1>>])
Mixed  == Build(5, Kv(2), SubSeq(Two("F"), 1, 7))
Shard  == Build(6, Kv(2) \o <<<<"split.count", 2>>>>, Two("F"))
Fused  == Build(7, Kv(2), [Two("F") EXCEPT ![5].name.what = "gate_up"])
Dense  == Build(8, Kv(2), SubSeq(Two("F"), 1, 1))
Miscounted == Build(9, Kv(3), Two("F"))
Corrupt == [Sound EXCEPT !.tensors[3].ne = <<1, 3, 2>>]

TheFiles == <<Sound, Changed, Small, Regrouped, Uneven, Mixed, Shard, Fused, Dense, Miscounted, Corrupt>>
=============================================================================
