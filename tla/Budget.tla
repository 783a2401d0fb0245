------------------------------- MODULE Budget -------------------------------
(***************************************************************************)
(* From a GPU's memory to the slots of the expert cache.  The planner      *)
(* (tools/plan.py, emit_plan) or the launcher (nvmoe, serve_config) turns  *)
(* the memory into NVMOE_CACHE_MB, and the runtime (llama_nvmoe_init,      *)
(* runtime/patches/0001) splits that between the groups of layers that     *)
(* share a geometry.                                                       *)
(*                                                                         *)
(* Sizes are in bytes of a small scale.  The fractions the code computes   *)
(* in floating point are compared here by cross-multiplication, and the    *)
(* estimate of the KV cache is a number of the model.                      *)
(***************************************************************************)
EXTENDS Integers, SeqFolds

CONSTANTS
  Geometries,     \* what a layer may be: [parts, bytes, stride]
  Models,         \* [layers, n_expert, top_k, resident, kv]
  Vrams,
  HEADROOM,
  MIB,
  ROUND,          \* the 256 MB to which a budget is rounded down
  LEAST           \* the launcher's least budget, 512 MB

ASSUME BudgetAssumption ==
  /\ MIB \in Nat \ {0} /\ ROUND \in Nat \ {0} /\ LEAST \in Nat \ {0}
  /\ HEADROOM \in Nat /\ Vrams \subseteq Nat
  /\ \A layer \in Geometries :
       {layer.bytes, layer.stride} \subseteq Nat \ {0} /\ layer.stride >= layer.bytes
  /\ \A a, b \in Geometries : a.parts = b.parts => a.bytes = b.bytes
  /\ \A m \in Models :
       /\ m.layers \in Seq(Geometries) \ {<<>>}
       /\ {m.n_expert, m.top_k} \subseteq Nat \ {0} /\ m.top_k <= m.n_expert
       /\ {m.resident, m.kv} \subseteq Nat

Unset == -1       \* NVMOE_CACHE_MB is not in the environment

VARIABLES
  model, vram,
  stage,          \* what has happened; "stock" and "no_room" are verdicts of the planner
  author,         \* who has chosen the budget
  cache_mb,
  warned,         \* the launcher has said that the budget is below the thrash cliff
  n_slots         \* group -> slots

vars == <<model, vram, stage, author, cache_mb, warned, n_slots>>

Init ==
  /\ model \in Models /\ vram \in Vrams
  /\ stage = "start" /\ author = "none" /\ cache_mb = Unset
  /\ warned = FALSE /\ n_slots = <<>>

-----------------------------------------------------------------------------
(* The planner and the launcher.                                           *)

LayerIds == DOMAIN model.layers

\* Geometry.paged_bytes: strides, the padding of the extents included.
paged_bytes == SumOf([i \in LayerIds |-> model.layers[i].stride]) * model.n_expert

fixed == model.resident + model.kv + HEADROOM

\* Fault: the budget is rounded up.
RoundUp(mb) == ((mb + ROUND - 1) \div ROUND) * ROUND

RoundDown(mb) == (mb \div ROUND) * ROUND

Decide(to, who, mb) ==
  /\ stage' = to /\ author' = who /\ cache_mb' = mb
  /\ UNCHANGED <<model, vram, n_slots>>

\* "use stock llama.cpp"
EmitStock ==
  /\ stage = "start"
  /\ fixed + paged_bytes <= vram
  /\ Decide("stock", "planner", Unset)
  /\ UNCHANGED warned

\* "no room for an expert cache"
EmitNoRoom ==
  /\ stage = "start"
  /\ fixed + paged_bytes > vram
  /\ vram <= fixed
  /\ Decide("no_room", "planner", Unset)
  /\ UNCHANGED warned

EmitPlan ==
  /\ stage = "start"
  /\ fixed + paged_bytes > vram
  /\ vram > fixed
  /\ Decide("configured", "planner", RoundDown((vram - fixed) \div MIB))
  /\ UNCHANGED warned

\* The launcher asks only what the card has, and warns below the thrash cliff.
ServeConfig ==
  /\ stage = "start"
  /\ LET mb == Max({RoundDown((vram - fixed) \div MIB), LEAST})
     IN  /\ Decide("configured", "launcher", mb)
         /\ warned' = (mb * MIB * model.n_expert < model.top_k * paged_bytes)

\* No GPU is found: the runtime is left to its default.
ServeOnCPU ==
  /\ stage = "start"
  /\ Decide("configured", "cpu", Unset)
  /\ UNCHANGED warned

-----------------------------------------------------------------------------
(* The runtime.                                                            *)

\* Layers whose parts match share a pool.
Groups == {model.layers[i].parts : i \in LayerIds}

\* A layer unlike all before it starts a group.
StartsGroup(i) == \A j \in 1 .. i - 1 : model.layers[j].parts # model.layers[i].parts

OfGroup(g) == Keep(model.layers, {layer \in ToSet(model.layers) : layer.parts = g})

slot_bytes(g) == OfGroup(g)[1].bytes

group_paged(g) == Len(OfGroup(g)) * slot_bytes(g) * model.n_expert

total_paged == SumOf([i \in LayerIds |-> model.layers[i].bytes]) * model.n_expert

all_slots(g) == Len(OfGroup(g)) * model.n_expert

cache_bytes == IF cache_mb = Unset THEN 0 ELSE cache_mb * MIB

\* The slots a group's share of the budget pays for.
Paid(g) == ((cache_bytes * group_paged(g)) \div total_paged) \div slot_bytes(g)

\* Fault: a group gets what its share pays for.
SlotsPaid(g) == IF cache_bytes > 0 THEN Min({all_slots(g), Paid(g)}) ELSE all_slots(g)

Slots(g) ==
  IF cache_bytes > 0 THEN Min({all_slots(g), Max({model.n_expert, Paid(g)})})
                     ELSE all_slots(g)

Load ==
  /\ stage = "configured"
  /\ n_slots' = [g \in Groups |-> Slots(g)]
  /\ stage' = "loaded"
  /\ UNCHANGED <<model, vram, author, cache_mb, warned>>

Next == EmitStock \/ EmitNoRoom \/ EmitPlan \/ ServeConfig \/ ServeOnCPU \/ Load

Spec == Init /\ [][Next]_vars

-----------------------------------------------------------------------------
(* What must hold of a loaded model.                                       *)

Loaded(who) == stage = "loaded" /\ author = who

\* The bytes of the pools of the groups gs.
PoolBytes(gs) ==
  SumOf([i \in LayerIds |->
           LET g == model.layers[i].parts
           IN  IF StartsGroup(i) /\ g \in gs THEN n_slots[g] * slot_bytes(g) ELSE 0])

\* The groups whose share pays for fewer slots than a layer has experts.
Raised == {g \in Groups : Paid(g) < model.n_expert}

\* The memory the planner gave the cache is kept by the runtime, its resident weights, KV
\* cache and headroom untouched, but for the pools the floor has raised: neither the
\* rounding to 256 MB, nor the split in proportion (plan.py:344, runtime/patches/0001:700-701),
\* nor the planner's counting of padded extents ever costs more.  A budget of 0 is not one.
PlannedFitsUnlessRaised ==
  Loaded("planner") /\ cache_mb > 0 => fixed + PoolBytes(Groups \ Raised) <= vram

\* A loaded model can run: each group has a slot for every expert of a layer, which is
\* what lets any op find its victims.  And where the launcher gave no warning (nvmoe:291),
\* each group holds what one token uses of all its layers, so that an LRU may hit at all,
\* although the launcher's cliff counts padded extents of the whole model and the runtime
\* splits payload bytes between groups.
SlotsSuffice ==
  stage = "loaded" =>
    \A g \in Groups :
      /\ n_slots[g] \in model.n_expert .. all_slots(g)
      /\ Loaded("launcher") /\ ~warned => n_slots[g] >= Len(OfGroup(g)) * model.top_k

\* docs/INSTALL.md:120: "`python3 tools/plan.py <gguf>` prints a budget that fits".
PlannedCacheFits == Loaded("planner") => fixed + PoolBytes(Groups) <= vram

-----------------------------------------------------------------------------
(* What a budget is, and what a loaded model was made from: all that the   *)
(* properties need to know of the steps before.                            *)

Planned ==
  author = "planner" /\ stage \in {"configured", "loaded"} =>
    cache_mb \in Nat /\ fixed + cache_mb * MIB <= vram

Served ==
  author = "launcher" =>
    /\ cache_mb \in Nat \ {0}
    /\ warned = (cache_mb * MIB * model.n_expert < model.top_k * paged_bytes)

BudgetInv ==
  /\ model \in Models /\ vram \in Vrams
  /\ cache_mb \in Nat \cup {Unset}
  /\ Planned /\ Served
  /\ stage = "loaded" => n_slots = [g \in Groups |-> Slots(g)]
=============================================================================
