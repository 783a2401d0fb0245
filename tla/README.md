# A TLA+ model of nvmoe

nvmoe runs mixture-of-experts models whose routed experts do not fit in memory: a
repacker splits a GGUF file into resident tensors and a pack of expert extents, and a
patched llama.cpp keeps a cache of experts that it fills from the pack while the graph
runs. This directory models that program in TLA+, checks the models with TLC, and proves
what matters most about them with TLAPS for every value of the constants.

Line numbers below are those of the patch *files* under `runtime/patches/` (P1 .. P4 for
0001 .. 0004) and of the other source files.

- [Inventory](#inventory)
- [Plan](#plan)
- [The modules and the code](#the-modules-and-the-code)
- [What is checked](#what-is-checked)
- [What is proved](#what-is-proved)
- [Where code and documentation disagree](#where-code-and-documentation-disagree)
- [What is not modelled](#what-is-not-modelled)

## Inventory

The parts of the system, the state each keeps, what it does, what it talks to, where it
is hard, and what makes it correct.

### Fetch pool (P4, with the reader of P3) - modelled

- *State*: per geometry group `slot_key`, `slot_used`, `slot_op`, `slot_flight`,
  `slot_spec` and the map `where`; the pool tensors; two job queues `q_mand` and `q_spec`;
  `n_spec_active`, `stop_workers`; counters; a bounce buffer with a slice per worker.
- *Operations*: the custom op of a layer (`llama_nvmoe_fetch_op_pool`: resolve the routed
  ids, predict and prefetch for the next layers, promote, notify, wait), the worker loop
  (`llama_nvmoe_worker`: take, read, scatter, land), the destructor.
- *Interaction*: the graph thread and `qd` workers share everything above under one mutex
  and two condition variables; the reads and copies run outside the mutex. The layer's
  `mul_mat_id` nodes read the pool tensors with no lock at all.
- *Hard*: prefetches of one op land, or are still queued, during later ops and later
  passes; victims are chosen while fetches fly; wake-ups cross in both directions.
- *Correct if*: a computing layer reads its own experts' bytes and nobody writes them; an
  assigned slot that is not in flight holds what it claims; each fetch in flight has one
  owner; an op never waits behind speculation; no wake-up is lost; prefetches are counted
  once.

### Synchronous fetch path (P1, P3, P4) - modelled

- *State*: the same cache, and for one op the list of misses, an atomic index and up to
  `qd` readers that live as long as the op.
- *Operations*: `llama_nvmoe_fetch_op_sync`: resolve every id, evicting as it goes; then
  fetch the misses, one reader on the graph thread or several threads; join.
- *Hard*: the cache claims a miss before a byte of it is read, and a later id of the op
  may hit it; readers race on the index and write the pool side by side.
- *Correct if*: the op returns only when every emitted slot holds its expert; no two
  readers have one slot; an op of at most `n_expert` ids always finds its victims.

### Start of the runtime (P1, P2, P4) - partly modelled

- *State*: built once: layers with extent offsets, geometry groups, slots per group
  (budget split in proportion, floor `n_expert`, cap all), routers for the lookahead.
- *Hard*: integer and floating-point rounding at the floor and the cap; an extent that the
  manifest does not list keeps offset 0; a budget of 0 means no budget.
- *Correct if*: every group can hold one op; groups never share slots of another shape;
  each (layer, expert) reads its own extent; the pools fit the memory they were given.

### Hooks in llama.cpp (P1, P2, P4) - external

The loader that skips the paged tensors and the graph builder that inserts the op. The
models represent them by the steps around the op (`BeginPass`, `BeginOp`, `EndMatmul`).

### Launcher (`nvmoe`) - download, `ensure_pack` and budget modelled

- *State*: files under `models/` (download parts, `.tmp`, the gguf, the pack), the pid file.
- *Operations*: `download` (six threads, resumable parts, assembly, rename), `ensure_pack`
  (repack, verify), `run` (choose a budget, start the server, poll its health), `stop`;
  `doctor` and `list` only print.
- *Hard*: interruption between any two file operations; retries from a byte offset; a pack
  whose verification failed is still there at the next run; a pid file that outlives its
  process.
- *Correct if*: a complete download has the right bytes or the program says otherwise; only
  a verified pack is served; `stop` signals the server that this tool started.

### Repacker, verifier and GGUF files (`tools/`) - modelled

- *State*: `experts.pack`, `resident.gguf`, `manifest.json`, written in this order, and the
  source, which the repacker opens three times by its path (to parse, to hash, to copy)
  and the verifier four times (to stat, to hash, for its header, for its bytes).
- *Operations*: `repack_gguf.py` (parse, refuse or plan, hash, write), `verify_pack.py`
  (source, names, extents, resident tensors), `pack_extents.py`; the planner and the
  runtime read the same files in their own ways.
- *Hard*: layout arithmetic (alignment, strides, mixed geometries); kills between and
  within the files of a second run over the first; a source replaced between two openings;
  three pieces of code that must find the same byte.
- *Correct if*: extents are disjoint, aligned and inside the file, the runtime finds each
  expert where the writer put it, a passed verification means what it says.

### I/O bench (`paging/nvmoe_iobench.c`) - not modelled

- *State*: bounce slots that are free, being read or being copied; `issued`, `done`,
  `to_submit`, `reads_inflight`, `copies`.
- *Hard*: completions in any order, interrupted system calls, polling of copies.
- *Correct if*: no slot is reused before its copy is done, every fetch is counted once, the
  loop ends.

### Simulator and traces (`sim/`, `collector/`) - modelled

- *State*: the collector's file, which grows by a record for each expert layer of each
  evaluation and is the concatenation of several runs; the simulator's LRU.
- *Operations*: `trace_post.py` tells evaluations apart by layer indices that do not
  increase and gives rows to tokens; `cache_sim.py` runs an LRU, with or without pinned
  experts, over the tokens; `analyze_lookahead.py` has a second LRU.
- *Hard*: runs that are cut in an evaluation; the last layer of a prompt, of which only
  some rows are computed; capacity 0 and pinned experts that fill it.
- *Correct if*: the trace is what was routed; the two LRUs agree with each other and with
  the cache of the runtime; budgets and policies are compared on equal terms.

### Plan

In order of how much goes wrong silently if the part is wrong; all of it is done:

1. `FetchPool` with its inductive invariant and proofs.
2. `ExpertStore`, what a cache of experts promises, and the refinement by `FetchPool`.
3. `FetchSync`, its proofs and its refinement of the same store.
4. `Download`: part threads, resumption, assembly, interruptions, failing writes.
5. `Gguf`, `Repack`, `VerifyPack`, `PackDir`: the pack from the source file to the bytes a
   fetch puts into a slot, under kills, replaced sources and bad bytes, with the launcher's
   part in it.
6. `Budget`: from a GPU's memory to the slots of a group.
7. `TracePost`, `CacheSim`, `TraceSim`, and `FetchSyncSim`, which runs the simulator beside
   the cache it simulates.

Every safety property and every action property of the passing runs is a theorem as well,
and so is the refinement of `ExpertStore`.

## The modules and the code

```
ExpertGeometry            constants: layers, experts, groups, slots
|-- ExpertStore           what the graph may rely on
`-- SlotCache             slots, victims, eviction, LRU order
    |-- FetchPool         lookahead on        -- FetchPoolInv -- FetchPoolStore -- MCFetchPool
    `-- FetchSync         lookahead off       -- FetchSyncInv -- FetchSyncStore -- MCFetchSync

Download                  the download of a model file

SeqFolds                  the loops over lists, and sorted(); for Budget, TracePost, CacheSim too
`-- Gguf                  files: sizes, offsets, parsing, writing a subset
  `-- Repack              what to page and where it goes; the planner's geometry
    `-- VerifyPack        what the verifier and the runtime make of a pack
        `-- PackDir       repacker, verifier, launcher and faults  -- MCPackDir

Budget                    planner, launcher and runtime: memory to slots -- MCBudget

TracePost, CacheSim       the post-processor and the simulators, as operators
`-- TraceSim              every file the collector can leave -- MCTraceSim
FetchSync + CacheSim      FetchSyncSim: the cache beside its simulation -- MCFetchSync
```

`*_proofs` modules extend these with TLAPS proofs; the `*Inv` modules hold the inductive
invariants, so that TLC checks the very formulas the proofs use; the `*Store` modules hold
the refinement mappings.

### Abstractions common to both paths

- A key is a pair of layer and expert, a slot a pair of group and index. The bytes of an
  extent are the key they belong to; `pool[s]` is the key whose bytes slot `s` holds.
- `epoch` and `slot_op` become `pinned`, the slots the op in progress has referenced:
  `slot_op[s] = epoch` is all that `victim()` asks, and `epoch++` empties the set.
- `tick` and `slot_used` become ranks in the order of last use. `Touch` gives a slot the
  highest rank and closes the gap it leaves, so that ranks are bounded by the number of
  slots, and the least recently used of any set of slots stays the same. Slots never used
  share rank 0; `victim()` takes an empty slot before it looks at ranks, in index order.
- `victim()` and `evict()` are one step with the assignment that follows them: only the
  graph thread changes the cache, under the mutex in the pooled path and alone in the
  synchronous one.
- `GGML_ABORT` ends the process: `main` becomes `cache_abort` or `read_abort` and nothing
  happens any more.
- The router is arbitrary: each op is given any choice of `NUsed` distinct experts per
  token. So are the predictions.

### FetchPool

`main` is where the graph thread is: `idle` (no evaluation), `graph` (before an op),
`resolve`, `predict`, `promote` (inside the op, mutex held), `asleep` and `woken` (in
`cv_done.wait`), `matmul` (the op has returned and the layer computes), `joining` and
`destroyed`. `worker[w]` is where a worker is: `ready` (about to test its predicate),
`asleep` (in `cv_work.wait`), `read`, `scatter`, `land`, `exited`.

| action | code |
|---|---|
| `BeginOp` | `epoch++`, entry of the op, P4 809-856 |
| `ResolveHit`, `ResolveMiss`, `ResolveAbort`, `ResolveDone` | the loop over the ids, P4 677-717 |
| `Predict`, `PrefetchResident`, `PrefetchMiss`, `PrefetchYield`, `PredictDone` | the loop over the horizons, P4 719-775 |
| `Promote` | P4 778-789 |
| `EndOp`, `RecheckWait` | notification and `cv_done.wait`, P4 791-807 |
| `TakeMandatory`, `TakeSpeculative`, `Sleep`, `Exit` | P4 304-322 |
| `Read`, `ReadFails`, `Scatter` | `llama_nvmoe_fetch`, P3 88-113 |
| `Land` | P4 326-335 |
| `Destroy`, `Joined` | the destructor, P4 193-212 |

The mutex is not a variable: the graph thread holds it in `resolve`, `predict` and
`promote`, and every worker step that takes it is a single action disabled in these
states. The condition variables are explicit, as far as losing a wake-up is concerned: a
sleeping thread runs again only when somebody notifies. Spurious wake-ups are left out;
they only add steps that look at the predicate once more.

### FetchSync

`main` is `resolve` while ids are resolved, `fetch` while readers run, `matmul` after the
op. A reader is `none`, `ready` (about to draw), `read` or `scatter`; `next` is the atomic
index. The base of the op is in P1 823-886, which P3 changed (134-182) to collect the
misses and fetch them afterwards, and P4 (600-635) to use the shared `victim()` and
`evict()`. A single miss, which the code fetches on the graph thread with slice 0, is an op
with one reader.

### Download

The files are `part`, `tmp` and `dest`; what an interruption takes away is the process:
`main` (`down`, `fetching`, `assembling`, `cleaning`), and for each stream where its
`thread` is, its count `done` and the bytes `held` back by the part's file object. The byte
of the remote file at offset `o` is `o`, so that any mixture of ranges shows.

| action | code (`nvmoe`) |
|---|---|
| `Run`, `AlreadyComplete` | entry, `done` from the parts' lengths, threads, 169-208 |
| `Enough`, `Connect` | the loop of a thread, the range request, `open(path, "ab")`, 187-190 |
| `Receive` | one `read` and one `write`, 191-196 |
| `EndOfStream`, `ReadFails` | the end of a response, exceptions, `errors`, 194-204 |
| `WriteFails`, `CloseFails` | an exception of `f.write`, or of the flush when the part is closed |
| `Incomplete`, `Assemble`, `CopyPart`, `Mismatch`, `Rename`, `Unlink`, `Complete` | after the threads, 219-231 |
| `Interrupted` | ctrl-c, a kill, an exception of the main thread; threads are daemons (206) |

A file object keeps up to `WriterBuffer` bytes (8 KiB) of what it was given, and writes
them with the next ones or when it is closed; `Receive` keeps back any number up to that.
The server is taken to honour the range it is asked for, and may end early. `spoilt`
records the streams of which a write has failed; it is history, and restricts no action.
An interruption leaves what was written: a machine that loses power may lose more.

### Gguf, Repack, VerifyPack

These have no variables: they are the functions of the tools over files as values. A GGUF
file is a record of metadata, tensors and data; a byte of data is a number. A header is
counted by its entries, so that the offsets of a file with more entries differ, and its
spelling is left out. A tensor's name is a record of layer and kind instead of
`blk.<L>.ffn_<kind>_exps.weight`, and `EXPS_RE` is `IsExpert`. The general architecture
prefix of metadata keys is left out.

`_validate_layout`, `Refuses`, `LayerGeometry`, `Extent`, `write_subset_gguf` and
`Manifest` compute what the code computes, alignment and padding included; so do the
verifier's checks (`RightSize`, `RightHash`, `HeadersRight`, `ExtentSame`, `ResidentSame`),
which read the manifest and never the repacker's plan, and the runtime's (`RuntimeAccepts`,
`ExtOff`, `FetchesRight`), which read it in another way: an expert no group names keeps
offset 0.
Where header and bytes come from two openings of the source, they are two parameters
(`src`, `src_f`), as `info` and `src_f` are in `Extent`.

### PackDir

One tool runs at a time: `tool` is where it is (`plan`, `open`, `pack`, `manifest` of the
repacker, `verify`, `hash`, `parse`, `compare` of the verifier, `serve`, `serving`),
`caller` whether a user or the launcher called it, `job` what it has read so far.
`job.info` is the source as parsed, by either tool, `job.sha` stands for the hash, which is
that of the file at the path at that time, and `job.src_f` is the file opened for the copy.
The source may be replaced between any two openings, the verifier's included.

| action | code |
|---|---|
| `StartRepack` | parsing and every refusal, repack_gguf 183-211; from the launcher, `nvmoe` 242-244 |
| `PlanExtent` | one turn of the loop of `plan_pack`, 129-134 |
| `HashSource`, `OpenSource` | 243-246, 248-250 |
| `WriteExtent` | one turn of the loop of `write_pack`, 141-149 |
| `WriteResident`, `WriteManifest` | 251-255, 257-279 |
| `CopyEndsEarly` | `copy_range` meets the end of the file, gguf_lite 289-291; the pack keeps what it got of the extent |
| `CheckSize`, `CheckHash`, `ReadHeaders`, `Compare` | verify_pack 77-87, 88-93, 95-110 and 112-160, each with the file that is at the path then |
| `UseExistingPack` | `ensure_pack` finds a manifest, `nvmoe` 239-241 |
| `Serve`, `StopServing` | the runtime accepts the pack or stops, P1 557-778 |
| `ReplaceSource`, `KillRepack`, `KillVerify`, `FlipByte` | faults |

A killed tool leaves a prefix of what it has written to the file at hand, and the files of
earlier steps whole; what a loss of power takes from files that were closed and never
synced is left out. `history` serves the properties and no action reads it.

### Budget

`Init` chooses a model and a GPU; `EmitStock`, `EmitNoRoom` and `EmitPlan` are the verdicts of
the planner, `ServeConfig` and `ServeOnCPU` the launcher's choice, and `Load` the runtime's
split. Sizes are in bytes of a small scale (`MIB` is 2 bytes, 256 MB are 2 MIB); ratios that
the code computes in floating point are compared by cross-multiplication. A layer that
`StartsGroup` is one for which the runtime's search through the groups found none.

### TracePost, CacheSim, TraceSim, FetchSyncSim

`parse_steps`, `simulate_lru` and `replay` are recursive functions of how much of the list
has been read, one turn of the loop each (`Read`, `Access`, `Refer`); `steps_to_tokens` and
`hottest_experts` build their results from parts. Nested loops over tokens and keys are one
over the flattened trace. `TraceSim` grows the collector's file by `Callback`, one record each, and
`Cut` ends a run within an evaluation and appends the next one; `evaluations` remembers
what was routed. `FetchSyncSim` gives each reference of an op of `FetchSync` to the
simulator of its group.

### ExpertStore

A graph that pages nothing would compute each layer, in order, with the experts it was
routed to. `ExpertStore` says just that: `Route` chooses, `Serve` lets the layer compute
with `operands`, the experts whose bytes it reads, which are the routed ones; `Page` moves
experts in and out between, as long as no group exceeds its slots and a computing layer's
experts stay; `Fail` ends it all. Both paths map to it with `operands` read from the pool
through the emitted slots, and `resident` from the keys whose slot really has their bytes.

## What is checked

`MC*.cfg` name the constants of each run. Every property has at least one fault operator in
the modules (`Fault: ...`) that breaks it in the same run when it replaces the definition
that follows it.

| run | instance | shows |
|---|---|---|
| `pool` | 2 layers, 2 experts, 1 group of 2 slots, 2 workers, ubatches of 1 token, which predict, and of 3, which do not, 2 passes, reads may fail, fair | the safety properties, the refinement of `ExpertStore`, and `OpReturns`, `PrefetchLands`, `DestructorReturns` |
| `pool_groups` | 3 layers in 2 groups of 3 and 2 slots, 3 experts under symmetry, 3 workers, 2 predictions over 2 layers of lookahead, speculation on one layer only | fetches of several pools at once, and more prefetches than workers that may run them |
| `sync` | 3 layers, 3 experts under symmetry, a group of 3 slots with two layers and one of 1 slot, 2 readers, 1 and 2 tokens, 2 passes, reads may fail | all properties of the synchronous path, the refinement, and that the simulator agrees; the abort happens in the group of one slot only |
| `download` | 8 bytes in 3 ranges, reads of up to 2 bytes, 1 held back, a second error ends a thread, 2 interruptions or failures | the file appears at once and whole unless a write failed, parts are kept until then, reruns complete |
| `pack` | 11 source files (below), 2 faults | what a plan, a manifest and a passed verification mean |
| `trace` | 2 expert layers (1 and 3), 2 experts, top-1, evaluations of 1 and 2 tokens, 5 records | post-processing and simulators on every trace |
| `budget` | 1 to 3 layers of 3 geometries in any arrangement, 3 or 4 experts, top-1 or top-2, 57 sizes of GPU | budgets and slots |
| `pool_floor` | as `pool`, reads do not fail | a violation, see below |
| `pool_one_worker` | 1 worker, fair | a violation, see below |
| `download_full_disk` | 5 bytes in 2 ranges | a violation, see below |
| `unverified_pack` | as `pack`, 1 fault, no replaced source | a violation, see below |
| `planned_budget` | as `budget` | a violation, see below |

The properties that are not plain:

- `MatmulReadsItsExperts`: while a layer computes, each slot the op emitted holds the
  expert that was routed, in order, and no worker (reader) is between the start of a read
  and the end of a copy to it.
- `ResidentMeansLoaded` (pool): a hit on a slot that is not in flight, which waits for
  nothing, is right to trust it. `ClaimedIsLoadedOrPending` (sync) is its counterpart.
  It says besides that the op keeps what it has claimed: no later miss of the op takes a
  slot from it, of a hit or of an earlier miss.
- `ReadersApart`: no two readers fetch into one slot, and none fetches an expert into a slot
  that has it, as a miss drawn twice would, at once or one after the other.
- `OneOwner`: a slot is in flight exactly while one queued or running job is for it.
- `OnlyFlightsWrite`: bytes change only in slots in flight, and never under a computing
  layer.
- `WorkerKeptFree`, `WaitsOnNoSpeculation`: the two halves of the comment that a mandatory
  miss never waits behind speculation.
- `PrefetchesAccounted`: issued = used + wasted + unreferenced, also over the destructor.
- `AbortOnlyUnderSpeculation`: the abort for want of a victim happens only if the ids of
  the op and the prefetches in flight together exceed the group.
- `OpAlwaysFits` holds on the synchronous path, in the exact form that an op aborts only if
  it routes to more distinct experts than its group has slots; on the other it does not.
- `SimulatorAgrees`: at every reference the slots of a group hold what the simulated LRU
  holds, in the order of its ages. It is a statement about the synchronous path: prefetches
  change the order.
- `ImplementsStore`: paging is invisible to the graph.

- `DestIsWhole`: the file that appears is the remote one although only its size is
  compared; it rests on `PartsArePrefixes`, which says what the length of a part means to a
  rerun.
- `PartsOnlyGrow`: an interruption, or a stream whose writes fail, costs nothing that was
  received. `RerunCompletes`: a user who reruns gets the file.
- `ExtentsApart`, `CountsAgree`: the plan of a pack is sound, and the writer's position, the
  plan and the planner's size of the store, each from other code, are equal.
- `ManifestMeansPack`: a manifest is of a finished pack, except while or after a second
  repack was at work over the first: then the old manifest stays, which is why the
  property excludes it (`history.stale`), and why a pack has to be verified anew.
- `PassMeansLossless`: after a passed verification the *runtime* gets, for every expert the
  manifest counts, the bytes the verifier compared, although the verifier asks neither the
  runtime nor the plan, and whatever has happened before. Which bytes those are takes two
  files to say: the header comes from one opening of the source (95), the bytes from another
  (112). They are what the second file has where the header of the first puts them, and of
  one model only if one file was there at both times. A pack made with the layout of A and
  the bytes of B passes as lossless if A is at the path for the header and B for the size,
  the hash and the bytes, and it is lossless for neither; nothing but replacing the source
  in between does that. The property has header and bytes from one file
  (`last.info = last.of`) if nothing has gone wrong since the repack began.
  Types, shapes and the number of experts need the same condition: the verifier compares
  those of resident
  tensors only (150-152) and takes those of paged ones from the manifest. A source replaced
  between the repacker's parsing and its hashing, or, with `--no-hash` or `--quick`, at any
  time by one of the same size, passes with the geometry of the other file. If that file
  has more experts, "repack is lossless" (160) is said of a pack that lacks some of
  them: the proof attempt showed that the property has to count the manifest's experts.
- `HonestPasses`: where nothing goes wrong, verification passes and the server starts. That
  the server takes the pack needs a source whose `block_count` is right: the repacker copies
  the number unchecked (266), and only the runtime compares layers with it.
- `TraceIsWhatWasRouted`: no record is lost or moved to another token by a cut. It needs
  two expert layers: with one, the rows a prompt leaves out are nowhere in the file.
- `LargerCacheHoldsMore`, `SimulatorsAgree`, `PoliciesFitTheirBudget`: comparisons of budgets
  and policies are on equal terms.
- `NoHitBelowTheCliff`: no hit with a capacity of up to `TopK` experts for each layer *but
  one*. README.md 181 puts the cliff at the whole of a token's set, "hits exactly 0%"; for
  more than one expert per layer that is not exact: an expert that comes last in its layer
  and first in the next token has fewer between.
- `PlannedFitsUnlessRaised`: neither rounding, nor the split, nor the planner's other unit
  costs more memory than planned, except by the floor. `SlotsSuffice`: the floor is what an
  op needs, and without the launcher's warning each group, not only the sum, holds a
  token's set.

*Bounds and why they are enough.* `MaxPasses` bounds the evaluations of a run: two, so
that prefetches issued near the end of one pass meet the next one, and the cache is
neither cold nor as the pass before left it. Two slots for the four keys of two layers
make every op evict; in `sync`, two misses of one layer push out some, all or none of what
the other layer left in three slots. Two workers are
the least with which speculation and a mandatory job run side by side, three let two
speculative jobs do so. Two tokens per ubatch make an op of two ids, equal or different, and so hits,
misses, and hits on a miss of the same op; one reader may fetch both misses, or each reader
one. On the group of one slot an op of one expert just fits and an op of two does not. That
more misses than readers change nothing is left to `SyncCorrect`, which has any number of
both. Ubatches
of three tokens are above `LookaheadTokens` in `pool` and do not predict, as ubatches of more
than four do not in the code; they find the prefetches of the pass before. What the bounds
leave out, larger crews, horizons and geometries, the theorems cover. `MaxFaults` bounds
the interruptions, and the failures of connections, reads and writes, of all runs of
`download` together: two are enough for a failure to be followed by an interruption or by
another failure of any kind in any stream. Ranges of 3, 3 and 2 bytes are fetched in several
reads and show the rounding of the last one. The number of reruns is not bounded.

The files of `pack` are one with two expert layers of different geometry, a dense layer
between, quantized blocks of two elements, and padding behind an extent and a tensor; one of
the same size and layout with another type and another byte; a smaller one with two kinds
and one expert; one with the same bytes as twice as many experts, each half the size; and
seven that the repacker refuses, each for a reason of its own. The first two and the fourth
may come to the path later. Bytes go bad in the header and in extents of both layers. Two
faults are enough for a replaced source and a kill, two replacements around the hash, or a
verification that takes the header of one file and the bytes of another: it passes in the
run with the third and the fourth, whose bytes are the same. One that passes for a pack that is
lossless for neither file takes a third replacement, one in the repacker and two in the
verifier; `PassMeansLosslessTheorem` has any number.
Extents are aligned to 4 bytes. A trace of five records has up to two and a half evaluations
and any cuts between; a capacity of every size from 0 to more than all experts is tried on each.
The models of `budget` have one to three groups of equal and unequal sizes; the sizes of GPU
reach from none to more than any of them needs.

Experts are interchangeable in `FetchSync`, `FetchPool` and `TraceSim`: they are routed
arbitrarily, compared for equality only, and no property names one, so that symmetry is
sound; it is used in runs without liveness properties only (the refinement of the
synchronous path is checked as a step property, `ExpertStore` assumes no fairness).

*Fairness.* `FairSpec` assumes that the graph thread, once an evaluation has started, takes
its steps when it can, and so does each worker: they are operating-system threads that
nobody suspends, and a `pread` that neither returns nor fails would be a fault of the
kernel. Weak fairness is enough, and is all there is: a step that needs the mutex is disabled while
the graph thread resolves, which ends after finitely many steps, and a run has finitely many
evaluations. No strong fairness, which a mutex does not promise, is assumed. Starting an evaluation and destroying the context are not
fair: nobody has to. The `FairSpec` of `Download` has threads that take their steps and a
user who runs the program again as long as the file is not there: `RerunCompletes` is a
statement about such a user, and about failures that end.

## What is proved

All theorems hold for every number of layers, experts, groups, slots, workers, tokens and
horizons that the named assumptions allow (`GeometryAssumption`, `NullAssumption`,
`SizeAssumption`, `JobAssumption`: sizes are natural numbers, `Qd` and `NUsed` positive,
groups finite, the null values are not keys, slots or jobs). `Experts` is assumed finite
for the synchronous path only, where experts are counted.

- `FetchPool_proofs`: types, the pool invariant, and `Spec => ImplementsStore`. A rank never
  falls below 0 because a rank that `Touch` lowers was above another. `Inv` is inductive, and
  `MatmulReadsItsExperts`, `ResidentMeansLoaded`, `MapsAgree` and `OnlyFlightsWrite` follow.
  None of these is inductive alone: that a landed slot holds its key needs that the worker's
  slice holds its job's key (`BounceRight`), that the job's key is still the slot's
  (`JobsOwned`), and hence that a slot in flight is never a victim, not even as an empty one
  (`FlightAssigned`), and that no second job can be for it (`JobsDistinct`). That the matmul
  is right needs that the op's slots stay pinned and assigned, and that the slots it waits
  for include all of its slots in flight (`EmittedHeld`, `EmittedAll`). For the refinement,
  each step of the pool is `StartPass`, `Route`, `Serve`, `Finish`, `Stop`, `Fail`, a `Page`
  that moves what is resident, or a stutter. That what is resident fits a group is an
  injection from its keys to the group's slots (`Capacity` in `SlotCache_proofs`), which
  needs that keys are only ever assigned slots of their own group (`OwnPool`).
  On speculation, `n_spec_active` is the cardinality of the set of workers
  on speculative jobs, issued prefetches are the used, the wasted and the
  unreferenced, and a sleeping op waits for nothing queued as speculation. `OneOwner` needs,
  beyond `Inv`, that no flag is left behind (`FlightHasJob`: what is in flight has a job);
  with `JobsOwned` and `JobsDistinct` each slot then has its flag and one job, or neither.
  `AbortOnlyUnderSpeculation` is a counting argument that needs `PinnedEmitted`: an op
  without a victim has every slot of the group pinned or in flight, those not merely in
  flight hold different experts of its layer, and the expert it wants is one more.
- `FetchSync_proofs`: types, the inductive invariant `SyncInv`, what follows from it, and
  the refinement. `ClaimedIsLoadedOrPending` needs to know which misses are still to come,
  which is a matter of the index and of what each reader has drawn (`ReadersRight`), and
  that misses have slots of their own (`MissesHeld`); what the op holds is `EmittedHeld`,
  which needs that a victim is never pinned. For `ReadersApart` a second invariant
  (`UnfetchedAbsent`) follows a miss from the op that resolves it to the reader that copies
  it: it is not in its slot until then, for the cache did not claim it, and what a slot
  holds and the cache does not claim is old. `OpAlwaysFits` is a counting argument:
  if an op finds no victim, every slot of the group is pinned and assigned to a different
  expert of the layer, and the expert it wants is one more.
  `SimulatorAgrees` needs what the two caches have in common beyond their contents. The
  simulator has a list and evicts its first; the runtime has ranks, ages a slot by letting
  those above it come down, and evicts around the slots its op has pinned. `RanksRight`:
  slots in use have ranks of their own, above the number of slots never used, so that
  aging never makes two of them equal and empty slots go first. `PinnedLast`: what an op has
  pinned was used last, so that the oldest slot that is not pinned is the oldest of all.
  Then the victim holds the simulator's first (`VictimIsOldest`), there is an empty slot
  exactly while the simulator has room (`NotFull`, `Full`), and a hit or a miss moves the
  same expert to the same end of both (`OrderKept`, `MissAges`).
- `SlotCache_proofs`: what both rest on: slots are finite and counted by group, `Remap`
  keeps the two maps in agreement (`AssignAgrees`), `Touch` keeps ranks.

- `Download_proofs`: `DownloadInv` is inductive for every `Size`, `Chunks`, `MaxRead`,
  `WriterBuffer` and `MaxErrors` (`DownloadAssumption`: sizes are natural numbers and no
  range is empty), and `DestIsWhole` and `PartsOnlyGrow` follow. `AssembledRight` is the
  heart: what is copied never reaches beyond the end of the last range copied, and reaches
  it only if every part was whole, so that in the end the right size means the right bytes.
  The check of the sum of `done` is not needed for it.

- `SeqFolds_proofs`: what the loops over lists compute, for every list. The induction
  theorems of the library take a formula as a parameter, which the provers cannot
  instantiate; `SetInduction` takes the set of the numbers that satisfy it, and follows from
  the well-ordering of the numbers. With it a recursive function is what its equation says
  (`Recursion`), and so are `FlattenSeq` (`FlattenParts`: where each element of each part
  is), `Keep`, `SumOf`, `ProductOf` and `Sorted`. Lists that grow at their end, as most of
  the programs' lists do, have lemmas of their own (`KeepAppend`, `FlattenAppend`).
- `PackDir_proofs` begins with what the repacker's operators return for every file it lets
  through: layers in order, kinds, parts that lie back to back, strides that are multiples of the
  alignment (`GeometryIs`), the bytes of an extent (`ExtentIs`) and of the resident file
  (`SubsetIs`), each read inside the file it was planned for (`ExtentIsCopyable`,
  `ResidentIsCopyable`), that a resident file can be parsed again, each tensor filling the
  room up to the next (`ResidentReadable`), and the planner's size of the store as a sum over layers
  (`PagedBytesAre`), although the planner adds up tensors in the order of the file.
  Then follow the theorems, for any files that are GGUF files, any type table and alignment, and any
  number of faults (`GgufAssumption`, `RepackAssumption`: sizes and alignments are positive
  and the alignment divides the pack's header; `PackDirAssumption`: each file has the types
  its header can give, a positive alignment, and no two tensors of one name, as llama.cpp's
  own reader demands):
  - `ExtentsApart`: extents are multiples of the alignment because strides and the header
    are; that each follows the last needs that `off` is where the last one ends, and that
    the plan is not touched while the pack is written.
  - `ManifestMeansPack` and `CountsAgree` are not inductive. What is (`Inv`) says besides
    that the groups are those of the plan in their order, each with its layer, its expert
    and an offset where the one before it ends (`PlanOf`), that the pack is as long as the
    plan of the extents written so far (`Progress`), that a manifest was made for one of the
    files, from a full plan of it (`ManifestOK`), and the exact types (`Typed`). The planner's count
    is then the sum of as many equal strides for each layer as there are experts
    (`PlanPositions`).
  - `PassMeansLossless`: the header that was read is of one of the files, and fits the
    manifest and the resident file (`HeadersRead`), which nobody writes until the
    comparison (`HeadersKept`). That a verdict is of the files as they are is one half of the
    rest of the invariant (`Passed`), that the manifest and the verifier's header, as long as
    nothing has gone wrong, are of the file at the path, is the other (`HonestOK`). The rest is what the verifier compared: the
    runtime looks for the last group of an expert, and a full plan has just one
    (`GroupsDiffer`, `GroupOfExpert`); it reads whole strides, which lie in the pack because
    the manifest's plan does and the pack has its length; a part of the stride is the range
    that was compared (`ComparedIsFetched`), by its layer and kind and not by the plan.
  - `HonestPasses`: the bytes are followed through the writer's loop. The extents written so
    far are copies of the source's slices (`Copied`); another one begins behind them and
    leaves them as they are (`CopyGrows`). With the resident file and the manifest this says
    that everything at rest was made from the one source (`Written`), which the four checks
    of the verifier and those of the runtime accept (`WrittenPasses`, `WrittenAccepted`),
    and which nothing but a fault ends. The theorem assumes `LayersCounted`: each file the
    repacker lets through numbers its layers below its `block_count`.

- `Budget_proofs`: the budget's two promises, for every model, size of GPU, unit and
  rounding (`BudgetAssumption`: sizes are positive, extents not smaller than their payload,
  layers whose parts match have the same payload, a token uses at most all experts). The
  invariant (`BudgetInv`) says what the budget was when it was chosen and that the slots
  were made from it. `SlotsSuffice` is then an inequality: the launcher's cliff, in padded
  bytes of the whole model, is not below `top_k` payloads of each layer, and of those the
  split gives each group its own (`PaidIsEnough`), both of its roundings included. With its
  first half the bound of `FitsCorrect` is met by any op, whose experts are of one layer.
  For `PlannedFitsUnlessRaised` the shares are added up in the order in which layers start
  groups: what the first n layers have started costs at most the part of the budget that is
  the share of the groups seen so far (`CostsWithinBudget`), and all groups' share is all.

- `TraceSim_proofs`, for every model with at least two expert layers, in ascending order,
  finitely many experts and a positive number of tokens per evaluation (`TraceAssumption`),
  every routing, and every sequence of evaluations and cuts:
  - `TraceIsWhatWasRouted` follows from `TraceInv`, in which the evaluations the model
    remembers are the steps that would be found in the file if it ended here. That is not
    inductive by itself: that the next record goes to the right step needs the layer of the
    last one, and that its rows go to the right tokens needs that the evaluation in progress
    has as many tokens as the step (`InProgress`). It has, as all layers but the last write a
    row for each token, and there are two layers: a last record with fewer rows does not
    change the count (`TokensAppend`). After a cut the first layer comes again, which is not
    above the last one, whichever that was.
  - `TraceInv` also says what a token is made of: blocks of `TopK` different experts, one
    for each layer up to some, in the order of the layers (`Blocks`). The simulators'
    properties are about such traces.
  - `LargerCacheHoldsMore`: the larger LRU is the smaller one behind one older key, or both
    are the same list (`Wider`), and whatever key is used it stays so (`UsedWider`).
    Inclusion of the two as sets would not be inductive: the larger one could evict what
    the smaller one has. The lemma for two capacities (`LargerHolds`) allows any warm-up; the
    property names the two that the run has.
  - `SimulatorsAgree`: reading a token layer by layer is reading it as it stands, because
    its layers ascend (`TraceByLayer`). The loops then agree from turn to turn
    (`LoopsAgree`), at capacity 0 because what is put in is at once the oldest.
  - `PoliciesFitTheirBudget`: hits on pinned keys are counted for each of their references,
    and where everything fits nothing is evicted, so that a key misses when it is new.
  - `NoHitBelowTheCliff`: in a trace of whole tokens, two references to one key are more
    than `(L - 1) * TopK` apart (`FarApart`: they are of one layer, and differ by less than
    `TopK` in their places within it). An LRU without hits holds the last references and
    nothing else (`Recent`), so that the next key is not among as many as it has places.

*Only model-checked*: liveness (`OpReturns`, `PrefetchLands`, `DestructorReturns`,
`RerunCompletes`), which is out of the prover's reach.

## Where code and documentation disagree

- **An op may not fit its group** (`pool_floor`). The slot budget is "floored at n_expert
  slots so any single mul_mat_id fits in its group's pool" (P1 673, likewise
  docs/INTEGRATION.md:59). With lookahead on, slots of queued or running prefetches are not
  evictable, and `victim()` may find nothing for an op of no more than n_expert ids: the
  process aborts with "expert cache too small for a single op" (P4 698). It takes prefetches
  of another layer of the group; those of the op's own layer are among its n_expert
  experts. The run has a slot for each of the two experts of a layer and two layers in the
  group: layer 1's op prefetches an expert of layer 2 that layer 2's op does not ask for,
  and the job is still queued when, in the next evaluation, a ubatch of two tokens has
  layer 1's op resolve both experts. `AbortOnlyUnderSpeculation` says what the abort
  takes, and on the synchronous path it cannot happen (`FitsCorrect`).
- **With one worker prefetches never land** (`pool_one_worker`). `NVMOE_QD=1` is accepted
  (P3 58), and the cap of `qd - 1` speculative workers is then zero (P4 309): prefetches
  are queued, take a victim's slot and are never run unless their own layer promotes them,
  against "The speculative fetches then land during the layers' matmuls" (P4 643-645).

- **A failed write of the download is not transient** (`download_full_disk`). "transient;
  resume from byte offset" (`nvmoe` 201) holds for the offset `done`, which counts what
  was handed to `f.write`, not what is in the part. After a write that failed halfway the
  part has bytes that are not counted, and a retry in the same run appends them again;
  after a flush that failed at close it lacks bytes that are, and the retry leaves a hole.
  The run shows a file of the right size with wrong bytes, "complete + size-verified". A
  part that has become too long makes the sizes differ instead, and then "parts kept -
  rerun" (227) is of no use: every rerun assembles the same parts.
- **A rejected pack is served** (`unverified_pack`). README.md 13 describes `nvmoe run` as
  "download -> repack -> byte-verify -> serve". `ensure_pack` (`nvmoe` 239) asks only for a
  manifest, which is there before the verification: the run after a failed one serves the
  pack that failed.
- **A planned budget may be no budget** (`planned_budget`). docs/INSTALL.md 120 has
  "`python3 tools/plan.py <gguf>` prints a budget that fits". With less than 256 MB left,
  `plan.py` 344 rounds to 0, which the runtime (P1 699) takes for no limit: all experts are
  made resident. The launcher's own budget has a minimum of 512 MB instead.

## What is not modelled

- Reference, miss and byte counters, prediction accuracy and timings: nothing depends on
  them.
- The numbers inside tensors, the ranking of predicted logits (any choice of ids is
  possible instead), short reads that `pread` resumes (a read ends or fails).
- Memory-estimate mode (`no_alloc`), in which the graph is built and never run.
- Two contexts on one model, which the header excludes (P1 918-919).
- A thread that cannot be created.
- Of the download: the HEAD request for a size the catalog does not list, two processes
  at once, a remote file or a number of chunks that changes between runs.
- Of packs: a source that is written to while a tool has it open (it is replaced as a whole,
  between two openings), a loss of power after a file was closed (nothing is synced), a repack while a
  server reads the same pack, two tools at once, `O_DIRECT` and its fallback.
- Of the launcher: the health loop, which reports the server as ready after sixty failed
  tries, and the pid file, which `stop` trusts; both are read off the code.
- Of the planner and the simulators: estimates of hit rate, bandwidth and speed, and the
  geometry `plan.py` derives from a trace, all in floating point. `compare_logits.py`, whose
  `d > max_diff` no NaN satisfies.
- The I/O bench, whose order of events is the kernel's and the copy engine's.
- The choice of lookahead at start (`LkTop`, `LkDepth`, `SpecLayers` are arbitrary), and the
  hooks in llama.cpp.
