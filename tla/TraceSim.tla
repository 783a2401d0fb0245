------------------------------ MODULE TraceSim ------------------------------
(***************************************************************************)
(* The way of a routing trace: llama-nvmoe-trace (collector) writes one    *)
(* record for each expert layer of each graph evaluation, runs are cut     *)
(* short, their files concatenated (tools/collect_qwen_traces.sh), and the *)
(* result read back by the post-processor and the simulators.              *)
(***************************************************************************)
EXTENDS TracePost, CacheSim, FiniteSetsExt

CONSTANTS
  MoeLayers,      \* the layers with experts, in the order of the graph
  Experts,
  TopK,
  BatchSizes,     \* tokens of a graph evaluation
  MaxRecords      \* bound on the length of the file

ASSUME TraceAssumption ==
  /\ MoeLayers \in Seq(Nat) /\ Len(MoeLayers) > 1
  /\ \A i \in 1 .. Len(MoeLayers) - 1 : MoeLayers[i] < MoeLayers[i + 1]
  /\ IsFiniteSet(Experts) /\ TopK \in 1 .. Cardinality(Experts)
  /\ BatchSizes \subseteq Nat \ {0}

VARIABLES
  raw,            \* the file
  layer,          \* index in MoeLayers of the next record's layer
  batch,          \* tokens of the evaluation in progress
  evaluations     \* what was evaluated: for each evaluation, its tokens' keys

vars == <<raw, layer, batch, evaluations>>

Init == raw = <<>> /\ layer = 1 /\ batch = 0 /\ evaluations = <<>>

\* The rows of a record: each token's experts, no expert twice.
Choice == {ids \in [1 .. TopK -> Experts] : IsInjective(ids)}

\* The last layer is evaluated for the output rows only: all tokens of a decode step, and
\* of a prompt none or the last.
RowCounts == IF layer = Len(MoeLayers) /\ batch' > 1 THEN {0, 1} ELSE {batch'}

\* Token i gets the keys of its row in a record of t rows; the rows are of the last tokens.
WithRecord(tokens, rows, t) ==
  [i \in 1 .. batch' |->
     LET row == i - (batch' - t)
     IN  tokens[i] \o (IF row < 1 THEN <<>>
                       ELSE [k \in 1 .. TopK |-> <<MoeLayers[layer], rows[row][k]>>])]

Callback ==
  /\ Len(raw) < MaxRecords
  /\ batch' \in (IF layer = 1 THEN BatchSizes ELSE {batch})
  /\ \E t \in RowCounts : \E rows \in [1 .. t -> Choice] :
       /\ raw' = Append(raw, [l |-> MoeLayers[layer], t |-> t, e |-> rows])
       /\ evaluations' =
            IF layer = 1
            THEN Append(evaluations, WithRecord([i \in 1 .. batch' |-> <<>>], rows, t))
            ELSE [evaluations EXCEPT ![Len(evaluations)] = WithRecord(Last(evaluations), rows, t)]
  /\ layer' = IF layer = Len(MoeLayers) THEN 1 ELSE layer + 1

\* The collector ends within an evaluation, and another file is appended to this one.
Cut ==
  /\ layer > 1
  /\ layer' = 1
  /\ UNCHANGED <<raw, batch, evaluations>>

Next == Callback \/ Cut

Spec == Init /\ [][Next]_vars

-----------------------------------------------------------------------------
(* What must hold.                                                         *)

Trace == steps_to_tokens(parse_steps(raw), FALSE)

DecodeTrace == steps_to_tokens(parse_steps(raw), TRUE)

Capacities == 0 .. Len(MoeLayers) * Cardinality(Experts) + 1

\* The post-processed trace is what the model has routed (trace_post.py): each token of
\* each evaluation has the experts of the layers computed for it, in order, wherever the
\* files were cut; and the decode trace leaves out whole evaluations only.
TraceIsWhatWasRouted ==
  /\ Trace = FlattenSeq(evaluations)
  /\ DecodeTrace = FlattenSeq(Keep(evaluations, {tokens \in ToSet(evaluations) : Len(tokens) = 1}))

\* A larger cache holds all a smaller one does, so its hit rate is no worse, after any
\* warm-up: the budgets plan.py and run_sim.py compare are in order (cache_sim.py:51-58).
LargerCacheHoldsMore ==
  LET trace == Trace
      sim == [w \in {0, 1} |-> [c \in Capacities |-> simulate_lru(trace, c, {}, w)]]
  IN  \A w \in {0, 1}, c \in Capacities \ {0} :
    LET small == sim[w][c - 1]
        large == sim[w][c]
    IN  /\ ToSet(small.lru) \subseteq ToSet(large.lru)
        /\ small.hits <= large.hits
        /\ small.accesses = large.accesses

\* The thrash cliff (plan.py:130-132): a cache that holds no more than the experts a
\* token uses in all layers but one never hits.  Of tokens that passed every layer.
NoHitBelowTheCliff ==
  LET trace == DecodeTrace
  IN  (\A token \in ToSet(trace) : Len(token) = Len(MoeLayers) * TopK) =>
        \A c \in 0 .. (Len(MoeLayers) - 1) * TopK : simulate_lru(trace, c, {}, 0).hits = 0

\* The two simulators agree (analyze_lookahead.py:115-149 against cache_sim.py:30-64):
\* they count the same hits and end with the same cache, at every capacity.
SimulatorsAgree ==
  LET trace == Trace
  IN  \A c \in Capacities :
    LET sim == simulate_lru(trace, c, {}, 0)
        rep == replay(trace, Last(MoeLayers) + 1, c)
    IN  /\ sim.hits = rep.hits /\ sim.accesses = rep.hits + rep.fetches
        /\ sim.lru = rep.cache

\* No policy uses more than its budget: the pinned experts and the LRU together fit the
\* capacity, and what is pinned is never in the LRU as well (cache_sim.py:41).  A pinned
\* expert hits from the start.
PoliciesFitTheirBudget ==
  LET trace == Trace
      touched == Touched(trace)
  IN  \A c \in Capacities : \A pins \in Pins(trace, c) :
    LET sim == simulate_lru(trace, c, pins, 0)
    IN  /\ Cardinality(pins) + Len(sim.lru) <= c
        /\ ToSet(sim.lru) \cap pins = {}
        /\ sim.hits >= Len(Keep(FlattenSeq(trace), pins))
        /\ Cardinality(touched) <= c => sim.accesses - sim.hits = Cardinality(touched \ pins)

-----------------------------------------------------------------------------
(* Why it is so.                                                           *)

RowsOf(t) == [1 .. t -> Choice]

Records == UNION {[l : ToSet(MoeLayers), t : {t}, e : RowsOf(t)] : t \in BatchSizes \cup {0, 1}}

AllKeys == ToSet(MoeLayers) \X Experts

\* A token has the experts of the first layers, or of all, as many and different ones of each.
Blocks(token, n) ==
  /\ token \in Seq(AllKeys) /\ Len(token) = n * TopK
  /\ \A i \in 1 .. n : \A k \in 1 .. TopK :
       /\ token[(i - 1) * TopK + k][1] = MoeLayers[i]
       /\ \A j \in 1 .. TopK :
            token[(i - 1) * TopK + j] = token[(i - 1) * TopK + k] => j = k

\* The tokens of an evaluation in progress have the layers up to the one before the next.
InProgress ==
  layer > 1 =>
    /\ batch \in BatchSizes
    /\ raw # <<>> /\ Last(raw).l = MoeLayers[layer - 1]
    /\ evaluations # <<>> /\ Len(Last(evaluations)) = batch
    /\ \A i \in 1 .. batch : Blocks(Last(evaluations)[i], layer - 1)

\* The steps that parse_steps makes of the file are the evaluations, each with its tokens,
\* and will be so whatever record comes next.
TraceInv ==
  /\ raw \in Seq(Records)
  /\ layer \in 1 .. Len(MoeLayers)
  /\ evaluations = [s \in DOMAIN parse_steps(raw) |-> Tokens(parse_steps(raw)[s])]
  /\ \A s \in DOMAIN evaluations : Len(evaluations[s]) > 0
  /\ \A s \in DOMAIN evaluations : \A i \in DOMAIN evaluations[s] :
       \E n \in 1 .. Len(MoeLayers) : Blocks(evaluations[s][i], n)
  /\ InProgress
=============================================================================
