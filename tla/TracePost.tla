------------------------------ MODULE TracePost -----------------------------
(***************************************************************************)
(* From the collector's records to a trace (sim/trace_post.py).  A record  *)
(* is [l, t, e]: the layer, the rows, and the expert ids of each row.  A   *)
(* trace is a sequence of tokens, a token a sequence of keys, and a key    *)
(* <<layer, expert>>.                                                      *)
(***************************************************************************)
EXTENDS SeqFolds

\* The layer index does not increase: the graph has begun anew.
Resets(prev, rec) == rec.l <= prev.l

\* One line of the file.
Read(acc, rec) ==
  IF acc.current # <<>> /\ Resets(Last(acc.current), rec)
  THEN [steps |-> Append(acc.steps, acc.current), current |-> <<rec>>]
  ELSE [acc EXCEPT !.current = Append(acc.current, rec)]

AllSteps(acc) == IF acc.current = <<>> THEN acc.steps ELSE Append(acc.steps, acc.current)

Parsed(raw) ==
  LET read[n \in 0 .. Len(raw)] ==
        IF n = 0 THEN [steps |-> <<>>, current |-> <<>>] ELSE Read(read[n - 1], raw[n])
  IN  read[Len(raw)]

parse_steps(raw) == AllSteps(Parsed(raw))

NTokens(step) == Max({rec.t : rec \in ToSet(step)})

\* Fault: the rows of a shorter record belong to the first tokens.
LeadingRow(step, rec, i) == IF i <= rec.t THEN i ELSE 0

\* Which row of a record is token i's; none if it is below 1.  A record with fewer rows
\* than its step is of the last tokens.
Row(step, rec, i) == i - (NTokens(step) - rec.t)

\* What a record says of the token whose row it has at row.
Keys(rec, row) == IF row < 1 THEN <<>> ELSE [k \in DOMAIN rec.e[row] |-> <<rec.l, rec.e[row][k]>>]

Token(step, i) == FlattenSeq([j \in DOMAIN step |-> Keys(step[j], Row(step, step[j], i))])

Tokens(step) == [i \in 1 .. NTokens(step) |-> Token(step, i)]

steps_to_tokens(steps, decode_only) ==
  LET kept == Keep(steps, {step \in ToSet(steps) : ~(decode_only /\ NTokens(step) > 1)})
  IN  FlattenSeq([s \in DOMAIN kept |-> Tokens(kept[s])])
=============================================================================
