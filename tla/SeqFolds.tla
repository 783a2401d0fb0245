------------------------------ MODULE SeqFolds -------------------------------
(***************************************************************************)
(* What the tools compute from a list in one pass: a list comprehension    *)
(* with a condition, a sum, a product; and Python's sorted().  They are    *)
(* written so that SeqFolds_proofs can say what they return for every      *)
(* list.                                                                   *)
(***************************************************************************)
EXTENDS Integers, SequencesExt

\* The elements of s that are in K, in their order.
Keep(s, K) ==
  LET kept[i \in 0 .. Len(s)] ==
        IF i = 0 THEN <<>> ELSE IF s[i] \in K THEN Append(kept[i - 1], s[i]) ELSE kept[i - 1]
  IN  kept[Len(s)]

SumOf(s) ==
  LET sum[i \in 0 .. Len(s)] == IF i = 0 THEN 0 ELSE sum[i - 1] + s[i]
  IN  sum[Len(s)]

ProductOf(s) ==
  LET product[i \in 0 .. Len(s)] == IF i = 0 THEN 1 ELSE product[i - 1] * s[i]
  IN  product[Len(s)]

\* The numbers of a finite set, from the smallest to the largest.
Sorted(S) ==
  CHOOSE s \in [1 .. Cardinality(S) -> S] :
    ToSet(s) = S /\ \A i, j \in DOMAIN s : i < j => s[i] < s[j]
=============================================================================
