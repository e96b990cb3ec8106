------------------------------ MODULE BitSeqs ------------------------------
(***************************************************************************)
(* Bit sequences, LSB first: hdl-cat-kind's BitSeq, and the conversions    *)
(* between a sequence and an unsigned number that the interpreter uses.    *)
(* A bit is 0 or 1; the bit of index i in the code is position i + 1.      *)
(* Sequences are short enough here that every number fits the code's u128. *)
(***************************************************************************)
EXTENDS Integers, Sequences, SequencesExt

Bit == {0, 1}

BitSeq(n) == [1..n -> Bit]

Zeros(n) == [i \in 1..n |-> 0]

Ones(n) == [i \in 1..n |-> 1]

One(n) == [i \in 1..n |-> IF i = 1 THEN 1 ELSE 0]

\* BitSeq::bit: out of range reads as false.
BitAt(s, i) == IF i < Len(s) THEN s[i + 1] ELSE 0

ToNat(s) ==
  LET v[i \in 0..Len(s)] == IF i = 0 THEN 0 ELSE v[i - 1] + s[i] * 2^(i - 1)
  IN  v[Len(s)]

\* The low n bits of v; wrapping arithmetic followed by this is modulo 2^n.
FromNat(v, n) == [i \in 1..n |-> (v \div 2^(i - 1)) % 2]

\* BitSeq::split_at: the prefix takes at most the whole sequence.
SplitAt(s, at) ==
  LET take == IF at < Len(s) THEN at ELSE Len(s)
  IN  <<SubSeq(s, 1, take), SubSeq(s, take + 1, Len(s))>>

Replicate(s, d) == FlattenSeq([k \in 1..d |-> s])

\* The sum of a sequence of widths.
Total(widths) ==
  LET t[k \in 0..Len(widths)] == IF k = 0 THEN 0 ELSE t[k - 1] + widths[k]
  IN  t[Len(widths)]

\* The chunks of s of the given widths, in order; s is as long as their sum.
Chunks(s, widths) ==
  LET from(k) == Total(SubSeq(widths, 1, k - 1))
  IN  [k \in 1..Len(widths) |-> SubSeq(s, from(k) + 1, from(k) + widths[k])]
=============================================================================
