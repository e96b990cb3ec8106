------------------------------- MODULE HwTypes ------------------------------
(***************************************************************************)
(* hdl-cat-kind's Hw trait: which Rust types have a hardware encoding, how *)
(* wide it is, and how a value is packed into a BitSeq and read back.  A   *)
(* type is its TypeDesc; a bool is 0 or 1, a tuple or an array a sequence. *)
(***************************************************************************)
EXTENDS HdlBits, Circuits

TupleT(ts) == [desc |-> "Tuple", parts |-> ts]
ArrayT(t, len) == [desc |-> "Array", elem |-> t, len |-> len]

\* The types of a value's immediate parts, in order.
Parts(t) == IF t.desc = "Array" THEN [i \in 1..t.len |-> t.elem] ELSE t.parts

\* Hw::WIDTH, and TypeDesc::width of the descriptor: the same recursion.
RECURSIVE HwWidth(_)
HwWidth(t) ==
  CASE t.desc = "Bool"               -> 1
    [] t.desc \in {"Bits", "Signed"} -> t.n
    [] t.desc = "Tuple"              -> Total([i \in DOMAIN t.parts |-> HwWidth(t.parts[i])])
    [] t.desc = "Array"              -> HwWidth(t.elem) * t.len

\* A packing that puts the last component lowest.
RECURSIVE ToBitsSeqReversed(_, _)
ToBitsSeqReversed(t, v) ==
  CASE t.desc = "Bool"   -> <<v>>
    [] t.desc = "Bits"   -> AsBits(t.n, v)
    [] t.desc = "Signed" -> AsBits(t.n, ToBits(t.n, v))
    [] OTHER -> FlattenSeq(Reverse([i \in DOMAIN v |-> ToBitsSeqReversed(Parts(t)[i], v[i])]))

\* to_bits_seq: the components in order, the first lowest.
RECURSIVE ToBitsSeq(_, _)
ToBitsSeq(t, v) ==
  CASE t.desc = "Bool"   -> <<v>>
    [] t.desc = "Bits"   -> AsBits(t.n, v)
    [] t.desc = "Signed" -> AsBits(t.n, ToBits(t.n, v))
    [] OTHER -> FlattenSeq([i \in DOMAIN v |-> ToBitsSeq(Parts(t)[i], v[i])])

\* from_bits_seq: the width is checked at every level, the components are cut
\* off by their widths, and the first error is the outcome.
RECURSIVE FromBitsSeq(_, _)
FromBitsSeq(t, bits) ==
  LET ts     == Parts(t)
      pieces == Chunks(bits, [i \in DOMAIN ts |-> HwWidth(ts[i])])
      read   == [i \in DOMAIN ts |-> FromBitsSeq(ts[i], pieces[i])]
      failed == {i \in DOMAIN ts : read[i].err # "none"}
  IN  IF Len(bits) # HwWidth(t) THEN Fail("WidthMismatch")
      ELSE CASE t.desc = "Bool"   -> Ok(BitAt(bits, 0))
             [] t.desc = "Bits"   -> Ok(FromBoolArray(bits))
             [] t.desc = "Signed" -> Ok(FromBits(t.n, FromBoolArray(bits)))
             [] OTHER -> IF failed = {} THEN Ok([i \in DOMAIN ts |-> read[i].val])
                         ELSE read[Min(failed)]

---------------------------------------------------------------------------
(* The values of a type: what its constructors let through *)

RECURSIVE ValuesOf(_)
ValuesOf(t) ==
  CASE t.desc = "Bool"   -> {0, 1}
    [] t.desc = "Bits"   -> {v \in 0..(WordSize - 1) : BitsFits(t.n, v)}
    [] t.desc = "Signed" -> {v \in -(WordSize \div 2)..(WordSize \div 2 - 1) : SignedFits(t.n, v)}
    [] OTHER ->
         LET tuples[i \in 0..Len(Parts(t))] ==
               IF i = 0 THEN {<<>>}
               ELSE {Append(p, v) : p \in tuples[i - 1], v \in ValuesOf(Parts(t)[i])}
         IN  tuples[Len(Parts(t))]
=============================================================================
