---------------------------- MODULE MCCircuitCat ---------------------------
(***************************************************************************)
(* Instances of CircuitCat over generators of one and two bits: gates, the *)
(* adders, wired coherence arrows, and a copying arrow of the kind that    *)
(* CircuitArrow::from_raw_parts allows, whose two outputs are one wire.    *)
(***************************************************************************)
EXTENDS CircuitCat

Bit1 == <<BitTy>>
Two == <<BitsTy(2)>>

SomeArrow(h) ==
  CASE h = "not"   -> NotBit
    [] h = "xor"   -> BinaryBit("Xor")
    [] h = "half"  -> HalfAdder
    [] h = "id"    -> WiredIdentity(Bit1)
    [] h = "swap"  -> WiredBraid(Bit1, Bit1)
    [] h = "copy"  -> Arrow(WithWire(EmptyGraph, BitTy), <<1>>, <<1, 1>>)
    [] h = "Sub"   -> BinaryBits("Sub", 2)
    [] h = "Mul"   -> BinaryBits("Mul", 2)
    [] h = "Lt"    -> CompareBits("Lt", 2)
    [] h = "Eq"    -> CompareBits("Eq", 2)
    [] h = "full"  -> FullAdder
    [] h = "braid" -> WiredBraid(Two, Bit1)

SomeDom(h) ==
  CASE h \in {"not", "id", "copy"} -> Bit1
    [] h \in {"xor", "half", "swap"} -> Bit1 \o Bit1
    [] h \in {"Sub", "Mul", "Lt", "Eq"} -> Two \o Two
    [] h = "full" -> Bit1 \o Bit1 \o Bit1
    [] h = "braid" -> Two \o Bit1

SomeCod(h) ==
  CASE h \in {"not", "xor", "id", "Lt", "Eq"} -> Bit1
    [] h \in {"half", "full", "swap", "copy"} -> Bit1 \o Bit1
    [] h \in {"Sub", "Mul"} -> Two
    [] h = "braid" -> Bit1 \o Two

\* What each generator is for, told with comparisons and arithmetic.
SomeMeaning(h, v) ==
  CASE h = "not"  -> <<IF v[1] = <<1>> THEN <<0>> ELSE <<1>>>>
    [] h = "xor"  -> <<IF v[1] = v[2] THEN <<0>> ELSE <<1>>>>
    [] h = "half" -> LET n == v[1][1] + v[2][1] IN <<<<n % 2>>, <<n \div 2>>>>
    [] h = "id"   -> v
    [] h \in {"swap", "braid"} -> <<v[2], v[1]>>
    [] h = "copy" -> <<v[1], v[1]>>
    [] h = "Sub"  -> <<FromNat(4 + ToNat(v[1]) - ToNat(v[2]), 2)>>
    [] h = "full" -> LET n == v[1][1] + v[2][1] + v[3][1] IN <<<<n % 2>>, <<n \div 2>>>>
    [] h = "Mul"  -> <<FromNat(ToNat(v[1]) * ToNat(v[2]), 2)>>
    [] h = "Eq"   -> <<IF v[1] = v[2] THEN <<1>> ELSE <<0>>>>
    [] h = "Lt"   -> <<IF ToNat(v[1]) < ToNat(v[2]) THEN <<1>> ELSE <<0>>>>

AllGens == {"not", "xor", "half", "full", "id", "swap", "copy", "Sub", "Mul", "Lt", "Eq", "braid"}
=============================================================================
