------------------------------- MODULE HdlBits ------------------------------
(***************************************************************************)
(* hdl-cat-bits: Bits<N>, an unsigned number kept in the low N bits of a   *)
(* u128, and SignedBits<N>, a signed one kept sign-extended in an i128.    *)
(* The machine word has WordBits bits here, 128 in the code; a u128 is a   *)
(* number below 2^WordBits, an i128 the signed number it stands for.       *)
(***************************************************************************)
EXTENDS Integers, Sequences, Bitwise

CONSTANT WordBits   \* bits of a u128

ASSUME WordBitsAssumption == WordBits \in Nat \ {0}

WordSize == 2^WordBits

\* The word arithmetic of Rust that the crate is written in.
Wrapping(v) == v % WordSize

Complement(v) == WordSize - 1 - v

AsSigned(v) == IF v < 2^(WordBits - 1) THEN v ELSE v - WordSize

AsUnsigned(v) == v % WordSize

---------------------------------------------------------------------------
(* mask.rs *)

Mask(n) ==
  CASE n = 0                    -> 0
    [] n \in 1..(WordBits - 1)  -> 2^n - 1
    [] n >= WordBits            -> WordSize - 1

SignBit(n) ==
  CASE n = 0             -> 0
    [] n \in 1..WordBits -> 2^(n - 1)
    [] n > WordBits      -> 2^(WordBits - 1)

SignExtend(low, n) ==
  AsSigned(IF (low & SignBit(n)) # 0 THEN low | Complement(Mask(n)) ELSE low & Mask(n))

---------------------------------------------------------------------------
(* Bits<N> *)

BitsNewWrapping(n, v) == v & Mask(n)

BitsFits(n, v) == (v & Complement(Mask(n))) = 0

BitsMax(n) == Mask(n)

BitsAdd(n, a, b) == Wrapping(a + b) & Mask(n)

BitsSub(n, a, b) == Wrapping(a - b) & Mask(n)

BitsMul(n, a, b) == Wrapping(a * b) & Mask(n)

BitsNot(n, a) == Complement(a) & Mask(n)

\* A shift by as many bits as the word has would panic: it is a case of its own.
BitsShl(n, a, r) == IF r >= WordBits THEN 0 ELSE Wrapping(a * 2^r) & Mask(n)

BitsShr(n, a, r) == IF r >= WordBits THEN 0 ELSE (a \div 2^r) & Mask(n)

\* as_bits: bit 0 first.
AsBits(n, a) == [i \in 1..n |-> (a \div 2^(i - 1)) & 1]

FromBoolArray(bits) ==
  LET acc[i \in 0..Len(bits)] == IF i = 0 THEN 0 ELSE acc[i - 1] | (bits[i] * 2^(i - 1))
  IN  acc[Len(bits)]

---------------------------------------------------------------------------
(* SignedBits<N>.  Every operation is on the i128 and ends in new_wrapping. *)

SignedNewWrapping(n, v) == SignExtend(AsUnsigned(v) & Mask(n), n)

SignedMin(n) == IF n = 0 THEN 0 ELSE AsSigned(Wrapping(-SignBit(n)))

SignedMax(n) == IF n = 0 THEN 0 ELSE AsSigned(Wrapping(SignBit(n) - 1))

SignedFits(n, v) == SignedMin(n) <= v /\ v <= SignedMax(n)

SignedAdd(n, a, b) == SignedNewWrapping(n, a + b)

SignedSub(n, a, b) == SignedNewWrapping(n, a - b)

SignedMul(n, a, b) == SignedNewWrapping(n, a * b)

SignedNeg(n, a) == SignedNewWrapping(n, -a)

ToBits(n, a) == BitsNewWrapping(n, AsUnsigned(a) & Mask(n))

FromBits(n, b) == SignExtend(b, n)
=============================================================================
