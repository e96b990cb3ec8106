---------------------------- MODULE ArrayBlocks ----------------------------
(***************************************************************************)
(* The two always_ff blocks hdl-cat-verilog emits for an array of state,   *)
(* as what a clock edge with rst low makes of the array a: a function from *)
(* 0..depth-1.  Assignments are nonblocking: the old values are read.      *)
(***************************************************************************)
EXTENDS Integers

\* Blocking assignments in the order of the lines: the element just fed
\* would fall through the whole array.
FallThrough(a, d) == [i \in DOMAIN a |-> d]

\* arr[0] <= in; arr[i] <= arr[i-1]
Shifted(a, d) == [i \in DOMAIN a |-> IF i = 0 THEN d ELSE a[i - 1]]

\* The number of significant bits of v.
Bits(v) ==
  LET bits[k \in 0..v] == IF k = 0 THEN 0 ELSE bits[k \div 2] + 1
  IN  bits[v]

\* ptr_width: the bits of the largest index, and at least one.
PtrWidth(depth) == IF depth <= 1 THEN 1 ELSE Bits(depth - 1)

\* The number of values a pointer register can hold.
PtrSpan(depth) == 2^PtrWidth(depth)

\* A pointer as wide as an integer.
AdvanceUntruncated(p, depth) == p + 1

\* A pointer that wraps only where its register overflows.
AdvanceUnbounded(p, depth) == (p + 1) % PtrSpan(depth)

\* ptr <= (ptr == last) ? 0 : ptr + 1, in the register's width.
Advance(p, depth) == IF p = depth - 1 THEN 0 ELSE (p + 1) % PtrSpan(depth)

\* A write that lands on the element after the pointer.
WriteAhead(a, p, d) == [i \in DOMAIN a |-> IF i = p + 1 THEN d ELSE a[i]]

\* arr[ptr] <= in; a write past the end of the array is lost.
Write(a, p, d) == [i \in DOMAIN a |-> IF i = p THEN d ELSE a[i]]
=============================================================================
