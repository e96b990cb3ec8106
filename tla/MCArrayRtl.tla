----------------------------- MODULE MCArrayRtl ----------------------------
(***************************************************************************)
(* Both strategies at once, on the same clock, reset and input, over a     *)
(* small depth.  What a machine's array is emitted as depends only on its  *)
(* depth (CIRC_BUF_THRESHOLD), so the two must not be told apart.          *)
(***************************************************************************)
EXTENDS CircBuf

VARIABLE regs   \* the array of the shift register strategy

Shallow == INSTANCE ShiftReg WITH arr <- regs

BothInit == Init /\ Shallow!Init

BothReset == Reset /\ Shallow!Reset

BothShift(d) == Shift(d) /\ Shallow!Shift(d)

BothNext == BothReset \/ \E d \in Data : BothShift(d)

BothSpec == BothInit /\ [][BothNext]_<<vars, regs>>

\* Once reset, the two strategies give the same output at every edge:
\* crossing the depth threshold does not change a design (emitter.rs:232,
\* 657-661).
SameTail == armed => Oldest = Shallow!Oldest

\* The shift register of the same depth is a delay line too.
ShallowImplementsDelayLine == Shallow!ImplementsDelayLine

\* The pointer of every depth up to 1025 is wide enough for its last index
\* and no wider than needed.
ASSUME PtrWidthTight ==
  \A d \in 1..1025 : d <= 2^PtrWidth(d) /\ (d > 2 => 2^(PtrWidth(d) - 1) < d)
=============================================================================
