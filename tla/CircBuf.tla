------------------------------ MODULE CircBuf ------------------------------
(***************************************************************************)
(* ArrayStrategy::CircularBuffer of hdl-cat-verilog as the emitted text    *)
(* behaves: an edge overwrites the oldest element at the write pointer and *)
(* moves the pointer on; the tail is read at the pointer, before the       *)
(* write.  The pointer is a register of ptr_width bits.  Neither array nor *)
(* pointer has a value before the first edge with rst high, so the pointer *)
(* may then be past the end of the array.                                  *)
(***************************************************************************)
EXTENDS ArrayReg, ArrayBlocks

VARIABLE ptr   \* the write pointer

vars == <<arr, ptr, armed, fed>>

\* Every index fits the pointer: arithmetic the provers cannot derive from
\* PtrWidth, which takes an induction.
ASSUME PtrSpanAssumption == PtrSpan(Depth) \in Nat /\ Depth <= PtrSpan(Depth)

Init ==
  /\ PowerOn
  /\ ptr \in 0..(PtrSpan(Depth) - 1)

\* An edge with rst high that forgets the pointer.
ResetArrayOnly ==
  /\ ResetArray
  /\ UNCHANGED ptr

\* An edge with rst high.
Reset ==
  /\ ResetArray
  /\ ptr' = 0

Shift(d) ==
  /\ arr' = Write(arr, ptr, d)
  /\ ptr' = Advance(ptr, Depth)
  /\ Feed(d)

Next == Reset \/ \E d \in Data : Shift(d)

Spec == Init /\ [][Next]_vars

\* assign tail = arr[ptr]; past the end it is unknown, and stands for any
\* element, of which this is one.
Oldest == IF ptr \in Index THEN arr[ptr] ELSE Initial

Line == INSTANCE DelayLine WITH tail <- Oldest

---------------------------------------------------------------------------
(* Properties *)

TypeOK ==
  /\ arr \in [Index -> Data]
  /\ ptr \in 0..(PtrSpan(Depth) - 1)
  /\ armed \in BOOLEAN
  /\ fed \in Seq(Data)

\* After a reset the pointer never leaves the array: no write is lost and the
\* tail is never unknown, also when the depth is no power of two.
PtrInArray == armed => ptr \in Index

\* Where tap i is: going back from the pointer, around the end of the array.
Slot(p, i) == IF i < p THEN p - 1 - i ELSE p - 1 - i + Depth

\* After a reset, going back from the pointer finds the inputs, latest first.
TapsInOrder == armed => \A i \in Index : arr[Slot(ptr, i)] = Tap(i)

\* The circular buffer is a delay line of its depth, like the shift register
\* that a shallower array is emitted as.
ImplementsDelayLine == Line!Spec
=============================================================================
