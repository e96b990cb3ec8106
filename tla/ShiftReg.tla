------------------------------ MODULE ShiftReg -----------------------------
(***************************************************************************)
(* ArrayStrategy::ShiftRegister of hdl-cat-verilog as the emitted text     *)
(* behaves: one always_ff block in which every element takes its           *)
(* predecessor's value, and a tail read from the last element.             *)
(***************************************************************************)
EXTENDS ArrayReg, ArrayBlocks

vars == <<arr, armed, fed>>

Init == PowerOn

Reset == ResetArray

Shift(d) ==
  /\ arr' = Shifted(arr, d)
  /\ Feed(d)

Next == Reset \/ \E d \in Data : Shift(d)

Spec == Init /\ [][Next]_vars

\* assign tail = arr[depth-1]
Oldest == arr[Depth - 1]

Line == INSTANCE DelayLine WITH tail <- Oldest

---------------------------------------------------------------------------
(* Properties *)

TypeOK ==
  /\ arr \in [Index -> Data]
  /\ armed \in BOOLEAN
  /\ fed \in Seq(Data)

\* After a reset each element holds the input of as many edges ago.
TapsInOrder == armed => \A i \in Index : arr[i] = Tap(i)

\* The shift register is a delay line of its depth.
ImplementsDelayLine == Line!Spec
=============================================================================
