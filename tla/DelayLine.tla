----------------------------- MODULE DelayLine -----------------------------
(***************************************************************************)
(* What an emitted array of state promises, whatever its strategy: once it *)
(* has been reset, its output is the element it was fed Depth clock edges  *)
(* ago, or the reset value while fewer have passed.  Before the first      *)
(* reset it promises nothing.                                              *)
(***************************************************************************)
EXTENDS Integers, Sequences

CONSTANTS
  Data,      \* elements
  Depth,     \* elements of the array
  Initial,   \* the reset value of every element
  MaxEdges   \* bound: edges between two resets

VARIABLES
  armed,   \* has there been a reset
  fed,     \* what was fed since the last reset, oldest first
  tail     \* the output, read combinationally

vars == <<armed, fed, tail>>

\* What tap i holds after the edges of f: tap 0 the latest element.
Tap(f, i) == IF i < Len(f) THEN f[Len(f) - i] ELSE Initial

Delayed(f) == Tap(f, Depth - 1)

Init ==
  /\ armed = FALSE
  /\ fed = <<>>
  /\ tail \in Data

Reset ==
  /\ armed' = TRUE
  /\ fed' = <<>>
  /\ tail' = Initial

Shift(d) ==
  /\ Len(fed) < MaxEdges
  /\ fed' = Append(fed, d)
  /\ tail' \in IF armed THEN {Delayed(fed')} ELSE Data
  /\ UNCHANGED armed

Next == Reset \/ \E d \in Data : Shift(d)

Spec == Init /\ [][Next]_vars
=============================================================================
