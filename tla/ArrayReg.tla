------------------------------ MODULE ArrayReg -----------------------------
(***************************************************************************)
(* What the two strategies of hdl-cat-verilog for an array of state share: *)
(* the register array that is declared, and how a clock edge with rst high *)
(* treats it.  Registers have no initial value: before the first such edge *)
(* they hold anything.                                                     *)
(***************************************************************************)
EXTENDS Integers, Sequences

CONSTANTS
  Data,      \* elements
  Depth,     \* elements of the array
  Initial,   \* the reset value of every element
  MaxEdges   \* bound: edges between two resets

ASSUME DepthAssumption == Depth \in Nat \ {0}

ASSUME InitialAssumption == Initial \in Data

ASSUME MaxEdgesAssumption == MaxEdges \in Nat

VARIABLES
  arr,    \* the register array
  armed,  \* history: has there been a reset
  fed     \* history: what was fed since the last reset, oldest first

\* reg arr [0:depth-1]
Index == 0..(Depth - 1)

PowerOn ==
  /\ arr \in [Index -> Data]
  /\ armed = FALSE
  /\ fed = <<>>

\* The for loop of the reset branch.
ResetArray ==
  /\ arr' = [i \in Index |-> Initial]
  /\ armed' = TRUE
  /\ fed' = <<>>

\* What the history keeps of an edge with rst low.
Feed(d) ==
  /\ Len(fed) < MaxEdges
  /\ fed' = Append(fed, d)
  /\ UNCHANGED armed

\* Tap i of a delay line: the input of i + 1 edges ago.
Tap(i) == IF i < Len(fed) THEN fed[Len(fed) - i] ELSE Initial
=============================================================================
