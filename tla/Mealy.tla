------------------------------- MODULE Mealy -------------------------------
(***************************************************************************)
(* What running a synchronous machine promises: a state that every cycle   *)
(* replaces by a function of the state and of the cycle's input, and one   *)
(* timestamped observation per cycle.  Nothing here knows of wires, of bit *)
(* sequences or of how a machine was assembled.                            *)
(***************************************************************************)
EXTENDS Naturals, Sequences

CONSTANTS
  Machines,        \* names of machines
  Inputs(_),       \* the inputs of a machine
  Start(_),        \* its initial state
  Delta(_, _, _),  \* its next state, of machine, state and input
  Lambda(_, _, _)  \* its observation, of machine, state and input

VARIABLES machine, state, observed

vars == <<machine, state, observed>>

Init ==
  /\ machine \in Machines
  /\ state = Start(machine)
  /\ observed = <<>>

Cycle(i) ==
  /\ state' = Delta(machine, state, i)
  /\ observed' = Append(observed,
                        [cycle |-> Len(observed), value |-> Lambda(machine, state, i)])
  /\ UNCHANGED machine

Next == \E i \in Inputs(machine) : Cycle(i)

Spec == Init /\ [][Next]_vars
=============================================================================
