----------------------------- MODULE Testbench -----------------------------
(***************************************************************************)
(* hdl-cat-sim/src/testbench.rs, run_cycles: a machine driven over a       *)
(* vector of inputs.  The vector is chosen element by element as the fold  *)
(* reaches it, which is the same as choosing it beforehand.  Between two   *)
(* cycles the state is one flat bit sequence at full storage width.        *)
(***************************************************************************)
EXTENDS RunCycles

CONSTANTS
  Machines,      \* names of the machines that are run
  MachineOf(_),  \* the machine of a name
  MaxCycles,     \* bound: length of the input vector
  Misfits        \* elements of the vector that no machine's inputs fit

ASSUME MaxCyclesAssumption == MaxCycles \in Nat

ASSUME MisfitsAssumption == Misfits \subseteq Seq(Bit)

VARIABLES
  machine,     \* the name of the machine
  stateBits,   \* the fold's state accumulator
  samples,     \* the fold's sample accumulator
  status       \* "new", "running", "done" or the error returned

vars == <<machine, stateBits, samples, status>>

M == MachineOf(machine)

---------------------------------------------------------------------------

Init ==
  /\ machine \in Machines
  /\ stateBits = <<>>
  /\ samples = <<>>
  /\ status = "new"

\* Nothing runs before the Io is; then the initial state is checked first.
Begin ==
  /\ status = "new"
  /\ LET r == InitialBits(M)
     IN  /\ stateBits' = r.val
         /\ status' = IF r.err = "none" THEN "running" ELSE r.err
  /\ UNCHANGED <<machine, samples>>

Cycle(input) ==
  /\ status = "running"
  /\ Len(samples) < MaxCycles
  /\ LET r == RunCycle(M, stateBits, input)
     IN  IF r.err = "none"
         THEN /\ stateBits' = r.val.next
              /\ samples' = Append(samples, [cycle |-> Len(samples), value |-> r.val.sample])
              /\ UNCHANGED status
         ELSE /\ status' = r.err
              /\ UNCHANGED <<stateBits, samples>>
  /\ UNCHANGED machine

\* The vector is exhausted and the samples are returned.
End ==
  /\ status = "running"
  /\ status' = "done"
  /\ UNCHANGED <<machine, stateBits, samples>>

Elements == BitSeq(Total(InputWidths(M))) \cup Misfits

Next ==
  \/ Begin
  \/ \E input \in Elements : Cycle(input)
  \/ End

Spec == Init /\ [][Next]_vars

---------------------------------------------------------------------------
(* Properties *)

\* Whatever machines are composed of, in series, in parallel or fed back, what
\* comes out hangs together: every operation's operands and result have the
\* widths it wants, no wire is read before it is driven and the next state has
\* the type of the state.  from_arrow checks the number of wires and the length
\* of the initial state (machine.rs:124-158), the rest is left to the renaming
\* of wires in compose.rs (30-241).
MachineFits == WellFormed(M)

\* Between two cycles the state has exactly the bits of the machine's state
\* wires at full array depth, so that the next split finds each wire in its
\* place (testbench.rs:62-65, 82-90).
StateAtStorageWidth == status = "running" => Len(stateBits) = Total(StateWidths(M))

\* In every state the testbench can reach, each input that fits the machine's
\* data wires is executed: no composition leaves a wire undriven and no width
\* drifts from cycle to cycle.
FittingInputsRun ==
  status = "running" =>
    \A input \in BitSeq(Total(InputWidths(M))) : RunCycle(M, stateBits, input).err = "none"
=============================================================================
