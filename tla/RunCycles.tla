----------------------------- MODULE RunCycles -----------------------------
(***************************************************************************)
(* hdl-cat-sim/src/testbench.rs: how run_cycles cuts the flat state and an *)
(* input into wires, executes one cycle and glues the outputs together.    *)
(***************************************************************************)
EXTENDS SyncMachine

\* The width of one element of the input vector, by element widths.
InputWidths(m) == Widths(m.graph, DataIn(m))

\* A compact initial state holds one element per array.
CompactWidths(m) == Widths(m.graph, StateIn(m))

\* Arrays are stored, and threaded from cycle to cycle, at full depth.
StateWidths(m) == StorageWidths(m.graph, StateIn(m))

\* Expanding nothing: what a scalar-only simulator would do.
ExpandNothing(m, values) == values

\* expand_state_for_interpreter: an array's element is repeated depth times.
Expand(m, values) ==
  LET ty(k) == m.graph.wires[StateIn(m)[k]]
  IN  [k \in DOMAIN values |->
         IF StateIn(m)[k] \in Wires(m.graph) /\ IsArray(ty(k))
         THEN Replicate(values[k], ty(k).depth)
         ELSE values[k]]

SplitByWidths(bits, widths) ==
  When(Len(bits) = Total(widths), Chunks(bits, widths))

\* The state the fold starts from, or the error of a misfit initial state.
InitialBits(m) ==
  LET compact == SplitByWidths(m.init, CompactWidths(m))
  IN  IF compact.err # "none" THEN compact
      ELSE Ok(FlattenSeq(Expand(m, compact.val)))

\* One iteration: split, interpret, read every output, glue.  The first
\* error, in that order, is the outcome.
RunCycle(m, bits, input) ==
  LET state == SplitByWidths(bits, StateWidths(m))
      data  == SplitByWidths(input, InputWidths(m))
      r     == Interpret(m.graph, m.inputs, state.val \o data.val)
      out   == ReadAll(r.val, m.outputs)
  IN  IF state.err # "none" THEN state
      ELSE IF data.err # "none" THEN data
      ELSE IF r.err # "none" THEN r
      ELSE IF out.err # "none" THEN out
      ELSE Ok([next   |-> FlattenSeq(SubSeq(out.val, 1, m.sc)),
               sample |-> FlattenSeq(SubSeq(out.val, m.sc + 1, Len(out.val)))])

---------------------------------------------------------------------------
(* What a machine has to be for run_cycles to run it on every input that   *)
(* fits.  Neither the builder, nor from_raw, nor a composition checks it:  *)
(* a misfit shows as an error of some cycle, if it shows.                  *)

TypeFits(ty) == Width(ty) \in Nat /\ (IsArray(ty) => ty.depth \in Nat)

\* The operation accepts operands of widths s and returns a value of width w.
OpFits(op, s, w) ==
  /\ Accepts(op, s)
  /\ \/ op.op \in {"Not", "Reg"} /\ s[1] = w
     \/ op.op = "Bin" /\ s[1] = s[2] /\ op.bin \in {"And", "Or", "Xor", "Add", "Sub", "Mul"} /\ s[1] = w
     \/ op.op = "Bin" /\ s[1] = s[2] /\ op.bin \in {"Eq", "Lt"} /\ w = 1
     \/ op.op = "Mux" /\ s[2] = w /\ s[3] = w
     \/ op.op = "Const" /\ op.bits \in BitSeq(w)
     \/ op.op = "Concat" /\ s[1] = op.low_width /\ s[2] = op.high_width /\ w = s[1] + s[2]
     \/ op.op = "Slice" /\ op.lo \in 0..op.hi /\ op.hi \in 0..s[1] /\ w = op.hi - op.lo
     \/ /\ op.op \in {"ArrayShiftIn", "ArrayTail"}
        /\ op.element_width \in Nat /\ op.depth \in Nat \ {0}
        /\ s[1] = op.element_width * op.depth
        /\ IF op.op = "ArrayTail" THEN w = op.element_width
           ELSE s[2] = op.element_width /\ w = s[1]

\* A netlist whose instructions read what is known and fit their wires.
GraphFits(a) ==
  LET g == a.graph
  IN  /\ Shaped(a) /\ ReadsInOrder(a)
      /\ \A w \in Wires(g) : TypeFits(g.wires[w])
      /\ \A i \in DOMAIN g.instrs :
           OpFits(g.instrs[i].op, StorageWidths(g, g.instrs[i].ins), WireStorage(g, g.instrs[i].out))

WellFormed(m) ==
  LET g == m.graph
  IN  /\ GraphFits(m)
      /\ m.sc \in 0..Len(m.inputs) /\ m.sc <= Len(m.outputs)
      /\ m.init \in BitSeq(Total(CompactWidths(m)))
      /\ StorageWidths(g, NextState(m)) = StateWidths(m)
      /\ StorageWidths(g, DataIn(m)) = InputWidths(m)
=============================================================================
