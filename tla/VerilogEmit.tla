---------------------------- MODULE VerilogEmit ----------------------------
(***************************************************************************)
(* hdl-cat-verilog/src/emitter.rs: the module emitted for a graph and for  *)
(* a synchronous machine, as an abstract syntax tree.  Identifiers are     *)
(* wires: w<k> is the wire itself, w<k>_ptr belongs to the array of wire k *)
(* and needs no name of its own.  The ports clk and rst are left out, they *)
(* are the same in every module.                                           *)
(***************************************************************************)
EXTENDS SyncMachine

\* Arrays deeper than this become circular buffers; 32 in the code.
CONSTANT CircBufThreshold

ASSUME CircBufThresholdAssumption == CircBufThreshold \in Nat

---------------------------------------------------------------------------
(* Expr.  The operands of an emitted expression are wires.                 *)

Wire(w) == [e |-> "Wire", w |-> w]
Literal(n, v) == [e |-> "Literal", width |-> n, value |-> v]
NotExpr(a) == [e |-> "Not", a |-> a]
Binary(bin, a, b) == [e |-> "Binary", bin |-> bin, a |-> a, b |-> b]
MuxExpr(s, f, t) == [e |-> "Mux", s |-> s, f |-> f, t |-> t]
\* Verilog writes the high part first, Op::Concat lists the low part first.
ConcatLowFirst(high, low) == [e |-> "Concat", high |-> low, low |-> high]
ConcatExpr(high, low) == [e |-> "Concat", high |-> high, low |-> low]
\* The range is rendered as [hi - 1 : lo], hi saturating at 1.
SliceExpr(a, lo, hi) == [e |-> "Slice", a |-> a, lo |-> lo, hi |-> hi]
\* The oldest element: array[depth - 1], or array[ptr] of a circular buffer.
ArrayIndex(w) == [e |-> "ArrayIndex", w |-> w]

\* op_to_expr.  The array operations come out as their first operand.
OpExpr(g, op, ins) ==
  CASE op.op = "Not"    -> NotExpr(ins[1])
    [] op.op = "Bin"    -> Binary(op.bin, ins[1], ins[2])
    [] op.op = "Mux"    -> MuxExpr(ins[1], ins[2], ins[3])
    [] op.op = "Const"  -> Literal(Width(op.ty), ToNat(op.bits))
    [] op.op = "Concat" -> ConcatExpr(ins[2], ins[1])
    [] op.op = "Slice"  -> LET n == WireWidth(g, ins[1])
                           IN  IF n <= 1 /\ op.lo = 0 /\ op.hi = n THEN Wire(ins[1])
                               ELSE SliceExpr(ins[1], op.lo, op.hi)
    [] op.op \in {"Reg", "ArrayShiftIn", "ArrayTail"} -> Wire(ins[1])

---------------------------------------------------------------------------
(* Module: ports in order, and for each other kind of declaration and      *)
(* statement a function, from the instruction, state wire or array it is   *)
(* emitted for.  An identifier may well be declared or driven twice.       *)

Port(w, dir) == [w |-> w, dir |-> dir]

Assign(w, rhs) == [lhs |-> w, rhs |-> rhs]

\* instruction_to_stmt
InstructionStmt(g, instr) == Assign(instr.out, OpExpr(g, instr.op, instr.ins))

\* An output port that is a state wire is the register itself.
PortList(ins, outs, state) ==
  [k \in DOMAIN ins |-> Port(ins[k], "Input")]
    \o [k \in DOMAIN outs |-> Port(outs[k], IF outs[k] \in state THEN "OutputReg" ELSE "Output")]

\* build_module: the combinational view of a graph.
BuildModule(g, ins, outs) ==
  [ports |-> PortList(ins, outs, {}), regs |-> <<>>, arrays |-> <<>>,
   nets |-> Wires(g) \ (ToSet(ins) \cup ToSet(outs)),
   assigns |-> [e \in DOMAIN g.instrs |-> InstructionStmt(g, g.instrs[e])], ffs |-> <<>>]

\* The first instruction that shifts something into the i-th next state wire.
ShiftsInto(m, i) ==
  {e \in DOMAIN m.graph.instrs :
     /\ m.graph.instrs[e].out = NextState(m)[i]
     /\ m.graph.instrs[e].op.op = "ArrayShiftIn"}

IsDetected(m, i) ==
  /\ StateIn(m)[i] \in Wires(m.graph)
  /\ IsArray(m.graph.wires[StateIn(m)[i]])
  /\ ShiftsInto(m, i) # {}

\* An array fed with the first operand of its shift, the array itself.
ArrayFedByItself(m, i, chunk) ==
  LET w == StateIn(m)[i]
      ty == m.graph.wires[w]
  IN  [w |-> w, width |-> ty.element_width, depth |-> ty.depth,
       input |-> m.graph.instrs[Min(ShiftsInto(m, i))].ins[1],
       reset |-> ToNat(chunk), circular |-> ty.depth > CircBufThreshold]

ArrayOf(m, i, chunk) ==
  LET w == StateIn(m)[i]
      ty == m.graph.wires[w]
  IN  [w |-> w, width |-> ty.element_width, depth |-> ty.depth,
       input |-> m.graph.instrs[Min(ShiftsInto(m, i))].ins[2],
       reset |-> ToNat(chunk), circular |-> ty.depth > CircBufThreshold]

Detected(m) == {i \in 1..m.sc : IsDetected(m, i)}

\* detect_arrays
DetectArrays(m, chunks) == [i \in Detected(m) |-> ArrayOf(m, i, chunks[i])]

\* Tails looked up by the wire they drive.
ReadsTailByOutput(m, instr) ==
  instr.op.op = "ArrayTail" /\ \E i \in Detected(m) : StateIn(m)[i] = instr.out

\* emit_array_stmts: the tails of detected arrays are read off the array.
ReadsTail(m, instr) ==
  instr.op.op = "ArrayTail" /\ \E i \in Detected(m) : StateIn(m)[i] = instr.ins[1]

TailStmt(instr) == Assign(instr.out, ArrayIndex(instr.ins[1]))

\* One always_ff per state wire that is not in an array.
ScalarBlocks(m, chunks, grouped) ==
  [i \in (1..m.sc) \ grouped |->
     [w |-> StateIn(m)[i], reset |-> ToNat(chunks[i]), next |-> NextState(m)[i]]]

\* The registers that are no port.
RegDecls(m, grouped) ==
  [i \in {j \in (1..m.sc) \ grouped : StateIn(m)[j] \notin ToSet(DataOut(m))} |-> StateIn(m)[i]]

\* The wires that are neither state nor port nor left out.
NetDecls(m, left) == Wires(m.graph) \ (ToSet(m.inputs) \cup ToSet(DataOut(m)) \cup left)

\* The next states of detected arrays are neither declared nor assigned.
Suppressed(m) == {NextState(m)[i] : i \in Detected(m)}

\* The instructions that are emitted, an array's tails among them.
Emitted(m) ==
  LET instrs == m.graph.instrs
      tails  == {e \in DOMAIN instrs : ReadsTail(m, instrs[e])}
      driven == {instrs[e].out : e \in tails}
  IN  tails \cup {e \in DOMAIN instrs : instrs[e].out \notin Suppressed(m) \cup driven}

\* build_sync_module
BuildSyncModule(m) ==
  LET g      == m.graph
      chunks == Chunks(m.init, Widths(g, StateIn(m)))
      Stmt(instr) == IF ReadsTail(m, instr) THEN TailStmt(instr) ELSE InstructionStmt(g, instr)
  IN  When(Len(m.init) = Total(Widths(g, StateIn(m))),
           [ports   |-> PortList(DataIn(m), DataOut(m), ToSet(StateIn(m))),
            regs    |-> RegDecls(m, Detected(m)),
            arrays  |-> DetectArrays(m, chunks),
            nets    |-> NetDecls(m, Suppressed(m)),
            assigns |-> [e \in Emitted(m) |-> Stmt(g.instrs[e])],
            ffs     |-> ScalarBlocks(m, chunks, Detected(m))])

---------------------------------------------------------------------------
(* Arrays the caller names: StateArraySpec.  The state wires from number   *)
(* start on, depth of them, are one array; its name is a number no wire    *)
(* has.                                                                    *)

StateArraySpec(name, start, depth, width, input, reset, circular) ==
  [name |-> name, start |-> start, depth |-> depth, width |-> width,
   input |-> input, reset |-> reset, circular |-> circular]

Members(spec) == spec.start .. spec.start + spec.depth - 1

\* Next states the members shift from one another; what comes in is no such.
ShiftedNexts(m, specs) ==
  {NextState(m)[i] : i \in UNION {Members(specs[k]) \ {specs[k].start} : k \in DOMAIN specs}}

\* Declarations and blocks of the arrays.  An array is fed with input_next_wire
\* and reset to reset_bits, whatever the graph and the initial state say of its
\* members.
GroupArrays(specs) ==
  [k \in DOMAIN specs |->
     [w |-> specs[k].name, width |-> specs[k].width, depth |-> specs[k].depth,
      input |-> specs[k].input, reset |-> ToNat(specs[k].reset), circular |-> specs[k].circular]]

\* The oldest element drives the wire of the last member; nothing drives the
\* others, and nothing declares any of them.
TailMember(m, spec) == StateIn(m)[spec.start + spec.depth - 1]

GroupTail(m, spec) == Assign(TailMember(m, spec), ArrayIndex(spec.name))

Grouped(specs) == UNION {Members(specs[k]) : k \in DOMAIN specs}

\* build_sync_module_with_arrays.  The tails come after the instructions.
BuildSyncModuleWithArrays(m, specs) ==
  LET g       == m.graph
      chunks  == Chunks(m.init, Widths(g, StateIn(m)))
      shifted == ShiftedNexts(m, specs)
      kept    == {e \in DOMAIN g.instrs : g.instrs[e].out \notin shifted}
      n       == Len(g.instrs)
  IN  When(Len(m.init) = Total(Widths(g, StateIn(m))),
           [ports   |-> PortList(DataIn(m), DataOut(m), ToSet(StateIn(m))),
            regs    |-> RegDecls(m, Grouped(specs)),
            arrays  |-> GroupArrays(specs),
            nets    |-> NetDecls(m, shifted),
            assigns |-> [e \in kept \cup {n + k : k \in DOMAIN specs} |->
                           IF e \in kept THEN InstructionStmt(g, g.instrs[e])
                           ELSE GroupTail(m, specs[e - n])],
            ffs     |-> ScalarBlocks(m, chunks, Grouped(specs))])
=============================================================================
