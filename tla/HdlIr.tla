------------------------------- MODULE HdlIr -------------------------------
(***************************************************************************)
(* hdl-cat-ir: wire types, primitive operations, instructions, graphs and  *)
(* the graph builder.  A wire is the 1-based position of its type in       *)
(* graph.wires, so WireId k of the code is k + 1 here.  The builder is its *)
(* graph under construction: build() only renames it.                      *)
(***************************************************************************)
EXTENDS BitSeqs

---------------------------------------------------------------------------
(* WireTy *)

BitTy == [kind |-> "Bit"]
BitsTy(n) == [kind |-> "Bits", width |-> n]
SignedTy(n) == [kind |-> "Signed", width |-> n]
ArrayTy(ew, d) == [kind |-> "Array", element_width |-> ew, depth |-> d]

IsArray(ty) == ty.kind = "Array"

\* WireTy::width is per element: an array's depth does not count.
Width(ty) ==
  CASE ty.kind = "Bit"   -> 1
    [] ty.kind = "Array" -> ty.element_width
    [] OTHER             -> ty.width

StorageBits(ty) ==
  IF IsArray(ty) THEN ty.element_width * ty.depth ELSE Width(ty)

---------------------------------------------------------------------------
(* Op *)

NotOp == [op |-> "Not"]
BinOp(b) == [op |-> "Bin", bin |-> b]
MuxOp == [op |-> "Mux"]
ConstOp(bits, ty) == [op |-> "Const", bits |-> bits, ty |-> ty]
RegOp(init, ty) == [op |-> "Reg", init |-> init, ty |-> ty]
ConcatOp(lw, hw) == [op |-> "Concat", low_width |-> lw, high_width |-> hw]
SliceOp(l, h) == [op |-> "Slice", lo |-> l, hi |-> h]
ShiftInOp(ew, d) == [op |-> "ArrayShiftIn", element_width |-> ew, depth |-> d]
TailOp(ew, d) == [op |-> "ArrayTail", element_width |-> ew, depth |-> d]

Arity(op) ==
  CASE op.op \in {"Not", "Reg", "Slice", "ArrayTail"}   -> 1
    [] op.op \in {"Bin", "Concat", "ArrayShiftIn"}      -> 2
    [] op.op = "Mux"                                    -> 3
    [] op.op = "Const"                                  -> 0

---------------------------------------------------------------------------
(* HdlGraph and HdlGraphBuilder *)

EmptyGraph == [wires |-> <<>>, instrs |-> <<>>]

WireCount(g) == Len(g.wires)

Wires(g) == 1..WireCount(g)

\* with_wire appends the type; the new wire's id is WireCount of the result.
WithWire(g, ty) == [g EXCEPT !.wires = Append(@, ty)]

WithWires(g, tys) == [g EXCEPT !.wires = @ \o tys]

Instr(op, ins, out) == [op |-> op, ins |-> ins, out |-> out]

\* The only check with_instruction makes: it looks neither at the range or
\* width of the wires, nor at who else drives the output.
Accepts(op, ins) == Len(ins) = Arity(op)

WithInstruction(g, op, ins, out) ==
  [g EXCEPT !.instrs = Append(@, Instr(op, ins, out))]

\* Instructions applied in order, for graphs built by straight-line code.
WithInstructions(g, is) == [g EXCEPT !.instrs = @ \o is]

---------------------------------------------------------------------------
(* HdlGraph as a directed graph: one vertex per wire, one edge per         *)
(* instruction, from its primary source to its output.                     *)

PrimarySource(instr) == IF instr.ins = <<>> THEN instr.out ELSE instr.ins[1]

Edges(g) == {<<PrimarySource(g.instrs[e]), g.instrs[e].out>> : e \in DOMAIN g.instrs}
=============================================================================
