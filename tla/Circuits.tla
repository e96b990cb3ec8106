------------------------------ MODULE Circuits -----------------------------
(***************************************************************************)
(* hdl-cat-circuit: circuit arrows and the operations of the category of   *)
(* circuits.  An arrow is a graph with two lists of its wires, the inputs  *)
(* and the outputs; an object is the list of its wire types.               *)
(***************************************************************************)
EXTENDS Interp

---------------------------------------------------------------------------
(* The Rust types one wire can carry, as the TypeDesc of hdl-cat-kind, and *)
(* the wire that Scalar (object.rs) gives to each.                         *)

BoolT == [desc |-> "Bool"]
BitsT(n) == [desc |-> "Bits", n |-> n]
SignedT(n) == [desc |-> "Signed", n |-> n]

IsScalar(t) == t.desc \in {"Bool", "Bits", "Signed"}

WireTyOf(t) ==
  CASE t.desc = "Bool"   -> BitTy
    [] t.desc = "Bits"   -> BitsTy(t.n)
    [] t.desc = "Signed" -> SignedTy(t.n)

---------------------------------------------------------------------------

Arrow(g, ins, outs) == [graph |-> g, inputs |-> ins, outputs |-> outs]

ShiftWires(ws, offset) == [k \in DOMAIN ws |-> ws[k] + offset]

\* A wire of g in the merged graph: g's wires follow f's, except that g's
\* inputs are replaced by the wires of f they are plugged into.  The zip
\* stops at the shorter list, and the first occurrence of a wire wins.
Plug(from, to, offset, w) ==
  LET n == IF Len(from) < Len(to) THEN Len(from) ELSE Len(to)
      at == {k \in 1..n : from[k] = w}
  IN  IF at = {} THEN w + offset ELSE to[Min(at)]

PlugAll(from, to, offset, ws) == [k \in DOMAIN ws |-> Plug(from, to, offset, ws[k])]

\* A merge that puts g's instructions before f's.
MergeGraphsBackwards(f, g, from, to) ==
  LET offset == WireCount(f)
      renamed(instr) == Instr(instr.op, PlugAll(from, to, offset, instr.ins),
                              Plug(from, to, offset, instr.out))
  IN  [wires  |-> f.wires \o g.wires,
       instrs |-> [i \in DOMAIN g.instrs |-> renamed(g.instrs[i])] \o f.instrs]

\* Both graphs' wires and instructions, g's renamed: its wires from are
\* replaced by to, all others shifted.  Copying an instruction cannot fail:
\* it passed the same arity check before.
MergeGraphs(f, g, from, to) ==
  LET offset == WireCount(f)
      renamed(instr) == Instr(instr.op, PlugAll(from, to, offset, instr.ins),
                              Plug(from, to, offset, instr.out))
  IN  [wires  |-> f.wires \o g.wires,
       instrs |-> f.instrs \o [i \in DOMAIN g.instrs |-> renamed(g.instrs[i])]]

\* A composition that renames g's instructions but not the outputs it lists.
ComposeKeepingOutputs(f, g) ==
  Arrow(MergeGraphs(f.graph, g.graph, g.inputs, f.outputs),
        f.inputs,
        ShiftWires(g.outputs, WireCount(f.graph)))

\* compose_arrows: f then g.
Compose(f, g) ==
  Arrow(MergeGraphs(f.graph, g.graph, g.inputs, f.outputs),
        f.inputs,
        PlugAll(g.inputs, f.outputs, WireCount(f.graph), g.outputs))

\* A tensor that forgets to move g's inputs past f's wires.
TensorUnshifted(f, g) ==
  Arrow(MergeGraphs(f.graph, g.graph, <<>>, <<>>),
        f.inputs \o g.inputs,
        f.outputs \o ShiftWires(g.outputs, WireCount(f.graph)))

\* tensor_arrows: f beside g.
Tensor(f, g) ==
  LET offset == WireCount(f.graph)
  IN  Arrow(MergeGraphs(f.graph, g.graph, <<>>, <<>>),
            f.inputs \o ShiftWires(g.inputs, offset),
            f.outputs \o ShiftWires(g.outputs, offset))

\* primitive_arrow: one instruction on fresh wires.
Primitive(tys, op, out) ==
  LET n == Len(tys)
      ins == [k \in 1..n |-> k]
  IN  Arrow(WithInstruction(WithWires(EmptyGraph, Append(tys, out)), op, ins, n + 1),
            ins, <<n + 1>>)

\* wired_identity; the wired associator and unitors are the same pass-through.
WiredIdentity(layout) ==
  LET ids == [k \in DOMAIN layout |-> k]
  IN  Arrow(WithWires(EmptyGraph, layout), ids, ids)

\* wired_braid, forward; the backward arrow is the one for (b, a).
WiredBraid(a, b) ==
  LET ids == [k \in 1..(Len(a) + Len(b)) |-> k]
  IN  Arrow(WithWires(EmptyGraph, a \o b), ids,
            SubSeq(ids, Len(a) + 1, Len(ids)) \o SubSeq(ids, 1, Len(a)))

---------------------------------------------------------------------------
(* The gates of gates.rs *)

NotBits(n) == Primitive(<<BitsTy(n)>>, NotOp, BitsTy(n))

BinaryBits(bin, n) == Primitive(<<BitsTy(n), BitsTy(n)>>, BinOp(bin), BitsTy(n))

\* A comparison whose output is declared as wide as its operands.
CompareBitsWide(bin, n) == Primitive(<<BitsTy(n), BitsTy(n)>>, BinOp(bin), BitsTy(n))

CompareBits(bin, n) == Primitive(<<BitsTy(n), BitsTy(n)>>, BinOp(bin), BitTy)

NotBit == Primitive(<<BitTy>>, NotOp, BitTy)

BinaryBit(bin) == Primitive(<<BitTy, BitTy>>, BinOp(bin), BitTy)

---------------------------------------------------------------------------
(* The combinational part of hdl-cat-std *)

BitWires(n) == WithWires(EmptyGraph, [k \in 1..n |-> BitTy])

HalfAdder ==
  Arrow(WithInstructions(BitWires(4),
          <<Instr(BinOp("Xor"), <<1, 2>>, 3), Instr(BinOp("And"), <<1, 2>>, 4)>>),
        <<1, 2>>, <<3, 4>>)

\* Wires: 1 a, 2 b, 3 cin, 4 ab, 5 ab_and, 6 c_and, 7 sum, 8 cout.
FullAdder ==
  Arrow(WithInstructions(BitWires(8),
          <<Instr(BinOp("Xor"), <<1, 2>>, 4), Instr(BinOp("And"), <<1, 2>>, 5),
            Instr(BinOp("And"), <<3, 4>>, 6), Instr(BinOp("Xor"), <<4, 3>>, 7),
            Instr(BinOp("Or"), <<5, 6>>, 8)>>),
        <<1, 2, 3>>, <<7, 8>>)

---------------------------------------------------------------------------
(* What an arrow computes: the values of its outputs for given values of   *)
(* its inputs, read from the environment the interpreter returns.          *)

ReadAll(env, ws) ==
  IF \A k \in DOMAIN ws : ws[k] \in DOMAIN env
  THEN Ok([k \in DOMAIN ws |-> env[ws[k]]])
  ELSE Fail("UndefinedSignal")

Evaluate(arrow, values) ==
  LET r == Interpret(arrow.graph, arrow.inputs, values)
  IN  IF r.err # "none" THEN r ELSE ReadAll(r.val, arrow.outputs)

---------------------------------------------------------------------------
(* What the graph of an arrow has to be for its netlist to make sense.     *)

\* Lists of wires and instructions that name wires of the graph.
Shaped(a) ==
  LET g == a.graph
  IN  /\ g.wires \in Seq(Range(g.wires))
      /\ g.instrs \in Seq(Range(g.instrs))
      /\ a.inputs \in Seq(Wires(g))
      /\ a.outputs \in Seq(Wires(g))
      /\ \A i \in DOMAIN g.instrs :
           g.instrs[i].ins \in Seq(Wires(g)) /\ g.instrs[i].out \in Wires(g)

SingleDriver(a) ==
  LET instrs == a.graph.instrs
  IN  \A i \in DOMAIN instrs :
        /\ instrs[i].out \in Wires(a.graph) \ Range(a.inputs)
        /\ \A j \in DOMAIN instrs : instrs[j].out = instrs[i].out => i = j

\* The wires that have a value before instruction i.
Known(a, i) == Range(a.inputs) \cup {a.graph.instrs[j].out : j \in 1..(i - 1)}

ReadsInOrder(a) ==
  LET instrs == a.graph.instrs
  IN  /\ \A i \in DOMAIN instrs : Range(instrs[i].ins) \subseteq Known(a, i)
      /\ Range(a.outputs) \subseteq Known(a, Len(instrs) + 1)
=============================================================================
