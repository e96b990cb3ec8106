--------------------------- MODULE Testbench_proofs --------------------------
(***************************************************************************)
(* A well-formed machine runs: from a state and an input of its widths,    *)
(* every operation finds its operands, every value has the width of its    *)
(* wire, and the next state has the width of the state.  On it rest the    *)
(* invariants of the testbench, and those of the tracer beside it.         *)
(***************************************************************************)
EXTENDS VcdTrace, Interp_proofs

---------------------------------------------------------------------------
(* Widths *)

LEMMA TypeWidths ==
  ASSUME NEW ty, TypeFits(ty)
  PROVE  Width(ty) \in Nat /\ StorageBits(ty) \in Nat
  <1>1. Width(ty) \in Nat
    BY DEF TypeFits
  <1>2. CASE IsArray(ty)
    <2>1. Width(ty) = ty.element_width
      BY <1>2 DEF IsArray, Width
    <2>2. ty.depth \in Nat
      BY <1>2 DEF TypeFits
    <2> QED BY <1>1, <1>2, <2>1, <2>2 DEF StorageBits
  <1>3. CASE ~IsArray(ty)
    BY <1>1, <1>3 DEF StorageBits
  <1> QED BY <1>1, <1>2, <1>3

LEMMA WireWidths ==
  ASSUME NEW g, \A w \in Wires(g) : TypeFits(g.wires[w]), NEW w
  PROVE  WireWidth(g, w) \in Nat /\ WireStorage(g, w) \in Nat
  BY TypeWidths DEF WireWidth, WireStorage

\* One width for each wire of a list.
HaveWidths(g, ws) ==
  /\ Widths(g, ws) \in Seq(Nat) /\ Len(Widths(g, ws)) = Len(ws)
  /\ StorageWidths(g, ws) \in Seq(Nat) /\ Len(StorageWidths(g, ws)) = Len(ws)
  /\ \A k \in 1..Len(ws) : /\ Widths(g, ws)[k] = WireWidth(g, ws[k])
                           /\ StorageWidths(g, ws)[k] = WireStorage(g, ws[k])

LEMMA ListWidths ==
  ASSUME NEW g, \A w \in Wires(g) : TypeFits(g.wires[w]), NEW S, NEW ws \in Seq(S)
  PROVE  HaveWidths(g, ws)
  <1>1. Len(ws) \in Nat /\ DOMAIN ws = 1..Len(ws)
    BY LenProperties
  <1>2. Widths(g, ws) \in [1..Len(ws) -> Nat]
    BY <1>1, WireWidths DEF Widths
  <1>3. StorageWidths(g, ws) \in [1..Len(ws) -> Nat]
    BY <1>1, WireWidths DEF StorageWidths
  <1>4. Widths(g, ws) \in Seq(Nat) /\ Len(Widths(g, ws)) = Len(ws)
    BY <1>1, <1>2, FunctionIsSeq
  <1>5. StorageWidths(g, ws) \in Seq(Nat) /\ Len(StorageWidths(g, ws)) = Len(ws)
    BY <1>1, <1>3, FunctionIsSeq
  <1>6. \A k \in 1..Len(ws) : /\ Widths(g, ws)[k] = WireWidth(g, ws[k])
                              /\ StorageWidths(g, ws)[k] = WireStorage(g, ws[k])
    BY <1>1 DEF Widths, StorageWidths
  <1> QED BY <1>4, <1>5, <1>6 DEF HaveWidths

---------------------------------------------------------------------------
(* Operations *)

\* The result of an operation that ran, of a given width.
Gives(r, w) == r.err = "none" /\ IsList(r.val, w)

LEMMA OkGives == ASSUME NEW v, NEW w, IsList(v, w) PROVE Gives(Ok(v), w)
  BY DEF Ok, Gives

LEMMA WhenGives ==
  ASSUME NEW p, p, NEW v, NEW w, IsList(v, w)
  PROVE  Gives(When(p, v), w)
  BY OkGives DEF When

LEMMA BinGives ==
  ASSUME NEW bin, NEW n \in Nat, NEW a, IsList(a, n), NEW b, IsList(b, n), NEW w,
         \/ bin \in {"And", "Or", "Xor", "Add", "Sub", "Mul"} /\ w = n
         \/ bin \in {"Eq", "Lt"} /\ w = 1
  PROVE  Gives(ApplyBin(bin, a, b), w)
  <1>1. Len(a) = n /\ Len(b) = n
    BY ListIsSeq
  <1>2. IsList(BinValue(bin, a, b), w)
    <2>1. CASE bin \in {"And", "Or", "Xor", "Add", "Sub", "Mul"} /\ w = n
      BY <1>1, <2>1 DEF BinValue, FromNat, IsList
    <2>2. CASE bin \in {"Eq", "Lt"} /\ w = 1
      <3>1. \A x : IsList(<<x>>, 1)
        BY DEF IsList
      <3>2. \E x : BinValue(bin, a, b) = <<x>>
        BY <2>2 DEF BinValue
      <3> QED BY <2>2, <3>1, <3>2
    <2> QED BY <2>1, <2>2
  <1> HIDE DEF Gives
  <1> QED BY <1>1, <1>2, WhenGives DEF ApplyBin

LEMMA SliceGives ==
  ASSUME NEW n \in Nat, NEW a, IsList(a, n), NEW hi \in 0..n, NEW lo \in 0..hi
  PROVE  Gives(ApplySlice(lo, hi, a), hi - lo)
  <1>1. Len(a) = n /\ ~(hi < lo) /\ hi <= n
    BY ListIsSeq
  <1>2. hi - lo \in Nat /\ lo \in Nat /\ lo + (hi - lo) <= n /\ lo + (hi - lo) = hi
    BY <1>1
  <1>3. IsList(SubSeq(a, lo + 1, lo + (hi - lo)), hi - lo)
    BY <1>2, PieceOfList
  <1>4. IsList(SubSeq(a, lo + 1, hi), hi - lo)
    BY <1>2, <1>3
  <1> QED BY <1>1, <1>4, WhenGives DEF ApplySlice

LEMMA ArrayOpsGive ==
  ASSUME NEW ew \in Nat, NEW depth \in Nat \ {0}, NEW a, IsList(a, ew * depth)
  PROVE  /\ Gives(ApplyTail(ew, depth, a), ew)
         /\ \A b : IsList(b, ew) => Gives(ApplyShiftIn(ew, depth, a, b), ew * depth)
  <1> DEFINE rest == (depth - 1) * ew
  <1>1. /\ ew * depth \in Nat /\ rest \in Nat /\ rest + ew = ew * depth /\ ew + rest = ew * depth
        /\ rest + ew = depth * ew /\ rest <= ew * depth /\ 0 + rest <= ew * depth /\ depth # 0
    <2>1. rest = depth * ew - ew /\ depth * ew = ew * depth /\ ew * depth \in Nat
      OBVIOUS
    <2>2. rest \in Nat
      <3>1. depth - 1 \in Nat
        OBVIOUS
      <3> QED BY <3>1
    <2> HIDE DEF rest
    <2> QED BY <2>1, <2>2
  <1>2. Len(a) = ew * depth
    BY <1>1, ListIsSeq
  <1>3. Gives(ApplyTail(ew, depth, a), ew)
    <2>1. IsList(SubSeq(a, rest + 1, depth * ew), ew)
      <3> HIDE DEF rest
      <3>1. rest + ew <= ew * depth
        BY <1>1
      <3>2. IsList(SubSeq(a, rest + 1, rest + ew), ew)
        BY <1>1, <3>1, PieceOfList
      <3> QED BY <1>1, <3>2
    <2> QED BY <1>1, <1>2, <2>1, WhenGives DEF ApplyTail
  <1>4. ASSUME NEW b, IsList(b, ew) PROVE Gives(ApplyShiftIn(ew, depth, a, b), ew * depth)
    <2>1. Len(b) = ew
      BY <1>4, ListIsSeq
    <2>2. IsList(b \o SubSeq(a, 1, rest), ew * depth)
      <3> HIDE DEF rest
      <3> DEFINE piece == SubSeq(a, 0 + 1, 0 + rest)
      <3>1. IsList(piece, rest) /\ piece = SubSeq(a, 1, rest)
        BY <1>1, PieceOfList
      <3> HIDE DEF piece
      <3>2. IsJoin(b, ew, piece, rest, b \o piece)
        BY <1>1, <1>4, <3>1, ListsJoin
      <3> QED BY <1>1, <3>1, <3>2 DEF IsJoin
    <2> HIDE DEF rest
    <2>3. ApplyShiftIn(ew, depth, a, b) = When(Len(a) = ew * depth /\ Len(b) = ew, b \o SubSeq(a, 1, rest))
      BY <1>1 DEF ApplyShiftIn, rest
    <2> QED BY <1>2, <2>1, <2>2, <2>3, WhenGives
  <1> QED BY <1>3, <1>4

\* An operation on operands of the widths it wants returns a value of the
\* width its result is declared with.
LEMMA OpGives ==
  ASSUME NEW op, NEW s \in Seq(Nat), NEW w \in Nat, OpFits(op, s, w), NEW args, AreLists(args, s)
  PROVE  Gives(ApplyOp(op, args), w)
  <1>1. Len(s) = Arity(op) /\ Len(s) \in Nat
    BY LenProperties DEF OpFits, Accepts
  <1>2. \A k \in 1..Len(s) : s[k] \in Nat /\ IsList(args[k], s[k])
    BY ElementOfSeq DEF AreLists
  <1>3. CASE op.op \in {"Not", "Reg"} /\ s[1] = w
    <2>1. s[1] \in Nat /\ IsList(args[1], s[1])
      BY <1>1, <1>2, <1>3 DEF Arity
    <2>2. Len(args[1]) = w
      BY <1>3, <2>1, ListIsSeq
    <2>3. IsList([i \in 1..Len(args[1]) |-> 1 - args[1][i]], w)
      BY <2>2 DEF IsList
    <2>4. CASE op.op = "Not"
      <3>1. ApplyOp(op, args) = Ok([i \in 1..Len(args[1]) |-> 1 - args[1][i]])
        BY <2>4 DEF ApplyOp
      <3> QED BY <2>3, <3>1, OkGives
    <2>5. CASE op.op = "Reg"
      <3>1. ApplyOp(op, args) = Ok(args[1])
        BY <2>5 DEF ApplyOp
      <3> QED BY <1>3, <2>1, <3>1, OkGives
    <2> QED BY <1>3, <2>4, <2>5
  <1>4. ASSUME op.op = "Bin", s[1] = s[2],
               \/ op.bin \in {"And", "Or", "Xor", "Add", "Sub", "Mul"} /\ s[1] = w
               \/ op.bin \in {"Eq", "Lt"} /\ w = 1
        PROVE  Gives(ApplyOp(op, args), w)
    <2>1. s[1] \in Nat /\ IsList(args[1], s[1]) /\ IsList(args[2], s[1])
      BY <1>1, <1>2, <1>4 DEF Arity
    <2>2. ApplyOp(op, args) = ApplyBin(op.bin, args[1], args[2])
      BY <1>4 DEF ApplyOp
    <2>3. Gives(ApplyBin(op.bin, args[1], args[2]), w)
      BY <1>4, <2>1, BinGives
    <2> QED BY <2>2, <2>3
  <1>5. CASE op.op = "Mux" /\ s[2] = w /\ s[3] = w
    <2>1. IsList(args[2], w) /\ IsList(args[3], w)
      BY <1>1, <1>2, <1>5 DEF Arity
    <2>2. ApplyOp(op, args) = Ok(IF BitAt(args[1], 0) = 1 THEN args[3] ELSE args[2])
      BY <1>5 DEF ApplyOp
    <2> QED BY <2>1, <2>2, OkGives
  <1>6. CASE op.op = "Const" /\ op.bits \in BitSeq(w)
    <2>1. IsList(op.bits, w)
      BY <1>6 DEF BitSeq, IsList
    <2>2. ApplyOp(op, args) = Ok(op.bits)
      BY <1>6 DEF ApplyOp
    <2> QED BY <2>1, <2>2, OkGives
  <1>7. CASE op.op = "Concat" /\ s[1] = op.low_width /\ s[2] = op.high_width /\ w = s[1] + s[2]
    <2> DEFINE a == args[1]
               b == args[2]
               n == s[1]
               m == s[2]
    <2>1. n \in Nat /\ m \in Nat /\ IsList(a, n) /\ IsList(b, m)
      BY <1>1, <1>2, <1>7 DEF Arity
    <2>2. ApplyOp(op, args) = When(Len(a) = op.low_width /\ Len(b) = op.high_width, a \o b)
      BY <1>7 DEF ApplyOp
    <2>3. op.low_width = n /\ op.high_width = m /\ w = n + m
      BY <1>7
    <2> HIDE DEF a, b, n, m
    <2>4. Len(a) = n /\ Len(b) = m
      BY <2>1, ListIsSeq
    <2>5. IsList(a \o b, w)
      BY <2>1, <2>3, ListsJoin DEF IsJoin
    <2> QED BY <2>2, <2>3, <2>4, <2>5, WhenGives
  <1>8. CASE op.op = "Slice" /\ op.lo \in 0..op.hi /\ op.hi \in 0..s[1] /\ w = op.hi - op.lo
    <2>1. s[1] \in Nat /\ IsList(args[1], s[1])
      BY <1>1, <1>2, <1>8 DEF Arity
    <2>2. ApplyOp(op, args) = ApplySlice(op.lo, op.hi, args[1])
      BY <1>8 DEF ApplyOp
    <2> DEFINE lo == op.lo
               hi == op.hi
    <2>3. hi \in 0..s[1] /\ lo \in 0..hi /\ w = hi - lo
      BY <1>8
    <2> HIDE DEF lo, hi
    <2>4. Gives(ApplySlice(lo, hi, args[1]), hi - lo)
      BY <2>1, <2>3, SliceGives
    <2> QED BY <2>2, <2>3, <2>4 DEF lo, hi
  <1>9. CASE /\ op.op \in {"ArrayShiftIn", "ArrayTail"}
             /\ op.element_width \in Nat /\ op.depth \in Nat \ {0}
             /\ s[1] = op.element_width * op.depth
             /\ IF op.op = "ArrayTail" THEN w = op.element_width
                ELSE s[2] = op.element_width /\ w = s[1]
    <2> DEFINE ew == op.element_width
               depth == op.depth
               a == args[1]
    <2>1. ew \in Nat /\ depth \in Nat \ {0} /\ s[1] = ew * depth
      BY <1>9
    <2>2. IsList(a, ew * depth)
      BY <1>1, <1>2, <1>9 DEF Arity
    <2>3. /\ Gives(ApplyTail(ew, depth, a), ew)
          /\ \A b : IsList(b, ew) => Gives(ApplyShiftIn(ew, depth, a, b), ew * depth)
      <3> HIDE DEF ew, depth, a
      <3> QED BY <2>1, <2>2, ArrayOpsGive
    <2>4. CASE op.op = "ArrayTail"
      <3>1. ApplyOp(op, args) = ApplyTail(ew, depth, a) /\ w = ew
        BY <1>9, <2>4 DEF ApplyOp
      <3> QED BY <2>3, <3>1
    <2>5. CASE op.op = "ArrayShiftIn"
      <3>1. ApplyOp(op, args) = ApplyShiftIn(ew, depth, a, args[2]) /\ w = ew * depth /\ s[2] = ew
        BY <1>9, <2>5 DEF ApplyOp
      <3>2. IsList(args[2], ew)
        BY <1>1, <1>2, <2>5, <3>1 DEF Arity
      <3> HIDE DEF ew, depth, a
      <3> QED BY <2>3, <3>1, <3>2
    <2> QED BY <1>9, <2>4, <2>5
  <1> QED BY <1>3, <1>4, <1>5, <1>6, <1>7, <1>8, <1>9 DEF OpFits

---------------------------------------------------------------------------
(* One cycle *)

\* The wires that have a value before instruction i have one as wide as they
\* are.
EnvFits(m, i, env) ==
  /\ DOMAIN env = Known(m, i)
  /\ \A w \in Known(m, i) : IsList(env[w], WireStorage(m.graph, w))

LEMMA MachineShape ==
  ASSUME NEW m, WellFormed(m)
  PROVE  /\ Len(m.graph.instrs) \in Nat /\ DOMAIN m.graph.instrs = 1..Len(m.graph.instrs)
         /\ Len(m.inputs) \in Nat /\ Len(m.outputs) \in Nat
         /\ m.inputs \in Seq(Wires(m.graph)) /\ m.outputs \in Seq(Wires(m.graph))
         /\ \A w \in Wires(m.graph) : TypeFits(m.graph.wires[w])
  <1>1. Shaped(m)
    BY DEF WellFormed, GraphFits
  <1> DEFINE is == m.graph.instrs
             S == Range(is)
  <1>2. is \in Seq(S)
    BY <1>1 DEF Shaped
  <1>3. Len(is) \in Nat /\ DOMAIN is = 1..Len(is)
    <2> HIDE DEF S
    <2> QED BY <1>2, LenProperties
  <1>4. /\ m.inputs \in Seq(Wires(m.graph)) /\ m.outputs \in Seq(Wires(m.graph))
        /\ Len(m.inputs) \in Nat /\ Len(m.outputs) \in Nat
    BY <1>1, LenProperties DEF Shaped
  <1> QED BY <1>3, <1>4 DEF WellFormed, GraphFits

LEMMA KnownGrows ==
  ASSUME NEW m, NEW i \in Nat \ {0}
  PROVE  Known(m, i + 1) = Known(m, i) \cup {m.graph.instrs[i].out}
  <1>1. 1..((i + 1) - 1) = 1..(i - 1) \cup {i}
    OBVIOUS
  <1> QED BY <1>1 DEF Known

LEMMA StepFits ==
  ASSUME NEW m, WellFormed(m), NEW i \in 1..Len(m.graph.instrs), NEW env, EnvFits(m, i, env),
         NEW r, r = StepInstruction(m.graph, env, m.graph.instrs[i])
  PROVE  r.err = "none" /\ EnvFits(m, i + 1, r.val)
  <1> DEFINE g == m.graph
             x == m.graph.instrs[i]
             args == Operands(env, x)
             widths == StorageWidths(g, x.ins)
             w == WireStorage(g, x.out)
             v == ApplyOp(x.op, args)
  <1>1. i \in DOMAIN m.graph.instrs /\ \A y \in Wires(g) : TypeFits(g.wires[y])
    BY MachineShape
  <1>2. x.ins \in Seq(Wires(g)) /\ x.out \in Wires(g)
    BY <1>1 DEF WellFormed, GraphFits, Shaped
  <1>3. Range(x.ins) \subseteq Known(m, i)
    BY <1>1 DEF WellFormed, GraphFits, ReadsInOrder
  <1>4. OpFits(x.op, widths, w)
    BY <1>1 DEF WellFormed, GraphFits
  <1> HIDE DEF x, g
  <1>5. Len(x.ins) \in Nat /\ DOMAIN x.ins = 1..Len(x.ins)
    BY <1>2, LenProperties
  <1>6. widths \in Seq(Nat) /\ Len(widths) = Len(x.ins)
        /\ \A k \in 1..Len(x.ins) : widths[k] = WireStorage(g, x.ins[k])
    <2> DEFINE ins == x.ins
               S == Wires(g)
    <2>1. ins \in Seq(S) /\ \A y \in Wires(g) : TypeFits(g.wires[y])
      BY <1>1, <1>2
    <2> HIDE DEF ins, S
    <2>2. HaveWidths(g, ins)
      BY <2>1, ListWidths
    <2> QED BY <2>2 DEF ins, HaveWidths
  <1>7. w \in Nat
    BY <1>1, WireWidths
  <1>8. \A k \in DOMAIN x.ins : x.ins[k] \in Known(m, i)
    BY <1>3 DEF Range
  <1>9. Readable(env, x)
    BY <1>8 DEF Readable, EnvFits
  <1>10. AreLists(args, widths)
    <2>1. args = [k \in 1..Len(x.ins) |-> env[x.ins[k]]]
      BY <1>5 DEF Operands
    <2>2. \A k \in 1..Len(x.ins) : IsList(env[x.ins[k]], WireStorage(g, x.ins[k]))
      BY <1>5, <1>8 DEF EnvFits, g
    <2>3. IsList(args, Len(x.ins))
      BY <2>1 DEF IsList
    <2> HIDE DEF widths
    <2> QED BY <1>6, <2>1, <2>2, <2>3 DEF AreLists
  <1>11. Gives(v, w)
    <2> HIDE DEF widths, w, args
    <2> QED BY <1>4, <1>6, <1>7, <1>10, OpGives
  <1>12. r = Ok(Update(g, env, x.out, v.val))
    <2> HIDE DEF v
    <2>1. r = IF ~Readable(env, x) THEN Fail("UndefinedSignal")
              ELSE IF v.err # "none" THEN v
              ELSE Ok(Update(g, env, x.out, v.val))
      BY DEF StepInstruction, v, x, g
    <2> QED BY <2>1, <1>9, <1>11 DEF Gives
  <1> HIDE DEF v, w
  <1> DEFINE e == [y \in DOMAIN env \cup {x.out} |-> IF y = x.out THEN v.val ELSE env[y]]
  <1>13. r.err = "none" /\ r.val = e
    BY <1>2, <1>12 DEF Update, Ok
  <1>14. Known(m, i + 1) = Known(m, i) \cup {x.out}
    BY KnownGrows DEF x
  <1>15. IsList(v.val, WireStorage(g, x.out))
    BY <1>11 DEF Gives, w
  <1>16. \A y \in Known(m, i) \cup {x.out} : IsList(e[y], WireStorage(g, y))
    BY <1>15 DEF EnvFits, g
  <1>17. DOMAIN e = Known(m, i) \cup {x.out}
    BY DEF EnvFits
  <1> HIDE DEF e
  <1> QED BY <1>13, <1>14, <1>16, <1>17 DEF EnvFits, g

LEMMA InputEnvFits ==
  ASSUME NEW m, WellFormed(m), NEW vs, AreLists(vs, StorageWidths(m.graph, m.inputs))
  PROVE  EnvFits(m, 1, InputEnv(m.graph, m.inputs, vs))
  <1> DEFINE g == m.graph
             ws == m.inputs
             env == InputEnv(g, ws, vs)
  <1>1. /\ ws \in Seq(Wires(g)) /\ Len(ws) \in Nat
        /\ \A w \in Wires(g) : TypeFits(g.wires[w])
    BY MachineShape
  <1> HIDE DEF g, ws
  <1>2. DOMAIN ws = 1..Len(ws) /\ \A k \in 1..Len(ws) : ws[k] \in Wires(g)
    BY <1>1, LenProperties, ElementOfSeq
  <1>3. Driven(g, ws) = Range(ws)
    BY <1>2 DEF Driven, Range
  <1>4. Known(m, 1) = Range(ws)
    BY DEF Known, ws
  <1>5. ASSUME NEW w \in Range(ws) PROVE IsList(vs[FirstAt(ws, w)], WireStorage(g, w))
    <2> DEFINE k == FirstAt(ws, w)
    <2>1. \E j \in DOMAIN ws : ws[j] = w
      BY <1>5 DEF Range
    <2>2. k \in 1..Len(ws) /\ ws[k] = w
      BY <1>1, <2>1, FirstPosition
    <2> HIDE DEF k
    <2>3. IsList(vs[k], WireStorage(g, ws[k]))
      <3>1. HaveWidths(g, ws)
        BY <1>1, ListWidths
      <3>2. AreLists(vs, StorageWidths(g, ws))
        BY DEF g, ws
      <3> QED BY <2>2, <3>1, <3>2 DEF AreLists, HaveWidths
    <2> QED BY <2>2, <2>3 DEF k
  <1>6. env = [w \in Range(ws) |-> vs[FirstAt(ws, w)]]
    BY <1>3 DEF InputEnv
  <1> HIDE DEF env
  <1>7. EnvFits(m, 1, env)
    BY <1>4, <1>5, <1>6 DEF EnvFits, g
  <1> QED BY <1>7 DEF env, g, ws

\* interpret succeeds, and leaves every driven wire with a value that fits it.
LEMMA MachineRuns ==
  ASSUME NEW m, WellFormed(m), NEW vs, AreLists(vs, StorageWidths(m.graph, m.inputs)),
         NEW r, r = Interpret(m.graph, m.inputs, vs)
  PROVE  r.err = "none" /\ EnvFits(m, Len(m.graph.instrs) + 1, r.val)
  <1> DEFINE g == m.graph
             n == Len(g.instrs)
             ws == m.inputs
  <1>1. n \in Nat /\ Len(ws) \in Nat /\ ws \in Seq(Wires(g)) /\ \A w \in Wires(g) : TypeFits(g.wires[w])
    BY MachineShape
  <1>2. Len(ws) = Len(vs)
    <2>1. Len(StorageWidths(g, ws)) = Len(ws)
      BY <1>1, ListWidths DEF HaveWidths
    <2>2. IsList(vs, Len(ws))
      BY <2>1 DEF AreLists
    <2> HIDE DEF ws
    <2> QED BY <1>1, <2>2, ListIsSeq
  <1>3. PICK f : IsFold(g, ws, vs, n, f) /\ r = f[n]
    BY <1>1, <1>2, InterpretFolds
  <1>4. f[0] = Ok(InputEnv(g, ws, vs)) /\ \A k \in 1..n : Follows(g, f[k - 1], k, f[k])
    <2> HIDE DEF g, ws, n
    <2> QED BY <1>1, <1>3, FoldSteps
  <1> DEFINE P == {k \in 0..n : f[k].err = "none" /\ EnvFits(m, k + 1, f[k].val)}
  <1>5. 0 \in P
    <2>1. EnvFits(m, 1, InputEnv(g, ws, vs))
      BY InputEnvFits
    <2> HIDE DEF g, ws
    <2> QED BY <1>1, <1>4, <2>1 DEF Ok
  <1>6. ASSUME NEW k \in 0..(n - 1), k \in P PROVE k + 1 \in P
    <2> DEFINE i == k + 1
    <2>1. i \in 1..n /\ i - 1 = k /\ i \in 0..n
      BY <1>1
    <2>2. f[k].err = "none" /\ EnvFits(m, i, f[k].val)
      BY <1>6
    <2>3. Follows(g, f[k], i, f[i])
      BY <1>4, <2>1
    <2> HIDE DEF i
    <2>4. f[i] = StepInstruction(g, f[k].val, g.instrs[i])
      BY <2>2, <2>3 DEF Follows
    <2>5. f[i].err = "none" /\ EnvFits(m, i + 1, f[i].val)
      BY <2>1, <2>2, <2>4, StepFits
    <2> QED BY <2>1, <2>5 DEF i
  <1>7. \A k \in 0..n : k \in P
    <2> HIDE DEF P, n
    <2> QED BY <1>1, <1>5, <1>6, CountingUp
  <1>8. n \in 0..n
    BY <1>1
  <1> QED BY <1>3, <1>7, <1>8

ReadBack(env, ws) == [k \in 1..Len(ws) |-> env[ws[k]]]

\* What reading wires returns: their values, each of its wire's width.
ReadsAll(m, env, ws, r) ==
  /\ r = Ok(ReadBack(env, ws))
  /\ AreLists(ReadBack(env, ws), StorageWidths(m.graph, ws))
  /\ \A k \in 1..Len(ws) : ws[k] \in DOMAIN env /\ IsList(env[ws[k]], WireStorage(m.graph, ws[k]))

\* Wires that are known at the end can be read.
LEMMA ReadsGive ==
  ASSUME NEW m, WellFormed(m), NEW env, EnvFits(m, Len(m.graph.instrs) + 1, env),
         NEW ws \in Seq(Wires(m.graph)), Range(ws) \subseteq Range(m.outputs)
  PROVE  ReadsAll(m, env, ws, ReadAll(env, ws))
  <1> DEFINE g == m.graph
             known == Known(m, Len(g.instrs) + 1)
  <1>1. Range(m.outputs) \subseteq known
    BY DEF WellFormed, GraphFits, ReadsInOrder
  <1>2. DOMAIN env = known /\ \A w \in known : IsList(env[w], WireStorage(g, w))
    BY DEF EnvFits
  <1>3. Len(ws) \in Nat /\ DOMAIN ws = 1..Len(ws)
    BY LenProperties
  <1> HIDE DEF known
  <1>4. \A k \in 1..Len(ws) : ws[k] \in known
    BY <1>1, <1>3 DEF Range
  <1>5. ReadAll(env, ws) = Ok(ReadBack(env, ws))
    BY <1>2, <1>3, <1>4 DEF ReadAll, ReadBack
  <1>6. \A k \in 1..Len(ws) : IsList(env[ws[k]], WireStorage(g, ws[k])) /\ ws[k] \in DOMAIN env
    BY <1>2, <1>4
  <1>7. HaveWidths(g, ws)
    BY MachineShape, ListWidths
  <1>8. IsList(ReadBack(env, ws), Len(ws)) /\ \A k \in 1..Len(ws) : ReadBack(env, ws)[k] = env[ws[k]]
    BY DEF IsList, ReadBack
  <1>9. AreLists(ReadBack(env, ws), StorageWidths(g, ws))
    BY <1>6, <1>7, <1>8 DEF AreLists, HaveWidths
  <1> QED BY <1>5, <1>6, <1>9 DEF ReadsAll

---------------------------------------------------------------------------
(* The ends of a machine *)

\* a is the first n elements of s, b the others.
Halves(S, s, n, a, b) ==
  /\ a \in Seq(S) /\ Len(a) = n
  /\ b \in Seq(S) /\ Len(b) = Len(s) - n
  /\ \A i \in 1..n : a[i] = s[i]
  /\ \A i \in 1..(Len(s) - n) : b[i] = s[n + i]

LEMMA SplitSeq ==
  ASSUME NEW S, NEW s \in Seq(S), NEW n \in 0..Len(s)
  PROVE  Halves(S, s, n, SubSeq(s, 1, n), SubSeq(s, n + 1, Len(s)))
  <1> DEFINE N == Len(s)
             m == N - n
             a == SubSeq(s, 0 + 1, 0 + n)
             b == SubSeq(s, n + 1, n + m)
  <1>1. N \in Nat /\ n \in Nat /\ m \in Nat /\ 0 + n <= N /\ n + m <= N /\ n + m = N /\ IsList(s, N)
    BY SeqIsList
  <1>2. \A i \in 1..N : s[i] \in S
    BY ElementOfSeq
  <1> HIDE DEF N, m
  <1>3. IsList(a, n) /\ \A i \in 1..n : a[i] = s[0 + i]
    BY <1>1, PieceOfList
  <1>4. IsList(b, m) /\ \A i \in 1..m : b[i] = s[n + i]
    BY <1>1, PieceOfList
  <1>5. a = SubSeq(s, 1, n) /\ b = SubSeq(s, n + 1, N)
    BY <1>1
  <1> HIDE DEF a, b
  <1>6. \A i \in 1..n : a[i] = s[i] /\ a[i] \in S
    BY <1>1, <1>2, <1>3
  <1>7. \A i \in 1..m : b[i] \in S
    <2>1. \A i \in 1..m : n + i \in 1..N
      BY <1>1
    <2> QED BY <2>1, <1>2, <1>4
  <1>8. a \in [1..n -> S] /\ b \in [1..m -> S]
    BY <1>3, <1>4, <1>6, <1>7 DEF IsList
  <1>9. a \in Seq(S) /\ Len(a) = n /\ b \in Seq(S) /\ Len(b) = m
    BY <1>1, <1>8, FunctionIsSeq
  <1>10. Halves(S, s, n, a, b)
    BY <1>4, <1>6, <1>9 DEF Halves, m, N
  <1> QED BY <1>5, <1>10 DEF N

LEMMA MachineEnds ==
  ASSUME NEW m, WellFormed(m)
  PROVE  /\ m.sc \in Nat
         /\ Halves(Wires(m.graph), m.inputs, m.sc, StateIn(m), DataIn(m))
         /\ Halves(Wires(m.graph), m.outputs, m.sc, NextState(m), DataOut(m))
  <1>1. /\ m.inputs \in Seq(Wires(m.graph)) /\ m.outputs \in Seq(Wires(m.graph))
        /\ Len(m.inputs) \in Nat /\ Len(m.outputs) \in Nat
    BY MachineShape
  <1>2. m.sc \in 0..Len(m.inputs) /\ m.sc \in 0..Len(m.outputs) /\ m.sc \in Nat
    BY <1>1 DEF WellFormed, GraphFits
  <1> DEFINE S == Wires(m.graph)
             ins == m.inputs
             outs == m.outputs
             sc == m.sc
  <1>3. ins \in Seq(S) /\ outs \in Seq(S) /\ sc \in 0..Len(ins) /\ sc \in 0..Len(outs)
    BY <1>1, <1>2
  <1> HIDE DEF S, ins, outs, sc
  <1>4. Halves(S, ins, sc, SubSeq(ins, 1, sc), SubSeq(ins, sc + 1, Len(ins)))
    BY <1>3, SplitSeq
  <1>5. Halves(S, outs, sc, SubSeq(outs, 1, sc), SubSeq(outs, sc + 1, Len(outs)))
    BY <1>3, SplitSeq
  <1> QED BY <1>2, <1>4, <1>5 DEF StateIn, DataIn, NextState, DataOut, S, ins, outs, sc

LEMMA DataOutShape ==
  ASSUME NEW m, WellFormed(m)
  PROVE  /\ DataOut(m) \in Seq(Wires(m.graph)) /\ DOMAIN DataOut(m) = 1..Len(DataOut(m))
         /\ Range(DataOut(m)) \subseteq Range(m.outputs)
  <1> DEFINE S == Wires(m.graph)
             outs == m.outputs
             b == DataOut(m)
             n == m.sc
  <1>1. /\ Halves(S, outs, n, NextState(m), b) /\ n \in 0..Len(outs)
        /\ outs \in Seq(S) /\ Len(outs) \in Nat
    BY MachineEnds, MachineShape DEF WellFormed, GraphFits
  <1> HIDE DEF S, outs, b, n
  <1>2. b \in Seq(S) /\ Len(b) = Len(outs) - n /\ \A i \in 1..(Len(outs) - n) : b[i] = outs[n + i]
    BY <1>1 DEF Halves
  <1>3. DOMAIN b = 1..Len(b) /\ DOMAIN outs = 1..Len(outs)
    BY <1>1, <1>2, LenProperties
  <1>4. \A i \in 1..(Len(outs) - n) : n + i \in 1..Len(outs)
    BY <1>1
  <1>5. Range(b) \subseteq Range(outs)
    BY <1>2, <1>3, <1>4 DEF Range
  <1> QED BY <1>2, <1>3, <1>5 DEF b, S, outs

\* The widths a machine's state and inputs are cut by.
LEMMA MachineWidths ==
  ASSUME NEW m, WellFormed(m)
  PROVE  /\ StateWidths(m) \in Seq(Nat) /\ Len(StateWidths(m)) = m.sc
         /\ CompactWidths(m) \in Seq(Nat) /\ Len(CompactWidths(m)) = m.sc
         /\ InputWidths(m) \in Seq(Nat) /\ Len(InputWidths(m)) = Len(DataIn(m))
         /\ \A k \in 1..m.sc : /\ CompactWidths(m)[k] = WireWidth(m.graph, StateIn(m)[k])
                               /\ StateWidths(m)[k] = WireStorage(m.graph, StateIn(m)[k])
  <1> DEFINE g == m.graph
             S == Wires(g)
             a == StateIn(m)
             b == DataIn(m)
  <1>1. a \in Seq(S) /\ b \in Seq(S) /\ Len(a) = m.sc /\ \A w \in Wires(g) : TypeFits(g.wires[w])
    BY MachineEnds, MachineShape DEF Halves
  <1> HIDE DEF S, a, b, g
  <1>2. HaveWidths(g, a) /\ HaveWidths(g, b)
    BY <1>1, ListWidths
  <1> QED BY <1>1, <1>2 DEF HaveWidths, StateWidths, CompactWidths, InputWidths, a, b, g

\* State and data together are the values of the machine's inputs.
LEMMA InputValues ==
  ASSUME NEW m, WellFormed(m), NEW a, AreLists(a, StateWidths(m)), NEW b, AreLists(b, InputWidths(m))
  PROVE  AreLists(a \o b, StorageWidths(m.graph, m.inputs))
  <1> DEFINE g == m.graph
             ws == m.inputs
             x == StateIn(m)
             y == DataIn(m)
             n == m.sc
             d == Len(y)
             widths == StorageWidths(g, ws)
             S == Wires(g)
  <1>1. /\ ws \in Seq(S) /\ \A w \in Wires(g) : TypeFits(g.wires[w])
        /\ n \in Nat /\ Halves(S, ws, n, x, y) /\ Len(ws) \in Nat
    BY MachineShape, MachineEnds
  <1>2. InputWidths(m) = StorageWidths(g, y) /\ StateWidths(m) = StorageWidths(g, x)
    BY DEF WellFormed, GraphFits, StateWidths
  <1> HIDE DEF g, ws, x, y, n, S
  <1>3. /\ x \in Seq(S) /\ y \in Seq(S) /\ Len(x) = n /\ d \in Nat /\ Len(ws) = n + d
        /\ \A k \in 1..n : x[k] = ws[k]
        /\ \A k \in 1..d : y[k] = ws[n + k]
    <2>1. x \in Seq(S) /\ y \in Seq(S) /\ Len(x) = n /\ d = Len(ws) - n
      BY <1>1 DEF Halves
    <2>2. d \in Nat
      BY <2>1, LenProperties
    <2>3. Len(ws) = n + d
      BY <1>1, <2>1, <2>2
    <2> QED BY <1>1, <2>1, <2>2, <2>3 DEF Halves
  <1>4. /\ Len(widths) = Len(ws)
        /\ \A k \in 1..Len(ws) : widths[k] = WireStorage(g, ws[k])
    BY <1>1, ListWidths DEF HaveWidths
  <1>5. HaveWidths(g, x)
    BY <1>1, <1>3, ListWidths
  <1>6. HaveWidths(g, y)
    BY <1>1, <1>3, ListWidths
  <1>7. IsList(a, n) /\ \A k \in 1..n : IsList(a[k], WireStorage(g, ws[k]))
    BY <1>2, <1>3, <1>5 DEF AreLists, HaveWidths
  <1>8. IsList(b, d) /\ \A k \in 1..d : IsList(b[k], WireStorage(g, ws[n + k]))
    BY <1>2, <1>3, <1>6 DEF AreLists, HaveWidths
  <1> DEFINE c == a \o b
  <1>9. IsJoin(a, n, b, d, c)
    <2> HIDE DEF d
    <2> QED BY <1>1, <1>3, <1>7, <1>8, ListsJoin
  <1> HIDE DEF c, widths
  <1>10. ASSUME NEW k \in 1..(n + d) PROVE IsList(c[k], widths[k])
    <2>1. widths[k] = WireStorage(g, ws[k])
      BY <1>3, <1>4
    <2>2. CASE k <= n
      <3>1. k \in 1..n
        BY <1>1, <2>2
      <3> QED BY <1>7, <1>9, <2>1, <3>1 DEF IsJoin
    <2>3. CASE ~(k <= n)
      <3>1. PICK j \in 1..d : k = n + j
        <4> HIDE DEF d
        <4> QED BY <1>1, <1>3, <2>3, InSecondPart
      <3> QED BY <1>8, <1>9, <2>1, <3>1 DEF IsJoin
    <2> QED BY <2>2, <2>3
  <1>11. AreLists(c, widths)
    BY <1>3, <1>4, <1>9, <1>10 DEF AreLists, IsJoin
  <1> QED BY <1>11 DEF c, widths, g, ws

---------------------------------------------------------------------------
(* A cycle of the testbench *)

LEMMA TotalIsNat == ASSUME NEW widths \in Seq(Nat) PROVE Total(widths) \in Nat
  <1>1. PICK t : Running(widths, t)
    BY RunningTotals
  <1>2. Len(widths) \in 0..Len(widths) /\ Total(widths) = t[Len(widths)]
    BY <1>1 DEF Running
  <1> QED BY <1>1, <1>2 DEF Running

LEMMA SplitFits ==
  ASSUME NEW widths \in Seq(Nat), NEW bits, IsList(bits, Total(widths))
  PROVE  /\ SplitByWidths(bits, widths) = Ok(Chunks(bits, widths))
         /\ AreLists(Chunks(bits, widths), widths)
  <1>1. PICK t : Running(widths, t)
    BY RunningTotals
  <1>2. Total(widths) \in Nat
    BY TotalIsNat
  <1>3. Len(bits) = Total(widths)
    BY <1>2, ListIsSeq
  <1>4. AreLists(Chunks(bits, widths), widths)
    BY <1>1, ChunksAreLists
  <1> QED BY <1>3, <1>4 DEF SplitByWidths, When

LEMMA FlattenFits ==
  ASSUME NEW widths \in Seq(Nat), NEW v, AreLists(v, widths)
  PROVE  IsList(FlattenSeq(v), Total(widths))
  <1>1. PICK t : Running(widths, t)
    BY RunningTotals
  <1>2. IsFlat(v, widths, t, Len(widths), FlattenSeq(v))
    BY <1>1, FlattenIsFlat
  <1> QED BY <1>1, <1>2 DEF IsFlat, Running

\* The environment a cycle leaves behind.
EnvAfter(m, bits, input) ==
  Interpret(m.graph, m.inputs, Chunks(bits, StateWidths(m)) \o Chunks(input, InputWidths(m))).val

LEMMA EnvAfterFits ==
  ASSUME NEW m, WellFormed(m), NEW bits, IsList(bits, Total(StateWidths(m))),
         NEW input, IsList(input, Total(InputWidths(m)))
  PROVE  /\ Interpret(m.graph, m.inputs, Chunks(bits, StateWidths(m)) \o Chunks(input, InputWidths(m))).err = "none"
         /\ EnvFits(m, Len(m.graph.instrs) + 1, EnvAfter(m, bits, input))
  <1> DEFINE a == Chunks(bits, StateWidths(m))
             b == Chunks(input, InputWidths(m))
             vs == a \o b
             r == Interpret(m.graph, m.inputs, vs)
  <1>1. AreLists(a, StateWidths(m)) /\ AreLists(b, InputWidths(m))
    BY MachineWidths, SplitFits
  <1>2. AreLists(vs, StorageWidths(m.graph, m.inputs))
    <2> HIDE DEF a, b
    <2> QED BY <1>1, InputValues
  <1>3. r.err = "none" /\ EnvFits(m, Len(m.graph.instrs) + 1, r.val)
    <2> HIDE DEF vs
    <2> QED BY <1>2, MachineRuns
  <1> QED BY <1>3 DEF EnvAfter

\* What a cycle returns: the next state, as wide as the state, and the sample.
Returns(m, bits, input, r) ==
  LET env == EnvAfter(m, bits, input)
  IN  /\ r.err = "none"
      /\ r.val.next = FlattenSeq(ReadBack(env, NextState(m)))
      /\ r.val.sample = FlattenSeq(ReadBack(env, DataOut(m)))
      /\ IsList(r.val.next, Total(StateWidths(m)))

LEMMA NextStateRead ==
  ASSUME NEW m, WellFormed(m), NEW env, EnvFits(m, Len(m.graph.instrs) + 1, env)
  PROVE  /\ ReadAll(env, NextState(m)) = Ok(ReadBack(env, NextState(m)))
         /\ IsList(FlattenSeq(ReadBack(env, NextState(m))), Total(StateWidths(m)))
  <1> DEFINE ws == NextState(m)
             S == Wires(m.graph)
  <1>1. Halves(S, m.outputs, m.sc, ws, DataOut(m)) /\ m.sc \in Nat
    BY MachineEnds
  <1>2. m.sc <= Len(m.outputs) /\ DOMAIN m.outputs = 1..Len(m.outputs) /\ Len(m.outputs) \in Nat
    BY MachineShape, LenProperties DEF WellFormed, GraphFits
  <1> HIDE DEF ws
  <1>3. ws \in Seq(S) /\ Len(ws) = m.sc /\ \A k \in 1..m.sc : ws[k] = m.outputs[k]
    BY <1>1 DEF Halves
  <1>4. Range(ws) \subseteq Range(m.outputs)
    <2>1. DOMAIN ws = 1..m.sc
      BY <1>1, <1>3, LenProperties
    <2> QED BY <1>1, <1>2, <1>3, <2>1 DEF Range
  <1>5. ReadsAll(m, env, ws, ReadAll(env, ws))
    <2>1. ws \in Seq(Wires(m.graph))
      BY <1>3
    <2> QED BY <1>4, <2>1, ReadsGive
  <1>6. StorageWidths(m.graph, ws) = StateWidths(m)
    BY DEF WellFormed, GraphFits, ws
  <1>7. AreLists(ReadBack(env, ws), StateWidths(m))
    BY <1>5, <1>6 DEF ReadsAll
  <1>8. IsList(FlattenSeq(ReadBack(env, ws)), Total(StateWidths(m)))
    BY <1>7, MachineWidths, FlattenFits
  <1> QED BY <1>5, <1>8 DEF ws, ReadsAll

LEMMA CycleReturns ==
  ASSUME NEW m, WellFormed(m), NEW bits, IsList(bits, Total(StateWidths(m))),
         NEW input, IsList(input, Total(InputWidths(m)))
  PROVE  Returns(m, bits, input, RunCycle(m, bits, input))
  <1> DEFINE env == EnvAfter(m, bits, input)
             vs == Chunks(bits, StateWidths(m)) \o Chunks(input, InputWidths(m))
             r == Interpret(m.graph, m.inputs, vs)
             outs == m.outputs
             out == ReadAll(r.val, outs)
             sc == m.sc
             S == Wires(m.graph)
  <1>1. /\ SplitByWidths(bits, StateWidths(m)) = Ok(Chunks(bits, StateWidths(m)))
        /\ SplitByWidths(input, InputWidths(m)) = Ok(Chunks(input, InputWidths(m)))
    BY MachineWidths, SplitFits
  <1>2. r.err = "none" /\ r.val = env /\ EnvFits(m, Len(m.graph.instrs) + 1, env)
    BY EnvAfterFits DEF EnvAfter
  <1>3. outs \in Seq(S) /\ Len(outs) \in Nat /\ sc \in 0..Len(outs) /\ sc \in Nat
    BY MachineShape, MachineEnds DEF WellFormed, GraphFits
  <1>4. Halves(S, outs, sc, NextState(m), DataOut(m))
    BY MachineEnds
  <1> HIDE DEF env, vs, outs, sc, S
  <1>5. out.err = "none" /\ out.val = ReadBack(env, outs)
    <2>1. EnvFits(m, Len(m.graph.instrs) + 1, r.val) /\ outs \in Seq(Wires(m.graph))
          /\ Range(outs) \subseteq Range(m.outputs)
      BY <1>2, <1>3 DEF outs, S
    <2> HIDE DEF r
    <2>2. ReadsAll(m, r.val, outs, ReadAll(r.val, outs))
      BY <2>1, ReadsGive
    <2>3. ReadAll(r.val, outs) = Ok(ReadBack(r.val, outs))
      BY <2>2 DEF ReadsAll
    <2> QED BY <1>2, <2>3 DEF Ok
  <1>6. RunCycle(m, bits, input) =
          Ok([next   |-> FlattenSeq(SubSeq(out.val, 1, sc)),
              sample |-> FlattenSeq(SubSeq(out.val, sc + 1, Len(out.val)))])
    <2>1. RunCycle(m, bits, input) =
            IF r.err # "none" THEN r
            ELSE IF out.err # "none" THEN out
            ELSE Ok([next   |-> FlattenSeq(SubSeq(out.val, 1, sc)),
                     sample |-> FlattenSeq(SubSeq(out.val, sc + 1, Len(out.val)))])
      BY <1>1 DEF RunCycle, Ok, vs, outs, sc
    <2> HIDE DEF r, out
    <2> QED BY <1>2, <1>5, <2>1
  <1> DEFINE all == ReadBack(env, outs)
             T == Range(all)
  <1>7. IsList(all, Len(outs))
    BY DEF ReadBack, IsList
  <1>8. all \in Seq(T) /\ Len(all) = Len(outs)
    <2> HIDE DEF all
    <2> QED BY <1>3, <1>7, ListIsSeq
  <1>9. Halves(T, all, sc, SubSeq(all, 1, sc), SubSeq(all, sc + 1, Len(all)))
    <2>1. sc \in 0..Len(all)
      BY <1>3, <1>8
    <2> HIDE DEF all, T
    <2> QED BY <1>8, <2>1, SplitSeq
  <1>10. SubSeq(all, 1, sc) = ReadBack(env, NextState(m))
    <2> DEFINE a == SubSeq(all, 1, sc)
    <2>1. a \in Seq(T) /\ Len(a) = sc /\ \A i \in 1..sc : a[i] = all[i]
      BY <1>9 DEF Halves
    <2> HIDE DEF a, T
    <2>2. IsList(a, sc)
      BY <2>1, SeqIsList
    <2>3. Len(NextState(m)) = sc /\ \A i \in 1..sc : NextState(m)[i] = outs[i]
      BY <1>4 DEF Halves
    <2>4. \A i \in 1..sc : a[i] = env[NextState(m)[i]]
      <3>1. \A i \in 1..sc : i \in 1..Len(outs)
        BY <1>3
      <3>2. \A i \in 1..Len(outs) : all[i] = env[outs[i]]
        BY DEF ReadBack
      <3> HIDE DEF all
      <3> QED BY <2>1, <2>3, <3>1, <3>2
    <2>5. a = [i \in 1..sc |-> env[NextState(m)[i]]]
      BY <2>2, <2>4 DEF IsList
    <2> QED BY <2>3, <2>5 DEF ReadBack, a
  <1>11. SubSeq(all, sc + 1, Len(all)) = ReadBack(env, DataOut(m))
    <2> DEFINE b == SubSeq(all, sc + 1, Len(all))
               d == Len(outs) - sc
    <2>1. b \in Seq(T) /\ Len(b) = d /\ \A i \in 1..d : b[i] = all[sc + i]
      BY <1>8, <1>9 DEF Halves
    <2> HIDE DEF b, T
    <2>2. IsList(b, d)
      <3> HIDE DEF d
      <3> QED BY <2>1, SeqIsList
    <2>3. Len(DataOut(m)) = d /\ \A i \in 1..d : DataOut(m)[i] = outs[sc + i]
      BY <1>4 DEF Halves
    <2>4. \A i \in 1..d : sc + i \in 1..Len(outs)
      BY <1>3
    <2>5. \A i \in 1..d : b[i] = env[DataOut(m)[i]]
      BY <2>1, <2>3, <2>4 DEF ReadBack
    <2> HIDE DEF d
    <2>6. b = [i \in 1..d |-> env[DataOut(m)[i]]]
      BY <2>2, <2>5 DEF IsList
    <2> QED BY <2>3, <2>6 DEF ReadBack, b
  <1>12. IsList(FlattenSeq(ReadBack(env, NextState(m))), Total(StateWidths(m)))
    BY <1>2, NextStateRead
  <1> HIDE DEF out, r
  <1>13. /\ RunCycle(m, bits, input).err = "none"
         /\ RunCycle(m, bits, input).val.next = FlattenSeq(ReadBack(env, NextState(m)))
         /\ RunCycle(m, bits, input).val.sample = FlattenSeq(ReadBack(env, DataOut(m)))
    <2> HIDE DEF all
    <2>1. out.val = all
      BY <1>5 DEF all
    <2>2. RunCycle(m, bits, input) =
            Ok([next   |-> FlattenSeq(ReadBack(env, NextState(m))),
                sample |-> FlattenSeq(ReadBack(env, DataOut(m)))])
      BY <1>6, <1>10, <1>11, <2>1
    <2> QED BY <2>2 DEF Ok
  <1> QED BY <1>12, <1>13 DEF Returns, env

\* An input of another width is refused.
LEMMA MisfitRefused ==
  ASSUME NEW m, WellFormed(m), NEW bits, IsList(bits, Total(StateWidths(m))),
         NEW input, Len(input) # Total(InputWidths(m))
  PROVE  RunCycle(m, bits, input) = Fail("WidthMismatch")
  <1>1. SplitByWidths(bits, StateWidths(m)) = Ok(Chunks(bits, StateWidths(m)))
    BY MachineWidths, SplitFits
  <1>2. SplitByWidths(input, InputWidths(m)) = Fail("WidthMismatch")
    BY DEF SplitByWidths, When
  <1> QED BY <1>1, <1>2 DEF RunCycle, Ok, Fail

\* The expanded initial state is as wide as the state.
LEMMA InitialFits ==
  ASSUME NEW m, WellFormed(m)
  PROVE  /\ InitialBits(m) = Ok(FlattenSeq(Expand(m, Chunks(m.init, CompactWidths(m)))))
         /\ IsList(FlattenSeq(Expand(m, Chunks(m.init, CompactWidths(m)))), Total(StateWidths(m)))
  <1> DEFINE compact == CompactWidths(m)
             c == Chunks(m.init, compact)
             v == Expand(m, c)
             g == m.graph
             n == m.sc
             w(k) == StateIn(m)[k]
  <1>1. IsList(m.init, Total(compact))
    BY DEF WellFormed, GraphFits, BitSeq, IsList
  <1>2. /\ compact \in Seq(Nat) /\ Len(compact) = n /\ n \in Nat
        /\ StateWidths(m) \in Seq(Nat) /\ Len(StateWidths(m)) = n
        /\ \A k \in 1..n : compact[k] = WireWidth(g, w(k)) /\ StateWidths(m)[k] = WireStorage(g, w(k))
    BY MachineWidths, MachineEnds
  <1>3. SplitByWidths(m.init, compact) = Ok(c) /\ AreLists(c, compact)
    <2> HIDE DEF compact
    <2> QED BY <1>1, <1>2, SplitFits
  <1>4. InitialBits(m) = Ok(FlattenSeq(v))
    BY <1>3 DEF InitialBits, Ok
  <1> HIDE DEF compact, c
  <1>5. IsList(c, n) /\ \A k \in 1..n : compact[k] \in Nat /\ IsList(c[k], compact[k])
    BY <1>2, <1>3, ElementOfSeq DEF AreLists
  <1>6. DOMAIN c = 1..n
    BY <1>5 DEF IsList
  <1>7. v = [k \in 1..n |-> IF w(k) \in Wires(g) /\ IsArray(g.wires[w(k)])
                            THEN Replicate(c[k], g.wires[w(k)].depth) ELSE c[k]]
    BY <1>6 DEF Expand
  <1>8. ASSUME NEW k \in 1..n PROVE IsList(v[k], StateWidths(m)[k])
    <2> DEFINE x == w(k)
               ty == g.wires[x]
               a == c[k]
               e == compact[k]
    <2>1. e \in Nat /\ IsList(a, e) /\ e = WireWidth(g, x) /\ StateWidths(m)[k] = WireStorage(g, x)
      BY <1>2, <1>5
    <2>2. v[k] = IF x \in Wires(g) /\ IsArray(ty) THEN Replicate(a, ty.depth) ELSE a
      BY <1>7
    <2> HIDE DEF a, e, v, x
    <2>3. CASE x \in Wires(g) /\ IsArray(ty)
      <3>1. TypeFits(ty)
        BY <2>3 DEF WellFormed, GraphFits
      <3>2. ty.depth \in Nat
        BY <2>3, <3>1 DEF TypeFits
      <3>3. IsList(Replicate(a, ty.depth), e * ty.depth)
        BY <2>1, <3>2, ReplicateIsList
      <3>4. e = ty.element_width /\ WireStorage(g, x) = ty.element_width * ty.depth
        BY <2>1, <2>3 DEF WireWidth, WireStorage, StorageBits, Width, IsArray
      <3> QED BY <2>1, <2>2, <2>3, <3>3, <3>4
    <2>4. CASE ~(x \in Wires(g) /\ IsArray(ty))
      <3>1. WireWidth(g, x) = WireStorage(g, x)
        BY <2>4 DEF WireWidth, WireStorage, StorageBits
      <3> QED BY <2>1, <2>2, <2>4, <3>1
    <2> QED BY <2>3, <2>4
  <1>9. IsList(v, n)
    BY <1>7 DEF IsList
  <1>10. AreLists(v, StateWidths(m))
    <2> HIDE DEF v
    <2> QED BY <1>2, <1>8, <1>9 DEF AreLists
  <1>11. IsList(FlattenSeq(v), Total(StateWidths(m)))
    <2> HIDE DEF v
    <2> QED BY <1>2, <1>10, FlattenFits
  <1> QED BY <1>4, <1>11 DEF c, compact

---------------------------------------------------------------------------
(* The testbench *)

\* Every machine it is given is well formed.
MachinesFit == \A name \in Machines : WellFormed(MachineOf(name))

\* While it runs, the state is a list as long as the machine's state is wide.
\* StateAtStorageWidth says it of the length.
BenchInv ==
  /\ machine \in Machines
  /\ status \in {"new", "running", "done", "WidthMismatch"}
  /\ status = "running" => IsList(stateBits, Total(StateWidths(M)))

LEMMA ElementIsList ==
  ASSUME MachinesFit, machine \in Machines, NEW input \in Elements
  PROVE  IsList(input, Len(input))
  <1>1. CASE input \in Misfits
    <2>1. input \in Seq(Bit)
      BY <1>1, MisfitsAssumption
    <2> QED BY <2>1, SeqIsList
  <1>2. CASE input \in BitSeq(Total(InputWidths(M)))
    <2> DEFINE n == Total(InputWidths(M))
    <2>1. InputWidths(M) \in Seq(Nat)
      BY MachineWidths DEF MachinesFit, M
    <2>2. n \in Nat
      BY <2>1, TotalIsNat
    <2>3. input \in [1..n -> Bit]
      BY <1>2 DEF BitSeq
    <2> HIDE DEF n
    <2> QED BY <2>2, <2>3, FunctionIsSeq, SeqIsList
  <1> QED BY <1>1, <1>2 DEF Elements

LEMMA BeginKeeps ==
  ASSUME MachinesFit, BenchInv, Begin
  PROVE  BenchInv' /\ status' = "running" /\ stateBits' = FlattenSeq(Expand(M, Chunks(M.init, CompactWidths(M))))
  <1> DEFINE m == M
             bits == FlattenSeq(Expand(m, Chunks(m.init, CompactWidths(m))))
  <1>1. WellFormed(m)
    BY DEF MachinesFit, M, BenchInv
  <1> HIDE DEF m
  <1>2. InitialBits(m) = Ok(bits) /\ IsList(bits, Total(StateWidths(m)))
    BY <1>1, InitialFits
  <1>3. InitialBits(m).val = bits /\ InitialBits(m).err = "none"
    BY <1>2 DEF Ok
  <1>4. machine' = machine /\ stateBits' = bits /\ status' = "running"
    BY <1>3 DEF Begin, m
  <1>5. M' = m
    BY <1>4 DEF M, m
  <1>6. IsList(stateBits', Total(StateWidths(M')))
    BY <1>2, <1>4, <1>5
  <1> QED BY <1>4, <1>6 DEF BenchInv, m

\* What a cycle does to the state and to the status.
LEMMA CycleKeeps ==
  ASSUME MachinesFit, BenchInv, NEW input \in Elements, Cycle(input)
  PROVE  /\ BenchInv'
         /\ status = "running" /\ WellFormed(M) /\ IsList(stateBits, Total(StateWidths(M)))
         /\ \/ /\ IsList(input, Total(InputWidths(M))) /\ status' = "running"
               /\ stateBits' = RunCycle(M, stateBits, input).val.next
            \/ /\ Len(input) # Total(InputWidths(M)) /\ status' = "WidthMismatch"
               /\ UNCHANGED stateBits
  <1> DEFINE m == M
             r == RunCycle(m, stateBits, input)
  <1>1. WellFormed(m) /\ status = "running" /\ IsList(stateBits, Total(StateWidths(m)))
    BY DEF MachinesFit, M, BenchInv, Cycle
  <1>2. IsList(input, Len(input))
    BY ElementIsList DEF BenchInv
  <1>3. machine' = machine /\ M' = m
    BY DEF Cycle, M
  <1> HIDE DEF m
  <1>4. CASE Len(input) = Total(InputWidths(m))
    <2>1. IsList(input, Total(InputWidths(m)))
      BY <1>2, <1>4
    <2>2. Returns(m, stateBits, input, r)
      BY <1>1, <2>1, CycleReturns
    <2>3. r.err = "none" /\ IsList(r.val.next, Total(StateWidths(m)))
      BY <2>2 DEF Returns
    <2>4. status' = status /\ stateBits' = r.val.next
      BY <2>3 DEF Cycle, m
    <2> HIDE DEF r
    <2>5. BenchInv'
      BY <1>1, <1>3, <2>3, <2>4 DEF BenchInv
    <2> QED BY <1>1, <2>1, <2>4, <2>5 DEF m, r
  <1>5. CASE Len(input) # Total(InputWidths(m))
    <2>1. r = Fail("WidthMismatch")
      BY <1>1, <1>5, MisfitRefused
    <2>2. r.err = "WidthMismatch" /\ r.err # "none"
      BY <2>1 DEF Fail
    <2>3. status' = "WidthMismatch" /\ stateBits' = stateBits
      BY <2>2 DEF Cycle, m
    <2>4. BenchInv'
      BY <1>3, <2>3 DEF BenchInv
    <2> QED BY <1>1, <1>5, <2>3, <2>4 DEF m
  <1> QED BY <1>4, <1>5

LEMMA InitBench == Init => BenchInv
  BY DEF Init, BenchInv

LEMMA BenchStep ==
  ASSUME MachinesFit, BenchInv, [Next]_vars
  PROVE  BenchInv'
  <1>1. CASE Begin
    BY <1>1, BeginKeeps
  <1>2. ASSUME NEW input \in Elements, Cycle(input) PROVE BenchInv'
    BY <1>2, CycleKeeps
  <1>3. CASE End
    BY <1>3 DEF End, BenchInv, M
  <1>4. CASE UNCHANGED vars
    BY <1>4 DEF vars, BenchInv, M
  <1> QED BY <1>1, <1>2, <1>3, <1>4 DEF Next

LEMMA BenchAlways == ASSUME MachinesFit PROVE Spec => []BenchInv
  <1>1. BenchInv /\ [Next]_vars => BenchInv'
    BY BenchStep
  <1> QED BY <1>1, InitBench, PTL DEF Spec

\* The state keeps the width of the machine's state wires at full array depth,
\* on any input and however long it runs (testbench.rs:62-65, 82-90).
THEOREM StateKeepsWidth == ASSUME MachinesFit PROVE Spec => []StateAtStorageWidth
  <1>1. BenchInv => StateAtStorageWidth
    <2> SUFFICES ASSUME BenchInv, status = "running" PROVE Len(stateBits) = Total(StateWidths(M))
      BY DEF StateAtStorageWidth
    <2>1. IsList(stateBits, Total(StateWidths(M)))
      BY DEF BenchInv
    <2>2. Total(StateWidths(M)) \in Nat
      <3>1. StateWidths(M) \in Seq(Nat)
        BY MachineWidths DEF MachinesFit, M, BenchInv
      <3> QED BY <3>1, TotalIsNat
    <2> QED BY <2>1, <2>2, ListIsSeq
  <1> QED BY <1>1, BenchAlways, PTL

\* A machine whose parts fit each other never fails on an input that fits it,
\* whatever ran before: type soundness of the netlist.
THEOREM FittingInputsNeverFail == ASSUME MachinesFit PROVE Spec => []FittingInputsRun
  <1>1. BenchInv => FittingInputsRun
    <2> SUFFICES ASSUME BenchInv, status = "running", NEW input \in BitSeq(Total(InputWidths(M)))
                 PROVE  RunCycle(M, stateBits, input).err = "none"
      BY DEF FittingInputsRun
    <2>1. WellFormed(M) /\ IsList(stateBits, Total(StateWidths(M)))
      BY DEF BenchInv, MachinesFit, M
    <2>2. IsList(input, Total(InputWidths(M)))
      BY DEF BitSeq, IsList
    <2>3. Returns(M, stateBits, input, RunCycle(M, stateBits, input))
      BY <2>1, <2>2, CycleReturns
    <2> QED BY <2>3 DEF Returns
  <1> QED BY <1>1, BenchAlways, PTL

---------------------------------------------------------------------------
(* The tracer *)

ScalarEnds(m) == \A k \in 1..Len(StateIn(m)) : ~IsArray(m.graph.wires[StateIn(m)[k]])

\* Without an array, the compact state is the state.
LEMMA ScalarWidths ==
  ASSUME NEW m, WellFormed(m), ScalarEnds(m)
  PROVE  CompactWidths(m) = StateWidths(m)
  <1> DEFINE ws == StateIn(m)
             g == m.graph
  <1>1. ws \in Seq(Wires(g)) /\ DOMAIN ws = 1..Len(ws)
    <2>1. ws \in Seq(Wires(g))
      BY MachineEnds DEF Halves
    <2> HIDE DEF ws, g
    <2> QED BY <2>1, LenProperties
  <1>2. \A k \in 1..Len(ws) : WireWidth(g, ws[k]) = WireStorage(g, ws[k])
    BY DEF ScalarEnds, WireWidth, WireStorage, StorageBits
  <1> HIDE DEF ws, g
  <1>3. Widths(g, ws) = StorageWidths(g, ws)
    BY <1>1, <1>2 DEF Widths, StorageWidths
  <1> QED BY <1>3 DEF CompactWidths, StateWidths, ws, g

\* And it needs no expansion.
LEMMA ScalarInitial ==
  ASSUME NEW m, WellFormed(m), ScalarEnds(m)
  PROVE  FlattenSeq(Expand(m, Chunks(m.init, CompactWidths(m)))) = m.init
  <1> DEFINE widths == CompactWidths(m)
             c == Chunks(m.init, widths)
  <1>1. widths \in Seq(Nat) /\ IsList(m.init, Total(widths)) /\ Len(widths) = Len(StateIn(m))
    BY MachineWidths, MachineEnds DEF WellFormed, GraphFits, BitSeq, IsList, Halves
  <1>2. DOMAIN c = 1..Len(widths) /\ c = [k \in 1..Len(widths) |-> c[k]]
    BY DEF Chunks
  <1> HIDE DEF c, widths
  <1>3. Expand(m, c) = c
    BY <1>1, <1>2 DEF Expand, ScalarEnds
  <1>4. FlattenSeq(c) = m.init
    BY <1>1, FlattenChunks DEF c
  <1> QED BY <1>3, <1>4 DEF c, widths

\* What a step of the tracer returns: the testbench's next state, and the
\* environment of the same cycle as a frame.
Traces(m, bits, input, r) ==
  LET env == EnvAfter(m, bits, input)
  IN  /\ r.err = "none"
      /\ r.val.next = FlattenSeq(ReadBack(env, NextState(m)))
      /\ r.val.frame = Frame(m.graph, env)

LEMMA StepTraces ==
  ASSUME NEW m, WellFormed(m), ScalarEnds(m), NEW bits, IsList(bits, Total(StateWidths(m))),
         NEW input, IsList(input, Total(InputWidths(m)))
  PROVE  Traces(m, bits, input, TraceStep(m, bits, input))
  <1> DEFINE env == EnvAfter(m, bits, input)
             vs == Chunks(bits, StateWidths(m)) \o Chunks(input, InputWidths(m))
             r == Interpret(m.graph, m.inputs, vs)
             next == ReadAll(r.val, NextState(m))
  <1>1. /\ SplitByWidths(bits, CompactWidths(m)) = Ok(Chunks(bits, StateWidths(m)))
        /\ SplitByWidths(input, InputWidths(m)) = Ok(Chunks(input, InputWidths(m)))
    BY MachineWidths, SplitFits, ScalarWidths
  <1>2. r.err = "none" /\ r.val = env /\ EnvFits(m, Len(m.graph.instrs) + 1, env)
    BY EnvAfterFits DEF EnvAfter
  <1>3. TraceStep(m, bits, input) =
          IF r.err # "none" THEN r
          ELSE IF next.err # "none" THEN next
          ELSE Ok([next |-> FlattenSeq(next.val), frame |-> Frame(m.graph, r.val)])
    BY <1>1 DEF TraceStep, Ok
  <1> HIDE DEF env, vs
  <1>4. next = Ok(ReadBack(env, NextState(m)))
    BY <1>2, NextStateRead
  <1>5. next.err = "none" /\ next.val = ReadBack(env, NextState(m))
    BY <1>4 DEF Ok
  <1> HIDE DEF next, r
  <1>6. TraceStep(m, bits, input) =
          Ok([next |-> FlattenSeq(ReadBack(env, NextState(m))), frame |-> Frame(m.graph, env)])
    BY <1>2, <1>3, <1>5
  <1> QED BY <1>6 DEF Traces, Ok, env

LEMMA MisfitUntraced ==
  ASSUME NEW m, WellFormed(m), ScalarEnds(m), NEW bits, IsList(bits, Total(StateWidths(m))),
         NEW input, Len(input) # Total(InputWidths(m))
  PROVE  TraceStep(m, bits, input) = Fail("WidthMismatch")
  <1>1. SplitByWidths(bits, CompactWidths(m)) = Ok(Chunks(bits, StateWidths(m)))
    BY MachineWidths, SplitFits, ScalarWidths
  <1>2. SplitByWidths(input, InputWidths(m)) = Fail("WidthMismatch")
    BY DEF SplitByWidths, When
  <1> QED BY <1>1, <1>2 DEF TraceStep, Ok, Fail

\* Beside the testbench, the tracer of a machine without array state runs as
\* long as it does, on the same state.
TracerKeepsUp ==
  /\ status = "new" => traceStatus = "new"
  /\ status \in {"running", "done"} => traceStatus = "running" /\ traceBits = stateBits
  /\ status = "WidthMismatch" => traceStatus = "WidthMismatch"
  /\ status \in {"running", "done"} => IsList(stateBits, Total(StateWidths(M)))

TraceInv == BenchInv /\ (ScalarState => TracerKeepsUp)

LEMMA TraceBeginKeeps ==
  ASSUME MachinesFit, TraceInv, Begin, TraceBegin
  PROVE  TraceInv'
  <1> DEFINE m == M
             bits == FlattenSeq(Expand(m, Chunks(m.init, CompactWidths(m))))
  <1>1. BenchInv' /\ status' = "running" /\ stateBits' = bits
    BY BeginKeeps DEF TraceInv
  <1>2. machine' = machine /\ M' = m /\ WellFormed(m)
    BY DEF Begin, M, TraceInv, BenchInv, MachinesFit
  <1> HIDE DEF m, bits
  <1>3. ASSUME ScalarState' PROVE TracerKeepsUp'
    <2>1. ScalarEnds(m)
      BY <1>2, <1>3 DEF ScalarState, ScalarEnds
    <2>2. bits = m.init
      BY <1>2, <2>1, ScalarInitial DEF bits
    <2>3. Len(m.init) = Total(CompactWidths(m))
      <3>1. m.init \in [1..Total(CompactWidths(m)) -> Bit] /\ Total(CompactWidths(m)) \in Nat
        BY <1>2, MachineWidths, TotalIsNat DEF WellFormed, GraphFits, BitSeq
      <3> QED BY <3>1, FunctionIsSeq
    <2>4. traceBits' = m.init /\ traceStatus' = "running"
      BY <2>3 DEF TraceBegin, m
    <2>5. IsList(stateBits', Total(StateWidths(M')))
      BY <1>1 DEF BenchInv
    <2> QED BY <1>1, <2>2, <2>4, <2>5 DEF TracerKeepsUp
  <1> QED BY <1>1, <1>3 DEF TraceInv

LEMMA TraceCycleKeeps ==
  ASSUME MachinesFit, TraceInv, NEW input \in Elements, Cycle(input), TraceCycle(input)
  PROVE  TraceInv'
  <1> DEFINE m == M
             r == RunCycle(m, stateBits, input)
             t == TraceStep(m, traceBits, input)
  <1>1. /\ BenchInv'
        /\ status = "running" /\ WellFormed(m) /\ IsList(stateBits, Total(StateWidths(m)))
        /\ \/ /\ IsList(input, Total(InputWidths(m))) /\ status' = "running"
              /\ stateBits' = r.val.next
           \/ /\ Len(input) # Total(InputWidths(m)) /\ status' = "WidthMismatch"
              /\ stateBits' = stateBits
    BY CycleKeeps DEF TraceInv
  <1>2. machine' = machine /\ M' = m
    BY DEF Cycle, M
  <1>3. traceStatus = "running" =>
          IF t.err = "none" THEN traceBits' = t.val.next /\ traceStatus' = traceStatus
          ELSE traceStatus' = t.err
    BY DEF TraceCycle
  <1> HIDE DEF m
  <1>4. ASSUME ScalarState' PROVE TracerKeepsUp'
    <2>1. ScalarEnds(m) /\ ScalarState
      BY <1>2, <1>4 DEF ScalarState, ScalarEnds, m
    <2>2. traceStatus = "running" /\ traceBits = stateBits
      BY <1>1, <2>1 DEF TraceInv, TracerKeepsUp
    <2>3. CASE IsList(input, Total(InputWidths(m))) /\ status' = "running" /\ stateBits' = r.val.next
      <3>1. Returns(m, stateBits, input, r)
        BY <1>1, <2>3, CycleReturns
      <3>2. Traces(m, stateBits, input, t)
        BY <1>1, <2>1, <2>2, <2>3, StepTraces
      <3>3. t.err = "none" /\ t.val.next = r.val.next
        BY <3>1, <3>2 DEF Returns, Traces
      <3>4. traceBits' = t.val.next /\ traceStatus' = "running"
        <4> HIDE DEF t
        <4> QED BY <1>3, <2>2, <3>3
      <3>5. IsList(stateBits', Total(StateWidths(M')))
        BY <1>1, <2>3 DEF BenchInv
      <3> HIDE DEF t, r
      <3> QED BY <2>3, <3>3, <3>4, <3>5 DEF TracerKeepsUp
    <2>4. CASE Len(input) # Total(InputWidths(m)) /\ status' = "WidthMismatch" /\ stateBits' = stateBits
      <3>1. t = Fail("WidthMismatch")
        BY <1>1, <2>1, <2>2, <2>4, MisfitUntraced
      <3>2. t.err = "WidthMismatch"
        BY <3>1 DEF Fail
      <3>3. traceStatus' = "WidthMismatch"
        <4> HIDE DEF t
        <4> QED BY <1>3, <2>2, <3>2
      <3> QED BY <2>4, <3>3 DEF TracerKeepsUp
    <2> QED BY <1>1, <2>3, <2>4
  <1> QED BY <1>1, <1>4 DEF TraceInv

LEMMA TraceStepKeeps ==
  ASSUME MachinesFit, TraceInv, [TraceNext]_allVars
  PROVE  TraceInv'
  <1>1. CASE Begin /\ TraceBegin
    BY <1>1, TraceBeginKeeps
  <1>2. ASSUME NEW input \in Elements, Cycle(input), TraceCycle(input) PROVE TraceInv'
    BY <1>2, TraceCycleKeeps
  <1>3. CASE End /\ UNCHANGED traceVars
    <2>1. /\ status = "running" /\ status' = "done" /\ M' = M
          /\ machine' = machine /\ stateBits' = stateBits
          /\ traceBits' = traceBits /\ traceStatus' = traceStatus
      BY <1>3 DEF End, traceVars, M
    <2>2. BenchInv'
      BY <2>1 DEF TraceInv, BenchInv
    <2>3. ScalarState' = ScalarState
      BY <2>1 DEF ScalarState
    <2> QED BY <2>1, <2>2, <2>3 DEF TraceInv, TracerKeepsUp
  <1>4. CASE UNCHANGED allVars
    BY <1>4 DEF allVars, vars, traceVars, TraceInv, BenchInv, ScalarState, TracerKeepsUp, M
  <1> QED BY <1>1, <1>2, <1>3, <1>4 DEF TraceNext

LEMMA TraceAlways == ASSUME MachinesFit PROVE TraceSpec => []TraceInv
  <1>1. TraceInit => TraceInv
    BY InitBench DEF TraceInit, TraceInv, TracerKeepsUp, Init
  <1>2. TraceInv /\ [TraceNext]_allVars => TraceInv'
    BY TraceStepKeeps
  <1> QED BY <1>1, <1>2, PTL DEF TraceSpec

\* The tracer can run what the testbench can and threads the same state, for
\* machines without an array among their state.
THEOREM TracerFollows == ASSUME MachinesFit PROVE TraceSpec => []ScalarTraceRuns
  <1>1. TraceInv => ScalarTraceRuns
    BY DEF TraceInv, ScalarTraceRuns, TracerKeepsUp, TraceRunsToo
  <1> QED BY <1>1, TraceAlways, PTL

---------------------------------------------------------------------------
(* What the tracer dumps *)

\* No wire of the machine is an array, and none is empty: for an empty wire
\* render_wire_value writes a digit all the same.
ScalarWires ==
  \A w \in Wires(M.graph) : ~IsArray(M.graph.wires[w]) /\ Width(M.graph.wires[w]) # 0

LEMMA RenderReverses ==
  ASSUME NEW n \in Nat \ {0}, NEW v, IsList(v, n)
  PROVE  IsList(Render(v), n) /\ Len(Render(v)) = n /\ Reverse(Render(v)) = v
  <1> DEFINE r == Render(v)
  <1>1. Len(v) = n
    BY ListIsSeq
  <1>2. r = [i \in 1..n |-> v[(n - i) + 1]]
    BY <1>1 DEF Render, Reverse
  <1>3. IsList(r, n)
    BY <1>2 DEF IsList
  <1>4. Len(r) = n
    <2> HIDE DEF r
    <2> QED BY <1>3, ListIsSeq
  <1>5. \A i \in 1..n : (n - i) + 1 \in 1..n /\ (n - ((n - i) + 1)) + 1 = i
    OBVIOUS
  <1>6. \A i \in 1..n : r[(n - i) + 1] = v[i]
    BY <1>2, <1>5
  <1> HIDE DEF r
  <1>7. Reverse(r) = [i \in 1..n |-> r[(n - i) + 1]]
    BY <1>4 DEF Reverse
  <1>8. Reverse(r) = [i \in 1..n |-> v[i]]
    BY <1>6, <1>7
  <1> QED BY <1>3, <1>4, <1>8 DEF r, IsList

\* The frame of an environment that fits a machine of scalar wires.
LEMMA FrameFits ==
  ASSUME WellFormed(M), ScalarWires, NEW env, EnvFits(M, Len(M.graph.instrs) + 1, env),
         NEW w \in Wires(M.graph)
  PROVE  /\ w \in DOMAIN env => Reverse(Frame(M.graph, env)[w]) = env[w]
         /\ Frame(M.graph, env)[w] # Unknown =>
              Len(Frame(M.graph, env)[w]) = DeclaredWidth(M.graph, w)
  <1> DEFINE g == M.graph
             n == WireStorage(g, w)
             x == Frame(g, env)[w]
  <1>1. n = DeclaredWidth(g, w) /\ n \in Nat \ {0}
    <2>1. TypeFits(g.wires[w])
      BY DEF WellFormed, GraphFits
    <2>2. n = Width(g.wires[w])
      BY DEF ScalarWires, WireStorage, StorageBits
    <2> QED BY <2>1, <2>2 DEF ScalarWires, TypeFits, DeclaredWidth
  <1>2. x = IF w \in DOMAIN env THEN Render(env[w]) ELSE Unknown
    BY DEF Frame
  <1>3. w \in DOMAIN env => IsList(env[w], n)
    BY DEF EnvFits
  <1> HIDE DEF g, n, x
  <1>4. w \in DOMAIN env => Reverse(x) = env[w] /\ Len(x) = n
    BY <1>1, <1>2, <1>3, RenderReverses
  <1>5. x # Unknown => Len(x) = n
    BY <1>2, <1>4
  <1> QED BY <1>1, <1>4, <1>5 DEF g, x

LEMMA ScalarIsScalar == ASSUME WellFormed(M), ScalarWires PROVE ScalarState /\ ScalarEnds(M)
  <1> DEFINE ws == StateIn(M)
             S == Wires(M.graph)
  <1>1. ws \in Seq(S)
    BY MachineEnds DEF Halves
  <1> HIDE DEF ws, S
  <1>2. \A k \in 1..Len(ws) : ws[k] \in S
    BY <1>1, ElementOfSeq
  <1> QED BY <1>2 DEF ScalarState, ScalarEnds, ScalarWires, ws, S

\* The tracer's step on an input that fits, in a state it can reach.
LEMMA ReachedTraces ==
  ASSUME MachinesFit, TraceInv, ScalarWires, traceStatus = "running",
         NEW input \in BitSeq(Total(InputWidths(M)))
  PROVE  /\ WellFormed(M) /\ status \in {"running", "done"} /\ traceBits = stateBits
         /\ IsList(stateBits, Total(StateWidths(M))) /\ IsList(input, Total(InputWidths(M)))
         /\ Traces(M, traceBits, input, TraceStep(M, traceBits, input))
         /\ EnvFits(M, Len(M.graph.instrs) + 1, EnvAfter(M, traceBits, input))
  <1>1. WellFormed(M)
    BY DEF MachinesFit, M, TraceInv, BenchInv
  <1>2. ScalarEnds(M) /\ TracerKeepsUp
    BY <1>1, ScalarIsScalar DEF TraceInv
  <1>3. status \in {"running", "done"}
    BY <1>2 DEF TracerKeepsUp, TraceInv, BenchInv
  <1>4. traceBits = stateBits /\ IsList(traceBits, Total(StateWidths(M)))
    BY <1>2, <1>3 DEF TracerKeepsUp
  <1>5. IsList(input, Total(InputWidths(M)))
    BY DEF BitSeq, IsList
  <1>6. Traces(M, traceBits, input, TraceStep(M, traceBits, input))
    BY <1>1, <1>2, <1>4, <1>5, StepTraces
  <1>7. EnvFits(M, Len(M.graph.instrs) + 1, EnvAfter(M, traceBits, input))
    BY <1>1, <1>4, <1>5, EnvAfterFits
  <1> QED BY <1>1, <1>3, <1>4, <1>5, <1>6, <1>7

\* A waveform shows the run: read back from the frame of any cycle, the output
\* wires are the testbench's sample of that cycle.
THEOREM FramesAreSamples ==
  ASSUME MachinesFit PROVE TraceSpec => [](ScalarWires => FramesShowSamples)
  <1>1. ASSUME TraceInv, ScalarWires, status = "running", traceStatus = "running",
               NEW input \in BitSeq(Total(InputWidths(M)))
        PROVE  FlattenSeq([j \in DOMAIN DataOut(M) |->
                             Reverse(TraceStep(M, traceBits, input).val.frame[DataOut(M)[j]])])
                 = RunCycle(M, stateBits, input).val.sample
    <2> DEFINE env == EnvAfter(M, traceBits, input)
               t == TraceStep(M, traceBits, input)
               r == RunCycle(M, stateBits, input)
               ws == DataOut(M)
               g == M.graph
    <2>1. /\ WellFormed(M) /\ traceBits = stateBits
          /\ IsList(stateBits, Total(StateWidths(M))) /\ IsList(input, Total(InputWidths(M)))
          /\ Traces(M, traceBits, input, t)
          /\ EnvFits(M, Len(M.graph.instrs) + 1, env)
      BY <1>1, ReachedTraces
    <2>2. Returns(M, stateBits, input, r)
      BY <2>1, CycleReturns
    <2>3. r.val.sample = FlattenSeq(ReadBack(env, ws)) /\ t.val.frame = Frame(g, env)
      BY <2>1, <2>2 DEF Returns, Traces
    <2> HIDE DEF env, t, r
    <2>4. ws \in Seq(Wires(g)) /\ Range(ws) \subseteq Range(M.outputs) /\ DOMAIN ws = 1..Len(ws)
      BY <2>1, DataOutShape
    <2>5. ReadsAll(M, env, ws, ReadAll(env, ws))
      BY <2>1, <2>4, ReadsGive
    <2>6. ASSUME NEW j \in 1..Len(ws) PROVE Reverse(t.val.frame[ws[j]]) = env[ws[j]]
      <3> DEFINE w == ws[j]
      <3>1. w \in Wires(g)
        BY <2>4, ElementOfSeq
      <3>2. w \in DOMAIN env
        BY <2>5 DEF ReadsAll
      <3> HIDE DEF w, ws
      <3>3. Reverse(Frame(g, env)[w]) = env[w]
        BY <1>1, <2>1, <3>1, <3>2, FrameFits
      <3> QED BY <2>3, <3>3 DEF w
    <2>7. [j \in DOMAIN ws |-> Reverse(t.val.frame[ws[j]])] = ReadBack(env, ws)
      BY <2>4, <2>6 DEF ReadBack
    <2> HIDE DEF ws
    <2> QED BY <2>3, <2>7 DEF t, r, ws
  <1>2. TraceInv => (ScalarWires => FramesShowSamples)
    BY <1>1 DEF FramesShowSamples
  <1> QED BY <1>2, TraceAlways, PTL

\* The declarations in the header fit: every value dumped has the declared
\* number of digits.
THEOREM HeaderFitsFrames ==
  ASSUME MachinesFit PROVE TraceSpec => [](ScalarWires => FramesFitHeader)
  <1>1. ASSUME TraceInv, ScalarWires, traceStatus = "running",
               NEW input \in BitSeq(Total(InputWidths(M))), NEW w \in Wires(M.graph)
        PROVE  TraceStep(M, traceBits, input).val.frame[w] # Unknown =>
                 Len(TraceStep(M, traceBits, input).val.frame[w]) = DeclaredWidth(M.graph, w)
    <2> DEFINE env == EnvAfter(M, traceBits, input)
               t == TraceStep(M, traceBits, input)
    <2>1. WellFormed(M) /\ Traces(M, traceBits, input, t) /\ EnvFits(M, Len(M.graph.instrs) + 1, env)
      BY <1>1, ReachedTraces
    <2>2. t.val.frame = Frame(M.graph, env)
      BY <2>1 DEF Traces
    <2> HIDE DEF env, t
    <2>3. Frame(M.graph, env)[w] # Unknown => Len(Frame(M.graph, env)[w]) = DeclaredWidth(M.graph, w)
      BY <1>1, <2>1, FrameFits
    <2> QED BY <2>2, <2>3 DEF t
  <1>2. TraceInv => (ScalarWires => FramesFitHeader)
    BY <1>1 DEF FramesFitHeader
  <1> QED BY <1>2, TraceAlways, PTL

---------------------------------------------------------------------------
(***************************************************************************)
(* Which machines are well formed.  Those of the library are, at every     *)
(* width; so are an arrow of the machine's type and an arrow lifted; and   *)
(* series, parallel and feedback compose well-formed machines, of fitting  *)
(* widths, to well-formed ones.  These theorems discharge what the ones    *)
(* above assume, for whatever is assembled of library machines.            *)
(***************************************************************************)

(* Machines composed of well-formed machines *)

\* What merging does to the wires' types.
LEMMA MergedStorage ==
  ASSUME NEW f, NEW g, ShapedGraph(f), ShapedGraph(g),
         NEW from \in Seq(Wires(g)), NEW to \in Seq(Wires(f)), Len(from) = Len(to),
         NEW h, h = MergeGraphs(f, g, from, to)
  PROVE  /\ \A w \in Wires(f) : w \in Wires(h) /\ h.wires[w] = f.wires[w]
         /\ \A w \in Wires(g) : w + WireCount(f) \in Wires(h)
                                /\ h.wires[w + WireCount(f)] = g.wires[w]
         /\ \A w \in Wires(h) : \/ w \in Wires(f)
                                \/ \E v \in Wires(g) : w = v + WireCount(f)
  <1> DEFINE N == WireCount(f)
             M1 == WireCount(g)
             fw == f.wires
             gw == g.wires
             hw == h.wires
  <1>1. hw = fw \o gw
    BY DEF MergeGraphs
  <1>2. N \in Nat /\ M1 \in Nat /\ WireCount(h) = N + M1
    <2>1. IsMerge(h, f, g, from, to)
      BY Merged
    <2> QED BY <2>1 DEF IsMerge
  <1>3. fw \in Seq(Range(fw)) /\ gw \in Seq(Range(gw)) /\ Len(fw) = N /\ Len(gw) = M1
    BY DEF ShapedGraph, WireCount
  <1> HIDE DEF fw, gw, hw
  <1>4. IsConcat(hw, fw, gw)
    BY <1>1, <1>3, ConcatSplits
  <1>5. /\ \A w \in 1..N : hw[w] = fw[w]
        /\ \A w \in 1..M1 : hw[N + w] = gw[w]
    BY <1>3, <1>4 DEF IsConcat
  <1>6. Wires(f) = 1..N /\ Wires(g) = 1..M1 /\ Wires(h) = 1..(N + M1)
    BY <1>2 DEF Wires
  <1> HIDE DEF N, M1
  <1>7. ASSUME NEW w \in 1..N PROVE w \in 1..(N + M1) /\ hw[w] = fw[w]
    BY <1>2, <1>5
  <1>8. ASSUME NEW w \in 1..M1 PROVE w + N \in 1..(N + M1) /\ hw[w + N] = gw[w]
    <2>1. w + N = N + w /\ w + N \in 1..(N + M1)
      BY <1>2
    <2> QED BY <2>1, <1>5
  <1>9. ASSUME NEW w \in 1..(N + M1) PROVE w \in 1..N \/ \E v \in 1..M1 : w = v + N
    <2>1. CASE w <= N
      BY <2>1, <1>2
    <2>2. CASE ~(w <= N)
      <3>1. w - N \in 1..M1 /\ w = (w - N) + N
        BY <2>2, <1>2
      <3> QED BY <3>1
    <2> QED BY <2>1, <2>2
  <1> QED BY <1>6, <1>7, <1>8, <1>9 DEF N, fw, gw, hw

\* A list of wires has the same widths in both graphs.
SameWidths(h, hs, g, gs) ==
  /\ Widths(h, hs) = Widths(g, gs)
  /\ StorageWidths(h, hs) = StorageWidths(g, gs)

LEMMA KeepsWidths ==
  ASSUME NEW h, NEW hs, NEW g, NEW gs \in Seq(Wires(g)), DOMAIN hs = DOMAIN gs,
         \A k \in DOMAIN gs : hs[k] \in Wires(h) /\ h.wires[hs[k]] = g.wires[gs[k]]
  PROVE  SameWidths(h, hs, g, gs)
  <1>1. ASSUME NEW k \in DOMAIN gs
        PROVE  WireWidth(h, hs[k]) = WireWidth(g, gs[k]) /\ WireStorage(h, hs[k]) = WireStorage(g, gs[k])
    <2>1. gs[k] \in Wires(g)
      BY ElementOfSeq, LenProperties
    <2> QED BY <2>1 DEF WireWidth, WireStorage
  <1> QED BY <1>1 DEF SameWidths, Widths, StorageWidths

\* m has the graphs of f and g merged, with the inputs from of g plugged into
\* wires of f of the same storage; it lists what is left of the inputs, and
\* outputs among those of both that the plugging did not rename.
Joined(m, f, g, from, to) ==
  LET N == WireCount(f.graph)
  IN  /\ from \in Seq(Wires(g.graph)) /\ to \in Seq(Wires(f.graph)) /\ Len(from) = Len(to)
      /\ Range(to) \subseteq Range(f.outputs)
      /\ \A k \in 1..Len(from) : WireStorage(g.graph, from[k]) = WireStorage(f.graph, to[k])
      /\ m.graph = MergeGraphs(f.graph, g.graph, from, to)
      /\ m.inputs \in Seq(Wires(m.graph)) /\ m.outputs \in Seq(Wires(m.graph))
      /\ Range(f.inputs) \subseteq Range(m.inputs)
      /\ {w + N : w \in Range(g.inputs) \ Range(from)} \subseteq Range(m.inputs)
      /\ Range(m.outputs) \subseteq Range(f.outputs)
                             \cup {w + N : w \in Range(g.outputs) \ Range(from)}

\* A wire plugged keeps its storage.
LEMMA PluggedStorage ==
  ASSUME NEW f, NEW g, ShapedGraph(f), ShapedGraph(g),
         NEW from \in Seq(Wires(g)), NEW to \in Seq(Wires(f)), Len(from) = Len(to),
         \A k \in 1..Len(from) : WireStorage(g, from[k]) = WireStorage(f, to[k]),
         NEW h, h = MergeGraphs(f, g, from, to), NEW w \in Wires(g)
  PROVE  WireStorage(h, Plug(from, to, WireCount(f), w)) = WireStorage(g, w)
  <1> DEFINE N == WireCount(f)
             n == Len(from)
             at == {k \in 1..n : from[k] = w}
  <1>1. Plug(from, to, N, w) = IF at = {} THEN w + N ELSE to[Min(at)]
    BY DEF Plug
  <1>2. n \in Nat
    BY LenProperties
  <1>3. CASE at = {}
    <2>1. Plug(from, to, N, w) = w + N
      BY <1>1, <1>3
    <2>2. w + N \in Wires(h) /\ h.wires[w + N] = g.wires[w]
      BY MergedStorage
    <2> QED BY <2>1, <2>2 DEF WireStorage
  <1>4. CASE at # {}
    <2>1. Min(at) \in 1..n /\ from[Min(at)] = w
      <3> HIDE DEF n
      <3>1. n \in Int /\ at \in SUBSET (1..n)
        BY <1>2
      <3>2. Min(at) \in at
        <4> HIDE DEF at
        <4> QED BY <3>1, <1>4, LeastIsMember
      <3> QED BY <3>2
    <2>2. Plug(from, to, N, w) = to[Min(at)]
      BY <1>1, <1>4
    <2> HIDE DEF at
    <2>3. to[Min(at)] \in Wires(f) /\ WireStorage(g, w) = WireStorage(f, to[Min(at)])
      BY <2>1, ElementOfSeq
    <2>4. to[Min(at)] \in Wires(h) /\ h.wires[to[Min(at)]] = f.wires[to[Min(at)]]
      BY <2>3, MergedStorage
    <2>5. WireStorage(h, to[Min(at)]) = WireStorage(f, to[Min(at)])
      BY <2>3, <2>4 DEF WireStorage
    <2> QED BY <2>2, <2>3, <2>5
  <1> QED BY <1>3, <1>4

\* The merge of two netlists that fit is one.
LEMMA JoinedFits ==
  ASSUME NEW f, NEW g, NEW m, NEW from, NEW to,
         GraphFits(f), GraphFits(g), Joined(m, f, g, from, to)
  PROVE  GraphFits(m)
  <1> DEFINE N == WireCount(f.graph)
             K == WireCount(g.graph)
             fi == f.graph.instrs
             gi == g.graph.instrs
             ai == m.graph.instrs
             nf == Len(fi)
             ng == Len(gi)
             P(w) == Plug(from, to, N, w)
  <1>1. ShapedGraph(f.graph) /\ ShapedGraph(g.graph)
    BY DEF GraphFits, Shaped, ShapedGraph
  <1>2. /\ from \in Seq(Wires(g.graph)) /\ to \in Seq(Wires(f.graph)) /\ Len(from) = Len(to)
        /\ m.graph = MergeGraphs(f.graph, g.graph, from, to)
    BY DEF Joined
  <1>3. IsMerge(m.graph, f.graph, g.graph, from, to)
    BY <1>1, <1>2, Merged
  <1>4. /\ N \in Nat /\ K \in Nat /\ nf \in Nat /\ ng \in Nat
        /\ WireCount(m.graph) = N + K
        /\ DOMAIN fi = 1..nf /\ DOMAIN gi = 1..ng /\ DOMAIN ai = 1..(nf + ng)
        /\ Len(ai) = nf + ng
        /\ \A i \in 1..nf : ai[i] = fi[i]
        /\ \A j \in 1..ng : /\ ai[nf + j].op = gi[j].op
                            /\ ai[nf + j].out = P(gi[j].out)
                            /\ ai[nf + j].ins = PlugAll(from, to, N, gi[j].ins)
        /\ ShapedGraph(m.graph)
    BY <1>3 DEF IsMerge
  <1>5. from \in Seq(1..K) /\ to \in Seq(1..N)
    BY <1>2 DEF Wires
  <1>6. ASSUME NEW w \in 1..K
        PROVE  /\ w \in Range(from) => P(w) \in Range(to)
               /\ w \notin Range(from) => P(w) = w + N
    BY <1>2, <1>4, <1>5, PlugWire
  <1>7. /\ \A i \in 1..nf : fi[i].ins \in Seq(1..N) /\ fi[i].out \in 1..N
        /\ \A j \in 1..ng : gi[j].ins \in Seq(1..K) /\ gi[j].out \in 1..K
    BY <1>1, <1>4 DEF ShapedGraph, Wires
  <1>8. Range(g.inputs) \subseteq 1..K /\ Range(g.outputs) \subseteq 1..K
    BY RangeOfSeq DEF GraphFits, Shaped, Wires
  <1>9. /\ \A i \in 1..nf : Range(fi[i].ins) \subseteq Known(f, i)
        /\ \A i \in 1..ng : Range(gi[i].ins) \subseteq Known(g, i)
        /\ Range(f.outputs) \subseteq Known(f, nf + 1)
        /\ Range(g.outputs) \subseteq Known(g, ng + 1)
    BY <1>4 DEF GraphFits, ReadsInOrder
  <1>10. /\ Range(to) \subseteq Range(f.outputs)
         /\ Range(f.inputs) \subseteq Range(m.inputs)
         /\ {w + N : w \in Range(g.inputs) \ Range(from)} \subseteq Range(m.inputs)
         /\ Range(m.outputs) \subseteq Range(f.outputs)
                              \cup {w + N : w \in Range(g.outputs) \ Range(from)}
    BY DEF Joined
  <1> HIDE DEF N, K, fi, gi, ai, nf, ng, P
  <1>11. ASSUME NEW i \in 1..(nf + 1) PROVE Known(f, i) \subseteq Known(m, i)
    <2>1. \A k \in 1..(i - 1) : k \in 1..nf /\ ai[k] = fi[k]
      BY <1>4
    <2>2. {fi[k].out : k \in 1..(i - 1)} = {ai[k].out : k \in 1..(i - 1)}
      BY <2>1
    <2> QED BY <2>2, <1>10 DEF Known, fi, ai
  <1>12. ASSUME NEW j \in 1..(ng + 1) PROVE Range(f.outputs) \subseteq Known(m, nf + j)
    <2>1. nf + 1 \in 1..(nf + 1) /\ 1..((nf + 1) - 1) \subseteq 1..((nf + j) - 1)
      BY <1>4
    <2>2. Known(m, nf + 1) \subseteq Known(m, nf + j)
      BY <2>1 DEF Known
    <2> QED BY <2>1, <2>2, <1>9, <1>11
  <1>13. ASSUME NEW j \in 1..(ng + 1), NEW w \in Known(g, j)
         PROVE  w \in 1..K /\ P(w) \in Known(m, nf + j)
    <2>1. CASE w \in 1..K /\ w \in Range(from)
      <3>1. P(w) \in Range(to)
        BY <2>1, <1>6
      <3> QED BY <2>1, <3>1, <1>10, <1>12
    <2>2. CASE w \notin Range(from) /\ w \in Range(g.inputs)
      <3>1. w \in 1..K /\ P(w) = w + N
        BY <2>2, <1>6, <1>8
      <3>2. P(w) \in Range(m.inputs)
        BY <3>1, <2>2, <1>10
      <3> QED BY <3>1, <3>2 DEF Known
    <2>3. CASE w \notin Range(g.inputs)
      <3>1. PICK k \in 1..(j - 1) : w = gi[k].out
        BY <2>3 DEF Known, gi
      <3>2. k \in 1..ng /\ nf + k \in 1..((nf + j) - 1)
        BY <1>4
      <3>3. w \in 1..K /\ P(w) = ai[nf + k].out
        BY <3>1, <3>2, <1>4, <1>7
      <3>4. ai[nf + k].out \in {ai[l].out : l \in 1..((nf + j) - 1)}
        BY <3>2
      <3> QED BY <3>3, <3>4 DEF Known, ai
    <2> QED BY <2>1, <2>2, <2>3, <1>8
  <1>14. Shaped(m)
    BY <1>4 DEF Joined, Shaped, ShapedGraph
  <1>15. ReadsInOrder(m)
    <2>1. ASSUME NEW i \in 1..(nf + ng) PROVE Range(ai[i].ins) \subseteq Known(m, i)
      <3>1. CASE i <= nf
        <4>1. i \in 1..nf /\ i \in 1..(nf + 1)
          BY <3>1, <1>4
        <4> QED BY <4>1, <1>4, <1>9, <1>11
      <3>2. CASE ~(i <= nf)
        <4>1. PICK j \in 1..ng : i = nf + j
          BY <3>2, <1>4, InSecondPart
        <4>2. j \in 1..(ng + 1)
          BY <1>4
        <4>3. Range(ai[i].ins) \subseteq {P(w) : w \in Range(gi[j].ins)}
          <5> DEFINE ws == gi[j].ins
          <5>1. ws \in Seq(1..K) /\ ai[i].ins = PlugAll(from, to, N, ws)
            BY <4>1, <1>4, <1>7
          <5> HIDE DEF ws
          <5>2. \A x \in Range(PlugAll(from, to, N, ws)) :
                  \E w \in Range(ws) : x = Plug(from, to, N, w)
            BY <5>1, <1>2, <1>4, <1>5, PlugList
          <5> QED BY <5>1, <5>2 DEF P, ws
        <4> QED BY <4>1, <4>2, <4>3, <1>9, <1>13
      <3> QED BY <3>1, <3>2
    <2>2. Range(m.outputs) \subseteq Known(m, nf + ng + 1)
      <3>1. ng + 1 \in 1..(ng + 1) /\ nf + (ng + 1) = nf + ng + 1
        BY <1>4
      <3>2. Range(f.outputs) \subseteq Known(m, nf + ng + 1)
        BY <3>1, <1>12
      <3>3. \A w \in Range(g.outputs) \ Range(from) : w + N \in Known(m, nf + ng + 1)
        BY <3>1, <1>6, <1>8, <1>9, <1>13
      <3> QED BY <3>2, <3>3, <1>10
    <2> QED BY <2>1, <2>2, <1>4 DEF ReadsInOrder, ai
  <1>16. \A w \in Wires(m.graph) : TypeFits(m.graph.wires[w])
    <2>1. /\ \A w \in Wires(f.graph) : TypeFits(f.graph.wires[w])
          /\ \A w \in Wires(g.graph) : TypeFits(g.graph.wires[w])
      BY DEF GraphFits
    <2>2. /\ \A w \in Wires(f.graph) : m.graph.wires[w] = f.graph.wires[w]
          /\ \A w \in Wires(g.graph) : m.graph.wires[w + N] = g.graph.wires[w]
          /\ \A w \in Wires(m.graph) : \/ w \in Wires(f.graph)
                                       \/ \E v \in Wires(g.graph) : w = v + N
      BY <1>1, <1>2, MergedStorage DEF N
    <2> QED BY <2>1, <2>2
  <1>17. ASSUME NEW i \in 1..(nf + ng)
         PROVE  OpFits(ai[i].op, StorageWidths(m.graph, ai[i].ins), WireStorage(m.graph, ai[i].out))
    <2>1. CASE i <= nf
      <3>1. i \in 1..nf /\ ai[i] = fi[i]
        BY <2>1, <1>4
      <3>2. OpFits(fi[i].op, StorageWidths(f.graph, fi[i].ins), WireStorage(f.graph, fi[i].out))
        BY <3>1, <1>4 DEF GraphFits, fi
      <3>3. ASSUME NEW w \in 1..N PROVE WireStorage(m.graph, w) = WireStorage(f.graph, w)
        <4>1. w \in Wires(f.graph)
          BY DEF N, Wires
        <4>2. w \in Wires(m.graph) /\ m.graph.wires[w] = f.graph.wires[w]
          BY <4>1, <1>1, <1>2, MergedStorage
        <4> QED BY <4>1, <4>2 DEF WireStorage
      <3>4. \A k \in DOMAIN fi[i].ins : fi[i].ins[k] \in 1..N
        BY <3>1, <1>7, ElementOfSeq, LenProperties
      <3>5. StorageWidths(m.graph, fi[i].ins) = StorageWidths(f.graph, fi[i].ins)
        BY <3>3, <3>4 DEF StorageWidths
      <3> QED BY <3>1, <3>2, <3>3, <3>5, <1>7
    <2>2. CASE ~(i <= nf)
      <3>1. PICK j \in 1..ng : i = nf + j
        BY <2>2, <1>4, InSecondPart
      <3> DEFINE ws == gi[j].ins
                 ps == PlugAll(from, to, N, ws)
      <3>2. OpFits(gi[j].op, StorageWidths(g.graph, ws), WireStorage(g.graph, gi[j].out))
        BY <1>4 DEF GraphFits, gi
      <3>3. ASSUME NEW w \in 1..K PROVE WireStorage(m.graph, P(w)) = WireStorage(g.graph, w)
        <4>1. w \in Wires(g.graph)
          BY DEF K, Wires
        <4>2. \A k \in 1..Len(from) : WireStorage(g.graph, from[k]) = WireStorage(f.graph, to[k])
          BY DEF Joined
        <4> QED BY <4>1, <4>2, <1>1, <1>2, PluggedStorage DEF P, N
      <3>4. ws \in Seq(1..K) /\ \A k \in DOMAIN ws : ws[k] \in 1..K
        BY <1>7, ElementOfSeq, LenProperties
      <3>5. StorageWidths(m.graph, ps) = StorageWidths(g.graph, ws)
        <4>1. DOMAIN ps = DOMAIN ws /\ \A k \in DOMAIN ws : ps[k] = P(ws[k])
          BY DEF PlugAll, P
        <4> HIDE DEF ps, ws
        <4> QED BY <4>1, <3>3, <3>4 DEF StorageWidths
      <3>6. ai[i].op = gi[j].op /\ ai[i].out = P(gi[j].out) /\ ai[i].ins = ps
        BY <3>1, <1>4
      <3>7. WireStorage(m.graph, ai[i].out) = WireStorage(g.graph, gi[j].out)
        BY <3>3, <3>6, <1>7
      <3> HIDE DEF ps
      <3> QED BY <3>2, <3>5, <3>6, <3>7
    <2> QED BY <2>1, <2>2
  <1> QED BY <1>4, <1>14, <1>15, <1>16, <1>17 DEF GraphFits, ai

---------------------------------------------------------------------------
(* The ends of a composed machine *)

\* Cutting what was joined.
IsCut(S, a, b, s) ==
  /\ s \in Seq(S) /\ Len(s) = Len(a) + Len(b)
  /\ SubSeq(s, 1, Len(a)) = a /\ SubSeq(s, Len(a) + 1, Len(s)) = b
  /\ Range(s) = Range(a) \cup Range(b)

LEMMA CutConcat ==
  ASSUME NEW S, NEW a \in Seq(S), NEW b \in Seq(S)
  PROVE  IsCut(S, a, b, a \o b)
  <1> DEFINE s == a \o b
             n == Len(a)
             c == SubSeq(s, 1, n)
             d == SubSeq(s, n + 1, Len(s))
  <1>1. /\ s \in Seq(S) /\ n \in Nat /\ Len(b) \in Nat /\ Len(s) = n + Len(b)
        /\ IsList(a, n) /\ IsList(b, Len(b))
    BY SeqIsList, ConcatProperties
  <1>2. /\ \A i \in 1..n : s[i] = a[i]
        /\ \A i \in 1..Len(b) : s[n + i] = b[i]
        /\ Range(s) = Range(a) \cup Range(b)
    BY ConcatOfAny
  <1> HIDE DEF s
  <1>3. Halves(S, s, n, c, d)
    <2>1. n \in 0..Len(s)
      BY <1>1
    <2> HIDE DEF n
    <2> QED BY <2>1, <1>1, SplitSeq
  <1> HIDE DEF c, d, n
  <1>4. /\ c \in Seq(S) /\ Len(c) = n /\ \A i \in 1..n : c[i] = s[i]
        /\ d \in Seq(S) /\ Len(d) = Len(s) - n /\ \A i \in 1..(Len(s) - n) : d[i] = s[n + i]
    BY <1>3 DEF Halves
  <1>5. Len(s) - n = Len(b)
    BY <1>1
  <1>6. IsList(c, n) /\ IsList(d, Len(b))
    BY <1>4, <1>5, SeqIsList
  <1>7. c = a
    BY <1>1, <1>2, <1>4, <1>6, ListsEqual
  <1>8. d = b
    BY <1>1, <1>2, <1>4, <1>5, <1>6, ListsEqual
  <1> QED BY <1>1, <1>2, <1>7, <1>8 DEF IsCut, s, c, d, n

LEMMA TotalConcat ==
  ASSUME NEW a \in Seq(Nat), NEW b \in Seq(Nat)
  PROVE  a \o b \in Seq(Nat) /\ Total(a \o b) = Total(a) + Total(b)
  <1> DEFINE s == a \o b
             n == Len(a)
             p == Len(b)
  <1>1. /\ s \in Seq(Nat) /\ Len(s) = n + p /\ SubSeq(s, 1, n) = a
        /\ n \in Nat /\ p \in Nat
    BY CutConcat, LenProperties DEF IsCut
  <1>2. \A i \in 1..p : s[n + i] = b[i]
    BY ConcatOfAny
  <1> HIDE DEF s, n, p
  <1>3. PICK t : Running(s, t)
    BY <1>1, RunningTotals
  <1>4. PICK u : Running(b, u)
    BY RunningTotals
  <1>5. /\ Total(s) = t[n + p]
        /\ \A k \in 0..(n + p) : t[k] \in Nat
        /\ \A k \in 1..(n + p) : t[k] = t[k - 1] + s[k]
        /\ \A k \in 0..(n + p) : Total(SubSeq(s, 1, k)) = t[k]
    BY <1>1, <1>3 DEF Running
  <1>6. /\ u[0] = 0 /\ Total(b) = u[p]
        /\ \A k \in 0..p : u[k] \in Nat
        /\ \A k \in 1..p : u[k] = u[k - 1] + b[k]
        /\ \A k \in 1..p : b[k] \in Nat
    BY <1>4 DEF Running, p
  <1>7. t[n] = Total(a) /\ t[n] \in Nat
    <2>1. n \in 0..(n + p)
      BY <1>1
    <2> QED BY <2>1, <1>1, <1>5
  <1> DEFINE Q == {k \in 0..p : t[n + k] = t[n] + u[k]}
  <1>8. 0 \in Q
    BY <1>1, <1>6, <1>7
  <1>9. ASSUME NEW k \in 0..(p - 1), k \in Q PROVE k + 1 \in Q
    <2>1. /\ k + 1 \in 1..p /\ k + 1 \in 0..p /\ k \in 0..p /\ (k + 1) - 1 = k
          /\ n + (k + 1) \in 1..(n + p) /\ (n + (k + 1)) - 1 = n + k
      BY <1>1
    <2>2. t[n + (k + 1)] = t[n + k] + s[n + (k + 1)] /\ s[n + (k + 1)] = b[k + 1]
      BY <2>1, <1>2, <1>5
    <2>3. u[k + 1] = u[k] + b[k + 1] /\ t[n + k] = t[n] + u[k]
          /\ u[k] \in Nat /\ b[k + 1] \in Nat
      BY <2>1, <1>6, <1>9
    <2>4. t[n + (k + 1)] = t[n] + u[k + 1]
      <3> DEFINE x == b[k + 1]
                 y == u[k]
      <3>1. x \in Nat /\ y \in Nat /\ t[n + (k + 1)] = (t[n] + y) + x /\ u[k + 1] = y + x
        BY <2>2, <2>3
      <3> HIDE DEF x, y
      <3> QED BY <3>1, <1>7
    <2> QED BY <2>1, <2>4
  <1>10. \A k \in 0..p : k \in Q
    <2> HIDE DEF Q
    <2> QED BY <1>1, <1>8, <1>9, CountingUp
  <1>11. t[n + p] = t[n] + u[p]
    BY <1>1, <1>10
  <1> QED BY <1>1, <1>5, <1>6, <1>7, <1>11 DEF s

\* A list is known by its two halves.
LEMMA JoinIs ==
  ASSUME NEW n \in Nat, NEW a, IsList(a, n), NEW p \in Nat, NEW b, IsList(b, p),
         NEW s, IsJoin(a, n, b, p, s)
  PROVE  s = a \o b
  <1> DEFINE j == a \o b
  <1>1. IsJoin(a, n, b, p, j)
    BY ListsJoin
  <1> HIDE DEF j
  <1>2. /\ IsList(j, n + p)
        /\ \A i \in 1..n : j[i] = a[i]
        /\ \A i \in 1..p : j[n + i] = b[i]
        /\ IsList(s, n + p)
        /\ \A i \in 1..n : s[i] = a[i]
        /\ \A i \in 1..p : s[n + i] = b[i]
    BY <1>1 DEF IsJoin
  <1>3. ASSUME NEW i \in 1..(n + p) PROVE s[i] = j[i]
    <2>1. CASE i <= n
      <3>1. i \in 1..n
        BY <2>1
      <3> QED BY <3>1, <1>2
    <2>2. CASE ~(i <= n)
      <3>1. PICK k \in 1..p : i = n + k
        BY <2>2, InSecondPart
      <3> QED BY <3>1, <1>2
    <2> QED BY <2>1, <2>2
  <1>4. s = j
    BY <1>2, <1>3, ListsEqual
  <1> QED BY <1>4 DEF j

\* The widths of one list after another.
WidthsFollow(g, a, b) ==
  /\ Widths(g, a \o b) = Widths(g, a) \o Widths(g, b)
  /\ StorageWidths(g, a \o b) = StorageWidths(g, a) \o StorageWidths(g, b)

LEMMA WidthsConcat ==
  ASSUME NEW g, NEW S, NEW a \in Seq(S), NEW b \in Seq(S)
  PROVE  WidthsFollow(g, a, b)
  <1> DEFINE s == a \o b
             n == Len(a)
             p == Len(b)
  <1>1. /\ n \in Nat /\ p \in Nat /\ DOMAIN a = 1..n /\ DOMAIN b = 1..p /\ DOMAIN s = 1..(n + p)
        /\ \A i \in 1..n : s[i] = a[i]
        /\ \A i \in 1..p : s[n + i] = b[i]
    BY ConcatOfAny, LenProperties
  <1> HIDE DEF s, n, p
  <1>2. /\ \A i \in 1..n : i \in 1..(n + p)
        /\ \A i \in 1..p : n + i \in 1..(n + p)
    BY <1>1
  <1> DEFINE fa == Widths(g, a)
             fb == Widths(g, b)
             fs == Widths(g, s)
  <1>3. /\ IsList(fa, n) /\ IsList(fb, p) /\ IsList(fs, n + p)
        /\ \A i \in 1..n : fs[i] = fa[i]
        /\ \A i \in 1..p : fs[n + i] = fb[i]
    BY <1>1, <1>2 DEF Widths, IsList
  <1>4. fs = fa \o fb
    <2> HIDE DEF fa, fb, fs
    <2>1. IsJoin(fa, n, fb, p, fs)
      BY <1>3 DEF IsJoin
    <2> QED BY <2>1, <1>1, <1>3, JoinIs
  <1> DEFINE ga == StorageWidths(g, a)
             gb == StorageWidths(g, b)
             gs == StorageWidths(g, s)
  <1>5. /\ IsList(ga, n) /\ IsList(gb, p) /\ IsList(gs, n + p)
        /\ \A i \in 1..n : gs[i] = ga[i]
        /\ \A i \in 1..p : gs[n + i] = gb[i]
    BY <1>1, <1>2 DEF StorageWidths, IsList
  <1>6. gs = ga \o gb
    <2> HIDE DEF ga, gb, gs
    <2>1. IsJoin(ga, n, gb, p, gs)
      BY <1>5 DEF IsJoin
    <2> QED BY <2>1, <1>1, <1>5, JoinIs
  <1> QED BY <1>4, <1>6 DEF s, WidthsFollow

\* The ends of a machine put together from lists of wires.
Assembled(m, g, si, di, ns, do) ==
  /\ m.graph = g /\ m.sc = Len(si) /\ m.sc = Len(ns)
  /\ si \in Seq(Wires(g)) /\ di \in Seq(Wires(g)) /\ ns \in Seq(Wires(g)) /\ do \in Seq(Wires(g))
  /\ m.inputs = si \o di
  /\ m.outputs = ns \o do

\* They are read off again where they were put.
Dissected(m, g, si, di, ns, do) ==
  /\ StateIn(m) = si /\ DataIn(m) = di
  /\ NextState(m) = ns /\ DataOut(m) = do
  /\ m.inputs \in Seq(Wires(g)) /\ m.outputs \in Seq(Wires(g))
  /\ Range(m.inputs) = Range(si) \cup Range(di)
  /\ Range(m.outputs) = Range(ns) \cup Range(do)
  /\ m.sc \in 0..Len(m.inputs) /\ m.sc <= Len(m.outputs)

LEMMA EndsAssemble ==
  ASSUME NEW m, NEW g, NEW si, NEW di, NEW ns, NEW do, Assembled(m, g, si, di, ns, do)
  PROVE  Dissected(m, g, si, di, ns, do)
  <1> DEFINE ins == si \o di
             outs == ns \o do
  <1>1. m.inputs = ins /\ m.outputs = outs /\ m.sc = Len(si) /\ m.sc = Len(ns)
    BY DEF Assembled
  <1>2. IsCut(Wires(g), si, di, ins) /\ IsCut(Wires(g), ns, do, outs)
    BY CutConcat DEF Assembled
  <1> HIDE DEF ins, outs
  <1>3. Len(si) \in Nat /\ Len(ns) \in Nat /\ Len(di) \in Nat /\ Len(do) \in Nat
    BY LenProperties DEF Assembled
  <1>4. /\ ins \in Seq(Wires(g)) /\ Len(ins) = Len(si) + Len(di)
        /\ SubSeq(ins, 1, Len(si)) = si /\ SubSeq(ins, Len(si) + 1, Len(ins)) = di
        /\ outs \in Seq(Wires(g)) /\ Len(outs) = Len(ns) + Len(do)
        /\ SubSeq(outs, 1, Len(ns)) = ns /\ SubSeq(outs, Len(ns) + 1, Len(outs)) = do
        /\ Range(ins) = Range(si) \cup Range(di) /\ Range(outs) = Range(ns) \cup Range(do)
    BY <1>2 DEF IsCut
  <1>5. m.sc \in 0..Len(m.inputs) /\ m.sc <= Len(m.outputs)
    BY <1>1, <1>3, <1>4
  <1> QED BY <1>1, <1>4, <1>5 DEF Dissected, StateIn, DataIn, NextState, DataOut

\* A machine put together from a netlist that fits is well formed if the next
\* state is as wide as the state, no input is an array, and the initial bits
\* are one element for each state wire.
LEMMA AssembledFits ==
  ASSUME NEW m, NEW g, NEW si, NEW di, NEW ns, NEW do, Assembled(m, g, si, di, ns, do),
         GraphFits(m), m.init \in BitSeq(Total(Widths(g, si))),
         StorageWidths(g, ns) = StorageWidths(g, si),
         StorageWidths(g, di) = Widths(g, di)
  PROVE  WellFormed(m)
  <1>1. Dissected(m, g, si, di, ns, do)
    BY EndsAssemble
  <1>2. m.graph = g
    BY DEF Assembled
  <1> QED BY <1>1, <1>2 DEF Dissected, WellFormed, CompactWidths, StateWidths, InputWidths

\* And the other way round: the parts of a well-formed machine.
LEMMA MachineParts ==
  ASSUME NEW m, WellFormed(m)
  PROVE  /\ Assembled(m, m.graph, StateIn(m), DataIn(m), NextState(m), DataOut(m))
         /\ Dissected(m, m.graph, StateIn(m), DataIn(m), NextState(m), DataOut(m))
  <1> DEFINE g == m.graph
             si == StateIn(m)
             di == DataIn(m)
             ns == NextState(m)
             do == DataOut(m)
  <1>1. /\ m.inputs \in Seq(Wires(g)) /\ m.outputs \in Seq(Wires(g))
        /\ m.sc \in Nat /\ m.sc <= Len(m.inputs) /\ m.sc <= Len(m.outputs)
        /\ Len(m.inputs) \in Nat /\ Len(m.outputs) \in Nat
    BY MachineShape, MachineEnds DEF WellFormed
  <1>2. /\ Halves(Wires(g), m.inputs, m.sc, si, di)
        /\ Halves(Wires(g), m.outputs, m.sc, ns, do)
    BY MachineEnds
  <1> HIDE DEF si, di, ns, do, g
  <1>3. /\ si \in Seq(Wires(g)) /\ Len(si) = m.sc /\ di \in Seq(Wires(g))
        /\ Len(di) = Len(m.inputs) - m.sc
        /\ \A i \in 1..m.sc : m.inputs[i] = si[i]
        /\ \A i \in 1..Len(di) : m.inputs[m.sc + i] = di[i]
    BY <1>2 DEF Halves
  <1>4. /\ ns \in Seq(Wires(g)) /\ Len(ns) = m.sc /\ do \in Seq(Wires(g))
        /\ Len(do) = Len(m.outputs) - m.sc
        /\ \A i \in 1..m.sc : m.outputs[i] = ns[i]
        /\ \A i \in 1..Len(do) : m.outputs[m.sc + i] = do[i]
    BY <1>2 DEF Halves
  <1>5. m.inputs = si \o di
    <2>1. /\ Len(di) \in Nat /\ Len(m.inputs) = m.sc + Len(di)
          /\ IsList(si, m.sc) /\ IsList(di, Len(di)) /\ IsList(m.inputs, m.sc + Len(di))
      BY <1>1, <1>3, SeqIsList
    <2> DEFINE s == m.inputs
    <2>2. IsJoin(si, m.sc, di, Len(di), s)
      BY <2>1, <1>3 DEF IsJoin
    <2> HIDE DEF s
    <2>3. s = si \o di
      BY <2>1, <2>2, <1>1, JoinIs
    <2> QED BY <2>3 DEF s
  <1>6. m.outputs = ns \o do
    <2>1. /\ Len(do) \in Nat /\ Len(m.outputs) = m.sc + Len(do)
          /\ IsList(ns, m.sc) /\ IsList(do, Len(do)) /\ IsList(m.outputs, m.sc + Len(do))
      BY <1>1, <1>4, SeqIsList
    <2> DEFINE s == m.outputs
    <2>2. IsJoin(ns, m.sc, do, Len(do), s)
      BY <2>1, <1>4 DEF IsJoin
    <2> HIDE DEF s
    <2>3. s = ns \o do
      BY <2>1, <2>2, <1>1, JoinIs
    <2> QED BY <2>3 DEF s
  <1>7. Assembled(m, g, si, di, ns, do)
    BY <1>3, <1>4, <1>5, <1>6 DEF Assembled, g
  <1>8. Dissected(m, g, si, di, ns, do)
    BY <1>7, EndsAssemble
  <1> QED BY <1>7, <1>8 DEF g, si, di, ns, do

---------------------------------------------------------------------------
(* Composing machines *)

\* Lists of wires of the parts in the merged graph, g's behind f's.
Carried(h, f, g, fs, gs) ==
  LET N == WireCount(f)
  IN  /\ fs \in Seq(Wires(h)) /\ SameWidths(h, fs, f, fs)
      /\ ShiftWires(gs, N) \in Seq(Wires(h)) /\ Len(ShiftWires(gs, N)) = Len(gs)
      /\ SameWidths(h, ShiftWires(gs, N), g, gs)
      /\ Range(ShiftWires(gs, N)) = {w + N : w \in Range(gs)}

LEMMA MergedLists ==
  ASSUME NEW f, NEW g, ShapedGraph(f), ShapedGraph(g),
         NEW from \in Seq(Wires(g)), NEW to \in Seq(Wires(f)), Len(from) = Len(to),
         NEW h, h = MergeGraphs(f, g, from, to),
         NEW fs \in Seq(Wires(f)), NEW gs \in Seq(Wires(g))
  PROVE  Carried(h, f, g, fs, gs)
  <1> DEFINE N == WireCount(f)
             K == WireCount(g)
             sh == ShiftWires(gs, N)
  <1>1. /\ N \in Nat /\ K \in Nat /\ WireCount(h) = N + K
    <2>1. IsMerge(h, f, g, from, to)
      BY Merged
    <2> QED BY <2>1 DEF IsMerge
  <1>2. /\ \A w \in Wires(f) : w \in Wires(h) /\ h.wires[w] = f.wires[w]
        /\ \A w \in Wires(g) : w + N \in Wires(h) /\ h.wires[w + N] = g.wires[w]
    BY MergedStorage
  <1>3. fs \in Seq(Wires(h)) /\ SameWidths(h, fs, f, fs)
    <2>1. Wires(f) \subseteq Wires(h)
      BY <1>2
    <2>2. fs \in Seq(Wires(h))
      BY <2>1, SeqMonotonic
    <2>3. \A k \in DOMAIN fs : fs[k] \in Wires(f)
      BY ElementOfSeq, LenProperties
    <2>4. \A k \in DOMAIN fs : fs[k] \in Wires(h) /\ h.wires[fs[k]] = f.wires[fs[k]]
      BY <2>3, <1>2
    <2> QED BY <2>2, <2>4, KeepsWidths
  <1>4. sh \in Seq(Wires(h)) /\ Len(sh) = Len(gs) /\ Range(sh) = {w + N : w \in Range(gs)}
    <2>1. gs \in Seq(1..K) /\ Wires(h) = 1..(N + K)
      BY <1>1 DEF Wires
    <2> HIDE DEF N, K
    <2> QED BY <2>1, <1>1, ShiftedWires
  <1>5. SameWidths(h, sh, g, gs)
    <2>1. \A k \in DOMAIN gs : gs[k] \in Wires(g)
      BY ElementOfSeq, LenProperties
    <2>2. DOMAIN sh = DOMAIN gs /\ \A k \in DOMAIN gs : sh[k] = gs[k] + N
      BY DEF ShiftWires
    <2>3. \A k \in DOMAIN gs : sh[k] \in Wires(h) /\ h.wires[sh[k]] = g.wires[gs[k]]
      BY <2>1, <2>2, <1>2
    <2> HIDE DEF sh
    <2> QED BY <2>2, <2>3, KeepsWidths
  <1> QED BY <1>3, <1>4, <1>5 DEF Carried

\* The initial bits of two machines, one after the other.
LEMMA BitsJoin ==
  ASSUME NEW n \in Nat, NEW a \in BitSeq(n), NEW m \in Nat, NEW b \in BitSeq(m)
  PROVE  a \o b \in BitSeq(n + m)
  <1>1. IsList(a, n) /\ IsList(b, m)
    BY DEF BitSeq, IsList
  <1> DEFINE s == a \o b
  <1>2. IsJoin(a, n, b, m, s)
    BY <1>1, ListsJoin
  <1> HIDE DEF s
  <1>3. /\ s = [i \in 1..(n + m) |-> s[i]]
        /\ \A i \in 1..n : s[i] = a[i]
        /\ \A i \in 1..m : s[n + i] = b[i]
    BY <1>2 DEF IsJoin, IsList
  <1>4. ASSUME NEW i \in 1..(n + m) PROVE s[i] \in Bit
    <2>1. CASE i <= n
      <3>1. i \in 1..n
        BY <2>1
      <3> QED BY <3>1, <1>3 DEF BitSeq
    <2>2. CASE ~(i <= n)
      <3>1. PICK k \in 1..m : i = n + k
        BY <2>2, InSecondPart
      <3> QED BY <3>1, <1>3 DEF BitSeq
    <2> QED BY <2>1, <2>2
  <1>5. s \in BitSeq(n + m)
    BY <1>3, <1>4 DEF BitSeq
  <1> QED BY <1>5 DEF s

\* The state wires, next states and initial bits of a machine composed of f
\* and g: f's before g's.
StatesJoined(f, g, h) ==
  LET N  == WireCount(f.graph)
      si == StateIn(f) \o ShiftWires(StateIn(g), N)
      ns == NextState(f) \o ShiftWires(NextState(g), N)
  IN  /\ si \in Seq(Wires(h)) /\ ns \in Seq(Wires(h)) /\ Len(si) = f.sc + g.sc /\ Len(ns) = f.sc + g.sc
      /\ StorageWidths(h, ns) = StorageWidths(h, si)
      /\ f.init \o g.init \in BitSeq(Total(Widths(h, si)))

LEMMA StatesJoin ==
  ASSUME NEW f, NEW g, WellFormed(f), WellFormed(g),
         NEW from \in Seq(Wires(g.graph)), NEW to \in Seq(Wires(f.graph)), Len(from) = Len(to),
         NEW h, h = MergeGraphs(f.graph, g.graph, from, to)
  PROVE  StatesJoined(f, g, h)
  <1> DEFINE N == WireCount(f.graph)
             a == StateIn(f)
             b == StateIn(g)
             bs == ShiftWires(b, N)
             c == NextState(f)
             d == NextState(g)
             ds == ShiftWires(d, N)
  <1>1. ShapedGraph(f.graph) /\ ShapedGraph(g.graph)
    BY DEF WellFormed, GraphFits, Shaped, ShapedGraph
  <1>2. /\ a \in Seq(Wires(f.graph)) /\ c \in Seq(Wires(f.graph)) /\ Len(a) = f.sc /\ Len(c) = f.sc
        /\ b \in Seq(Wires(g.graph)) /\ d \in Seq(Wires(g.graph)) /\ Len(b) = g.sc /\ Len(d) = g.sc
    BY MachineParts DEF Assembled
  <1>3. Carried(h, f.graph, g.graph, a, b) /\ Carried(h, f.graph, g.graph, c, d)
    <2> HIDE DEF a, b, c, d
    <2> QED BY <1>1, <1>2, MergedLists
  <1>4. /\ a \in Seq(Wires(h)) /\ c \in Seq(Wires(h))
        /\ bs \in Seq(Wires(h)) /\ ds \in Seq(Wires(h)) /\ Len(bs) = g.sc /\ Len(ds) = g.sc
        /\ Widths(h, a) = Widths(f.graph, a) /\ StorageWidths(h, a) = StorageWidths(f.graph, a)
        /\ StorageWidths(h, c) = StorageWidths(f.graph, c)
        /\ Widths(h, bs) = Widths(g.graph, b) /\ StorageWidths(h, bs) = StorageWidths(g.graph, b)
        /\ StorageWidths(h, ds) = StorageWidths(g.graph, d)
    BY <1>2, <1>3 DEF Carried, SameWidths
  <1>5. /\ StorageWidths(f.graph, c) = StorageWidths(f.graph, a)
        /\ StorageWidths(g.graph, d) = StorageWidths(g.graph, b)
        /\ f.init \in BitSeq(Total(Widths(f.graph, a)))
        /\ g.init \in BitSeq(Total(Widths(g.graph, b)))
    BY DEF WellFormed, StateWidths, CompactWidths
  <1>6. Widths(f.graph, a) \in Seq(Nat) /\ Widths(g.graph, b) \in Seq(Nat)
    BY MachineWidths DEF CompactWidths
  <1>7. f.sc \in Nat /\ g.sc \in Nat
    BY MachineEnds
  <1> HIDE DEF N, a, b, c, d, bs, ds
  <1>8. /\ a \o bs \in Seq(Wires(h)) /\ Len(a \o bs) = f.sc + g.sc
        /\ c \o ds \in Seq(Wires(h)) /\ Len(c \o ds) = f.sc + g.sc
    <2> DEFINE S == Wires(h)
    <2>1. /\ a \in Seq(S) /\ bs \in Seq(S) /\ c \in Seq(S) /\ ds \in Seq(S)
          /\ Len(a) = f.sc /\ Len(bs) = g.sc /\ Len(c) = f.sc /\ Len(ds) = g.sc
      BY <1>2, <1>4
    <2> HIDE DEF S
    <2>2. /\ a \o bs \in Seq(S) /\ Len(a \o bs) = Len(a) + Len(bs)
          /\ c \o ds \in Seq(S) /\ Len(c \o ds) = Len(c) + Len(ds)
      BY <2>1, ConcatProperties
    <2> QED BY <2>1, <2>2 DEF S
  <1>9. /\ StorageWidths(h, c \o ds) = StorageWidths(h, a \o bs)
        /\ Widths(h, a \o bs) = Widths(h, a) \o Widths(h, bs)
    <2> DEFINE S == Wires(h)
    <2>1. a \in Seq(S) /\ bs \in Seq(S) /\ c \in Seq(S) /\ ds \in Seq(S)
      BY <1>4
    <2> HIDE DEF S
    <2>2. StorageWidths(h, c \o ds) = StorageWidths(h, c) \o StorageWidths(h, ds)
      <3>1. WidthsFollow(h, c, ds)
        BY <2>1, WidthsConcat
      <3> QED BY <3>1 DEF WidthsFollow
    <2>3. StorageWidths(h, a \o bs) = StorageWidths(h, a) \o StorageWidths(h, bs)
      <3>1. WidthsFollow(h, a, bs)
        BY <2>1, WidthsConcat
      <3> QED BY <3>1 DEF WidthsFollow
    <2>4. Widths(h, a \o bs) = Widths(h, a) \o Widths(h, bs)
      <3>1. WidthsFollow(h, a, bs)
        BY <2>1, WidthsConcat
      <3> QED BY <3>1 DEF WidthsFollow
    <2> QED BY <2>2, <2>3, <2>4, <1>4, <1>5
  <1>10. f.init \o g.init \in BitSeq(Total(Widths(h, a \o bs)))
    <2> DEFINE wa == Widths(f.graph, a)
               wb == Widths(g.graph, b)
    <2>1. Widths(h, a \o bs) = wa \o wb
      BY <1>4, <1>9
    <2>2. wa \in Seq(Nat) /\ wb \in Seq(Nat)
          /\ f.init \in BitSeq(Total(wa)) /\ g.init \in BitSeq(Total(wb))
      BY <1>5, <1>6
    <2> HIDE DEF wa, wb
    <2>3. Total(wa \o wb) = Total(wa) + Total(wb) /\ Total(wa) \in Nat /\ Total(wb) \in Nat
      BY <2>2, TotalConcat, TotalIsNat
    <2> QED BY <2>1, <2>2, <2>3, BitsJoin
  <1> QED BY <1>8, <1>9, <1>10 DEF StatesJoined, N, a, b, c, d, bs, ds

\* Netlists that are merged fit, when the plugged inputs are the data inputs of
\* g, or none, and no output of g is among them.
LEMMA MachinesJoin ==
  ASSUME NEW f, NEW g, WellFormed(f), WellFormed(g),
         NEW from \in Seq(Wires(g.graph)), NEW to \in Seq(Wires(f.graph)), Len(from) = Len(to),
         Range(to) \subseteq Range(f.outputs),
         \A k \in 1..Len(from) : WireStorage(g.graph, from[k]) = WireStorage(f.graph, to[k]),
         Range(from) \cap Range(g.outputs) = {},
         NEW h, h = MergeGraphs(f.graph, g.graph, from, to),
         NEW di \in Seq(Wires(h)), NEW do \in Seq(Wires(h)),
         Range(DataIn(f)) \subseteq Range(di),
         {w + WireCount(f.graph) : w \in Range(DataIn(g)) \ Range(from)} \subseteq Range(di),
         Range(do) \subseteq Range(DataOut(f)) \cup {w + WireCount(f.graph) : w \in Range(DataOut(g))},
         StorageWidths(h, di) = Widths(h, di),
         NEW m, m.init = f.init \o g.init,
         Assembled(m, h, StateIn(f) \o ShiftWires(StateIn(g), WireCount(f.graph)), di,
                   NextState(f) \o ShiftWires(NextState(g), WireCount(f.graph)), do)
  PROVE  WellFormed(m)
  <1> DEFINE N == WireCount(f.graph)
             a == StateIn(f)
             b == StateIn(g)
             bs == ShiftWires(b, N)
             c == NextState(f)
             d == NextState(g)
             ds == ShiftWires(d, N)
             si == a \o bs
             ns == c \o ds
  <1>1. ShapedGraph(f.graph) /\ ShapedGraph(g.graph)
    BY DEF WellFormed, GraphFits, Shaped, ShapedGraph
  <1>2. /\ a \in Seq(Wires(f.graph)) /\ c \in Seq(Wires(f.graph))
        /\ b \in Seq(Wires(g.graph)) /\ d \in Seq(Wires(g.graph))
    BY MachineParts DEF Assembled
  <1>3. /\ Range(f.inputs) = Range(a) \cup Range(DataIn(f))
        /\ Range(f.outputs) = Range(c) \cup Range(DataOut(f))
        /\ Range(g.inputs) = Range(b) \cup Range(DataIn(g))
        /\ Range(g.outputs) = Range(d) \cup Range(DataOut(g))
    BY MachineParts DEF Dissected
  <1>4. StatesJoined(f, g, h)
    BY StatesJoin
  <1>5. /\ StorageWidths(h, ns) = StorageWidths(h, si)
        /\ m.init \in BitSeq(Total(Widths(h, si)))
    BY <1>4 DEF StatesJoined
  <1>6. Assembled(m, h, si, di, ns, do)
    OBVIOUS
  <1>7. /\ Range(bs) = {w + N : w \in Range(b)} /\ bs \in Seq(Wires(h)) /\ a \in Seq(Wires(h))
        /\ Range(ds) = {w + N : w \in Range(d)} /\ ds \in Seq(Wires(h)) /\ c \in Seq(Wires(h))
    <2> HIDE DEF a, b, c, d
    <2>1. Carried(h, f.graph, g.graph, a, b)
      BY <1>1, <1>2, MergedLists
    <2>2. Carried(h, f.graph, g.graph, c, d)
      BY <1>1, <1>2, MergedLists
    <2> QED BY <2>1, <2>2 DEF Carried
  <1> HIDE DEF a, b, c, d, bs, ds
  <1>8. Range(si) = Range(a) \cup Range(bs) /\ Range(ns) = Range(c) \cup Range(ds)
    <2>1. IsCut(Wires(h), a, bs, a \o bs) /\ IsCut(Wires(h), c, ds, c \o ds)
      BY <1>7, CutConcat
    <2> QED BY <2>1 DEF IsCut
  <1> HIDE DEF si, ns
  <1>9. Dissected(m, h, si, di, ns, do)
    BY <1>6, EndsAssemble
  <1>10. m.graph = h
    BY <1>6 DEF Assembled
  <1>11. Joined(m, f, g, from, to)
    <2>1. /\ m.inputs \in Seq(Wires(h)) /\ m.outputs \in Seq(Wires(h))
          /\ Range(m.inputs) = Range(si) \cup Range(di)
          /\ Range(m.outputs) = Range(ns) \cup Range(do)
      BY <1>9 DEF Dissected
    <2>2. Range(f.inputs) \subseteq Range(m.inputs)
      BY <2>1, <1>3, <1>8
    <2>3. {w + N : w \in Range(g.inputs) \ Range(from)} \subseteq Range(m.inputs)
      BY <2>1, <1>3, <1>7, <1>8
    <2>4. Range(m.outputs) \subseteq Range(f.outputs)
                            \cup {w + N : w \in Range(g.outputs) \ Range(from)}
      BY <2>1, <1>3, <1>7, <1>8
    <2> QED BY <2>1, <2>2, <2>3, <2>4, <1>10 DEF Joined
  <1>12. GraphFits(m)
    BY <1>11, JoinedFits DEF WellFormed
  <1> QED BY <1>5, <1>6, <1>12, AssembledFits

---------------------------------------------------------------------------
(* compose_sync, par_sync, feedback_sync *)

LEMMA SameDomain ==
  ASSUME NEW p \in Nat, NEW q \in Nat, 1..p = 1..q
  PROVE  p = q
  <1>1. p # 0 => p \in 1..p
    OBVIOUS
  <1>2. q # 0 => q \in 1..q
    OBVIOUS
  <1>3. p \in 1..q => p <= q
    OBVIOUS
  <1>4. q \in 1..p => q <= p
    OBVIOUS
  <1> QED BY <1>1, <1>2, <1>3, <1>4

LEMMA SameLengths ==
  ASSUME NEW f, NEW g, NEW S, NEW p \in Seq(S), NEW T, NEW q \in Seq(T),
         StorageWidths(f, p) = StorageWidths(g, q)
  PROVE  Len(p) = Len(q) /\ \A k \in 1..Len(p) : WireStorage(f, p[k]) = WireStorage(g, q[k])
  <1> DEFINE n == Len(p)
             m == Len(q)
  <1>1. n \in Nat /\ m \in Nat /\ DOMAIN p = 1..n /\ DOMAIN q = 1..m
    BY LenProperties
  <1> HIDE DEF n, m
  <1>2. DOMAIN StorageWidths(f, p) = 1..n /\ DOMAIN StorageWidths(g, q) = 1..m
    BY <1>1 DEF StorageWidths
  <1>3. 1..n = 1..m
    BY <1>2
  <1>4. n = m
    BY <1>1, <1>3, SameDomain
  <1>5. \A k \in 1..n : StorageWidths(f, p)[k] = WireStorage(f, p[k]) /\ StorageWidths(g, q)[k] = WireStorage(g, q[k])
    BY <1>1, <1>4 DEF StorageWidths
  <1> QED BY <1>4, <1>5 DEF n, m

\* The same netlist with the same or more inputs and no more outputs.
LEMMA GraphKept ==
  ASSUME NEW a, NEW b, GraphFits(a), b.graph = a.graph,
         b.inputs \in Seq(Wires(a.graph)), b.outputs \in Seq(Wires(a.graph)),
         Range(a.inputs) \subseteq Range(b.inputs), Range(b.outputs) \subseteq Range(a.outputs)
  PROVE  GraphFits(b)
  <1>1. Shaped(b)
    BY DEF GraphFits, Shaped
  <1>2. \A i : Known(a, i) \subseteq Known(b, i)
    BY DEF Known
  <1>3. ReadsInOrder(b)
    BY <1>2 DEF GraphFits, ReadsInOrder
  <1> QED BY <1>1, <1>3 DEF GraphFits

\* g can run on what f gives: f's data outputs are as wide as g's data inputs,
\* and g hands none of these on as it is, the case compose_sync gets wrong.
CanFollow(g, f) ==
  /\ StorageWidths(f.graph, DataOut(f)) = InputWidths(g)
  /\ Range(DataIn(g)) \cap Range(g.outputs) = {}

\* compose_sync of two well-formed machines, the second able to follow the
\* first, is well formed (compose.rs:30-86): in the renamed netlist every operand
\* keeps its width and is driven before it is read, the two states and their
\* initial bits lie in one order, and the next state has the type of the state.
THEOREM SeriesFits ==
  ASSUME NEW f, NEW g, WellFormed(f), WellFormed(g), CanFollow(g, f)
  PROVE  WellFormed(ComposeSync(f, g))
  <1> DEFINE N == WireCount(f.graph)
             from == DataIn(g)
             to == DataOut(f)
             h == MergeGraphs(f.graph, g.graph, from, to)
             di == DataIn(f)
             do == ShiftWires(DataOut(g), N)
             m == ComposeSync(f, g)
             si == StateIn(f) \o ShiftWires(StateIn(g), N)
             ns == NextState(f) \o ShiftWires(NextState(g), N)
  <1>1. /\ m.graph = h /\ m.init = f.init \o g.init /\ m.sc = f.sc + g.sc
        /\ m.inputs = si \o di /\ m.outputs = ns \o do
    BY DEF ComposeSync, FromRaw
  <1>2. /\ di \in Seq(Wires(f.graph)) /\ to \in Seq(Wires(f.graph))
        /\ from \in Seq(Wires(g.graph)) /\ DataOut(g) \in Seq(Wires(g.graph))
    BY MachineParts DEF Assembled
  <1>3. Len(from) = Len(to) /\ \A k \in 1..Len(from) : WireStorage(g.graph, from[k]) = WireStorage(f.graph, to[k])
    <2>1. StorageWidths(g.graph, from) = StorageWidths(f.graph, to)
      BY DEF CanFollow, WellFormed
    <2> HIDE DEF from, to
    <2> QED BY <1>2, <2>1, SameLengths
  <1>4. ShapedGraph(f.graph) /\ ShapedGraph(g.graph)
    BY DEF WellFormed, GraphFits, Shaped, ShapedGraph
  <1>5. Carried(h, f.graph, g.graph, di, DataOut(g))
    <2> HIDE DEF di, from, to
    <2> QED BY <1>2, <1>3, <1>4, MergedLists
  <1>6. /\ di \in Seq(Wires(h)) /\ do \in Seq(Wires(h))
        /\ StorageWidths(h, di) = StorageWidths(f.graph, di) /\ Widths(h, di) = Widths(f.graph, di)
        /\ Range(do) = {w + N : w \in Range(DataOut(g))}
    BY <1>5 DEF Carried, SameWidths
  <1>7. StorageWidths(h, di) = Widths(h, di)
    BY <1>6 DEF WellFormed, InputWidths
  <1>8. Assembled(m, h, si, di, ns, do)
    <2>1. StatesJoined(f, g, h)
      <3> HIDE DEF from, to
      <3> QED BY <1>2, <1>3, StatesJoin
    <2> HIDE DEF m, h, di, do
    <2> QED BY <2>1, <1>1, <1>6 DEF StatesJoined, Assembled
  <1>9. Range(to) \subseteq Range(f.outputs)
    BY MachineParts DEF Dissected
  <1>10. Range(from) \cap Range(g.outputs) = {}
    BY DEF CanFollow
  <1>11. {w + N : w \in Range(DataIn(g)) \ Range(from)} \subseteq Range(di)
    OBVIOUS
  <1>12. Range(do) \subseteq Range(DataOut(f)) \cup {w + N : w \in Range(DataOut(g))}
    BY <1>6
  <1>13. WellFormed(m)
    <2> HIDE DEF m, from, to, di, do, N
    <2>1. m.init = f.init \o g.init /\ Range(DataIn(f)) \subseteq Range(di)
      BY <1>1 DEF di
    <2> QED BY <2>1, <1>2, <1>3, <1>6, <1>7, <1>8, <1>9, <1>10, <1>11, <1>12, MachinesJoin DEF N
  <1> QED BY <1>13

\* par_sync of any two well-formed machines is well formed (compose.rs:95-137).
THEOREM ParallelFits ==
  ASSUME NEW f, NEW g, WellFormed(f), WellFormed(g)
  PROVE  WellFormed(ParSync(f, g))
  <1> DEFINE N == WireCount(f.graph)
             h == MergeGraphs(f.graph, g.graph, <<>>, <<>>)
             a == DataIn(f)
             b == ShiftWires(DataIn(g), N)
             c == DataOut(f)
             d == ShiftWires(DataOut(g), N)
             di == a \o b
             do == c \o d
             m == ParSync(f, g)
             si == StateIn(f) \o ShiftWires(StateIn(g), N)
             ns == NextState(f) \o ShiftWires(NextState(g), N)
  <1>1. /\ m.graph = h /\ m.init = f.init \o g.init /\ m.sc = f.sc + g.sc
        /\ m.inputs = (si \o a) \o b /\ m.outputs = (ns \o c) \o d
    BY DEF ParSync, FromRaw
  <1>2. /\ a \in Seq(Wires(f.graph)) /\ c \in Seq(Wires(f.graph))
        /\ DataIn(g) \in Seq(Wires(g.graph)) /\ DataOut(g) \in Seq(Wires(g.graph))
    BY MachineParts DEF Assembled
  <1>3. /\ <<>> \in Seq(Wires(g.graph)) /\ <<>> \in Seq(Wires(f.graph))
        /\ Range(<<>>) = {} /\ Len(<<>>) = 0
    BY DEF Range
  <1>4. ShapedGraph(f.graph) /\ ShapedGraph(g.graph)
    BY DEF WellFormed, GraphFits, Shaped, ShapedGraph
  <1>5. Carried(h, f.graph, g.graph, a, DataIn(g)) /\ Carried(h, f.graph, g.graph, c, DataOut(g))
    <2> HIDE DEF a, c
    <2> QED BY <1>2, <1>3, <1>4, MergedLists
  <1>6. /\ a \in Seq(Wires(h)) /\ b \in Seq(Wires(h)) /\ c \in Seq(Wires(h)) /\ d \in Seq(Wires(h))
        /\ StorageWidths(h, a) = StorageWidths(f.graph, a) /\ Widths(h, a) = Widths(f.graph, a)
        /\ StorageWidths(h, b) = StorageWidths(g.graph, DataIn(g))
        /\ Widths(h, b) = Widths(g.graph, DataIn(g))
        /\ Range(b) = {w + N : w \in Range(DataIn(g))}
        /\ Range(d) = {w + N : w \in Range(DataOut(g))}
    BY <1>5 DEF Carried, SameWidths
  <1>7. StorageWidths(h, a) = Widths(h, a) /\ StorageWidths(h, b) = Widths(h, b)
    BY <1>6 DEF WellFormed, InputWidths
  <1>8. StatesJoined(f, g, h)
    BY <1>3, StatesJoin
  <1>9. /\ si \in Seq(Wires(h)) /\ Len(si) = m.sc
        /\ ns \in Seq(Wires(h)) /\ Len(ns) = m.sc
    BY <1>1, <1>8 DEF StatesJoined
  <1>10. /\ di \in Seq(Wires(h)) /\ do \in Seq(Wires(h))
         /\ Range(di) = Range(a) \cup Range(b) /\ Range(do) = Range(c) \cup Range(d)
         /\ StorageWidths(h, di) = Widths(h, di)
         /\ (si \o a) \o b = si \o di /\ (ns \o c) \o d = ns \o do
    <2> DEFINE S == Wires(h)
    <2>1. /\ a \in Seq(S) /\ b \in Seq(S) /\ c \in Seq(S) /\ d \in Seq(S)
          /\ si \in Seq(S) /\ ns \in Seq(S)
      BY <1>6, <1>9
    <2> HIDE DEF S, a, b, c, d, si, ns
    <2>2. IsCut(S, a, b, a \o b) /\ IsCut(S, c, d, c \o d)
      BY <2>1, CutConcat
    <2>3. /\ a \o b \in Seq(S) /\ Range(a \o b) = Range(a) \cup Range(b)
          /\ c \o d \in Seq(S) /\ Range(c \o d) = Range(c) \cup Range(d)
      BY <2>2 DEF IsCut
    <2> HIDE DEF h
    <2>4. StorageWidths(h, a \o b) = StorageWidths(h, a) \o StorageWidths(h, b)
      <3>1. WidthsFollow(h, a, b)
        BY <2>1, WidthsConcat
      <3> QED BY <3>1 DEF WidthsFollow
    <2>5. Widths(h, a \o b) = Widths(h, a) \o Widths(h, b)
      <3>1. WidthsFollow(h, a, b)
        BY <2>1, WidthsConcat
      <3> QED BY <3>1 DEF WidthsFollow
    <2>6. (si \o a) \o b = si \o (a \o b)
      BY <2>1, ConcatAssociative
    <2>7. (ns \o c) \o d = ns \o (c \o d)
      BY <2>1, ConcatAssociative
    <2> QED BY <2>3, <2>4, <2>5, <2>6, <2>7, <1>7 DEF S
  <1>11. Assembled(m, h, si, di, ns, do)
    <2> HIDE DEF m, h, di, do, si, ns
    <2> QED BY <1>1, <1>9, <1>10 DEF Assembled
  <1>12. {w + N : w \in Range(DataIn(g)) \ Range(<<>>)} \subseteq Range(di)
    BY <1>3, <1>6, <1>10
  <1>13. Range(do) \subseteq Range(DataOut(f)) \cup {w + N : w \in Range(DataOut(g))}
    BY <1>6, <1>10
  <1>14. Range(DataIn(f)) \subseteq Range(di) /\ Range(<<>>) \subseteq Range(f.outputs)
         /\ Range(<<>>) \cap Range(g.outputs) = {}
    BY <1>3, <1>10
  <1>15. WellFormed(m)
    <2> DEFINE e == <<>>
    <2>1. /\ e \in Seq(Wires(g.graph)) /\ e \in Seq(Wires(f.graph)) /\ Len(e) = Len(e)
          /\ \A k \in 1..Len(e) : WireStorage(g.graph, e[k]) = WireStorage(f.graph, e[k])
          /\ Range(e) \subseteq Range(f.outputs) /\ Range(e) \cap Range(g.outputs) = {}
          /\ h = MergeGraphs(f.graph, g.graph, e, e)
          /\ {w + N : w \in Range(DataIn(g)) \ Range(e)} \subseteq Range(di)
      BY <1>3, <1>12, <1>14
    <2> HIDE DEF m, h, di, do, N, e
    <2> QED BY <2>1, <1>1, <1>10, <1>11, <1>13, <1>14, MachinesJoin DEF N
  <1> QED BY <1>15

\* feedback_sync of a well-formed machine whose last inputs are as wide as its
\* outputs, given that many initial bits, succeeds, and what it returns is well
\* formed: the inputs fed back have become state (compose.rs:158-209).
THEOREM FeedbackFits ==
  ASSUME NEW f, WellFormed(f),
         StorageWidths(f.graph, FeedbackWires(f)) = StorageWidths(f.graph, DataOut(f)),
         NEW initial \in BitSeq(Total(Widths(f.graph, FeedbackWires(f))))
  PROVE  FeedbackSync(f, initial).err = "none" /\ WellFormed(FeedbackSync(f, initial).val)
  <1> DEFINE g == f.graph
             back == FeedbackWires(f)
             d == DataIn(f)
             o == DataOut(f)
             external == SubSeq(d, 1, Len(d) - Len(back))
             si == StateIn(f) \o back
             ns == NextState(f) \o o
             m == FromRaw(g, si \o external, ns \o o, f.init \o initial, f.sc + Len(o))
  <1>1. /\ StateIn(f) \in Seq(Wires(g)) /\ d \in Seq(Wires(g)) /\ Len(StateIn(f)) = f.sc
        /\ NextState(f) \in Seq(Wires(g)) /\ o \in Seq(Wires(g)) /\ Len(NextState(f)) = f.sc
        /\ Range(f.inputs) = Range(StateIn(f)) \cup Range(d)
        /\ Range(f.outputs) = Range(NextState(f)) \cup Range(o)
    BY MachineParts DEF Assembled, Dissected
  <1>2. Len(d) \in Nat /\ Len(o) \in Nat
    BY <1>1, LenProperties
  <1>3. /\ back \in Seq(Wires(g)) /\ Len(back) = Len(o) /\ Len(o) <= Len(d)
        /\ external \in Seq(Wires(g)) /\ external \o back = d
    <2>1. back = IF Len(d) < Len(o) THEN d ELSE SubSeq(d, Len(d) - Len(o) + 1, Len(d))
      BY DEF FeedbackWires
    <2>2. /\ back \in Seq(Wires(g)) /\ Len(back) \in Nat /\ Len(back) <= Len(o)
          /\ Len(back) = Len(o) => Len(o) <= Len(d)
      <3>1. CASE Len(d) < Len(o)
        BY <2>1, <3>1, <1>1, <1>2
      <3>2. CASE ~(Len(d) < Len(o))
        <4> DEFINE x == Len(d) - Len(o) + 1
                   y == Len(d)
        <4>1. /\ x \in Int /\ y \in Int
              /\ \A i \in x..y : i \in 1..Len(d)
          BY <3>2, <1>2
        <4>2. \A i \in x..y : d[i] \in Wires(g)
          BY <4>1, <1>1, ElementOfSeq
        <4>3. SubSeq(d, x, y) \in Seq(Wires(g)) /\ Len(SubSeq(d, x, y)) = IF x <= y THEN y - x + 1 ELSE 0
          <5> HIDE DEF x, y, d
          <5> QED BY <4>1, <4>2, <1>1, SubSeqProperties
        <4> QED BY <4>3, <2>1, <3>2, <1>2
      <3> QED BY <3>1, <3>2
    <2>3. Len(back) = Len(o)
      <3>1. StorageWidths(g, back) = StorageWidths(g, o)
        OBVIOUS
      <3> HIDE DEF back, o, g
      <3> QED BY <3>1, <2>2, <1>1, SameLengths
    <2>4. back = SubSeq(d, Len(d) - Len(o) + 1, Len(d)) /\ Len(o) <= Len(d)
      BY <2>1, <2>2, <2>3, <1>2
    <2> DEFINE n == Len(d) - Len(o)
    <2>5. n \in 0..Len(d) /\ external = SubSeq(d, 1, n) /\ back = SubSeq(d, n + 1, Len(d))
      BY <2>3, <2>4, <1>2
    <2>6. Halves(Wires(g), d, n, SubSeq(d, 1, n), SubSeq(d, n + 1, Len(d)))
      <3> HIDE DEF d, n, back, external
      <3> QED BY <2>5, <1>1, SplitSeq
    <2>7. Halves(Wires(g), d, n, external, back)
      BY <2>5, <2>6
    <2> HIDE DEF external, back, o, d, n
    <2>8. /\ external \in Seq(Wires(g)) /\ Len(external) = n /\ n \in Nat
          /\ \A i \in 1..n : external[i] = d[i]
          /\ \A i \in 1..(Len(d) - n) : back[i] = d[n + i]
          /\ Len(back) = Len(d) - n
      BY <2>5, <2>7, <1>2 DEF Halves
    <2>9. /\ IsList(external, n) /\ IsList(back, Len(back)) /\ IsList(d, Len(d))
          /\ Len(d) = n + Len(back)
      BY <2>2, <2>8, <1>1, <1>2, SeqIsList
    <2>10. IsJoin(external, n, back, Len(back), d)
      BY <2>8, <2>9 DEF IsJoin
    <2>11. external \o back = d
      BY <2>2, <2>8, <2>9, <2>10, JoinIs
    <2> QED BY <2>2, <2>3, <2>8, <2>11
  <1>4. FeedbackSync(f, initial) = Ok(m)
    <2>1. Total(Widths(g, back)) \in Nat
      <3>1. \A w \in Wires(g) : TypeFits(g.wires[w])
        BY DEF WellFormed, GraphFits
      <3>2. HaveWidths(g, back)
        <4> HIDE DEF back, g
        <4> QED BY <3>1, <1>3, ListWidths
      <3> QED BY <3>2, TotalIsNat DEF HaveWidths
    <2>2. Len(initial) = Total(Widths(g, back))
      <3> DEFINE n == Total(Widths(g, back))
      <3>1. IsList(initial, n)
        BY DEF BitSeq, IsList
      <3> HIDE DEF n
      <3>2. Len(initial) = n
        BY <2>1, <3>1, ListIsSeq DEF n
      <3> QED BY <3>2 DEF n
    <2> QED BY <2>2 DEF FeedbackSync, When
  <1> DEFINE W == Wires(g)
             a == StateIn(f)
             b == NextState(f)
  <1>5. /\ a \in Seq(W) /\ back \in Seq(W) /\ b \in Seq(W) /\ o \in Seq(W) /\ external \in Seq(W)
        /\ Len(a) = f.sc /\ Len(b) = f.sc
    BY <1>1, <1>3
  <1>6. IsCut(W, a, back, si) /\ IsCut(W, b, o, ns) /\ IsCut(W, external, back, d)
    <2> HIDE DEF W, a, b, back, o, d, external
    <2>1. IsCut(W, a, back, a \o back)
      BY <1>5, CutConcat
    <2>2. IsCut(W, b, o, b \o o)
      BY <1>5, CutConcat
    <2>3. IsCut(W, external, back, external \o back)
      BY <1>5, CutConcat
    <2> QED BY <2>1, <2>2, <2>3, <1>3 DEF a, b
  <1>7. Assembled(m, g, si, external, ns, o)
    <2>1. /\ m.graph = g /\ m.inputs = si \o external /\ m.outputs = ns \o o /\ m.sc = f.sc + Len(o)
      BY DEF FromRaw
    <2> HIDE DEF m, g, si, ns, back, external, o, a, b
    <2>2. Len(si) = m.sc /\ Len(ns) = m.sc
      BY <2>1, <1>3, <1>5, <1>6 DEF IsCut
    <2>3. si \in Seq(W) /\ ns \in Seq(W)
      BY <1>6 DEF IsCut
    <2> QED BY <2>1, <2>2, <2>3, <1>5 DEF Assembled
  <1>8. Dissected(m, g, si, external, ns, o)
    BY <1>7, EndsAssemble
  <1>9. Range(m.inputs) = Range(f.inputs) /\ Range(m.outputs) = Range(f.outputs)
    <2> HIDE DEF m, g, si, ns, back, external, o, d
    <2> QED BY <1>1, <1>6, <1>8 DEF IsCut, Dissected, a, b
  <1>10. GraphFits(m)
    <2>1. m.graph = f.graph /\ m.inputs \in Seq(Wires(f.graph)) /\ m.outputs \in Seq(Wires(f.graph))
      BY <1>7, <1>8 DEF Assembled, Dissected
    <2>2. GraphFits(f)
      BY DEF WellFormed
    <2> HIDE DEF m
    <2> QED BY <2>1, <2>2, <1>9, GraphKept
  <1>11. /\ StorageWidths(g, b) = StorageWidths(g, a)
         /\ StorageWidths(g, back) = StorageWidths(g, o)
         /\ StorageWidths(g, d) = Widths(g, d)
         /\ f.init \in BitSeq(Total(Widths(g, a)))
         /\ initial \in BitSeq(Total(Widths(g, back)))
         /\ \A w \in Wires(g) : TypeFits(g.wires[w])
    BY DEF WellFormed, GraphFits, StateWidths, InputWidths, CompactWidths
  <1>12. StorageWidths(g, ns) = StorageWidths(g, si)
    <2>1. ns = b \o o /\ si = a \o back
      OBVIOUS
    <2> HIDE DEF g, W, a, b, back, o, ns, si
    <2>2. StorageWidths(g, b \o o) = StorageWidths(g, b) \o StorageWidths(g, o)
      <3>1. WidthsFollow(g, b, o)
        BY <1>5, WidthsConcat
      <3> QED BY <3>1 DEF WidthsFollow
    <2>3. StorageWidths(g, a \o back) = StorageWidths(g, a) \o StorageWidths(g, back)
      <3>1. WidthsFollow(g, a, back)
        BY <1>5, WidthsConcat
      <3> QED BY <3>1 DEF WidthsFollow
    <2> QED BY <2>1, <2>2, <2>3, <1>11
  <1>13. m.init \in BitSeq(Total(Widths(g, si)))
    <2>1. si = a \o back /\ m.init = f.init \o initial
      BY DEF FromRaw
    <2> HIDE DEF g, W, a, b, back, si, m
    <2>2. Widths(g, a) \in Seq(Nat)
      BY <1>5, <1>11, ListWidths DEF HaveWidths
    <2>3. Widths(g, back) \in Seq(Nat)
      BY <1>5, <1>11, ListWidths DEF HaveWidths
    <2>4. Widths(g, a \o back) = Widths(g, a) \o Widths(g, back)
      <3>1. WidthsFollow(g, a, back)
        BY <1>5, WidthsConcat
      <3> QED BY <3>1 DEF WidthsFollow
    <2> DEFINE p == Widths(g, a)
               q == Widths(g, back)
    <2>5. Total(p \o q) = Total(p) + Total(q) /\ Total(p) \in Nat /\ Total(q) \in Nat
      <3> HIDE DEF p, q
      <3>1. p \in Seq(Nat) /\ q \in Seq(Nat)
        BY <2>2, <2>3 DEF p, q
      <3>2. Total(p \o q) = Total(p) + Total(q)
        BY <3>1, TotalConcat
      <3> QED BY <3>1, <3>2, TotalIsNat
    <2>6. f.init \o initial \in BitSeq(Total(p) + Total(q))
      <3> DEFINE x == Total(p)
                 y == Total(q)
      <3>1. x \in Nat /\ y \in Nat /\ f.init \in BitSeq(x) /\ initial \in BitSeq(y)
        BY <2>5, <1>11
      <3> HIDE DEF x, y
      <3>2. f.init \o initial \in BitSeq(x + y)
        BY <3>1, BitsJoin
      <3> QED BY <3>2 DEF x, y
    <2> QED BY <2>1, <2>4, <2>5, <2>6
  <1>14. StorageWidths(g, external) = Widths(g, external)
    <2>1. /\ DOMAIN external = 1..Len(external) /\ DOMAIN d = 1..Len(d)
          /\ Len(external) \in Nat /\ Len(back) \in Nat /\ Len(d) = Len(external) + Len(back)
      <3> HIDE DEF external, d, W, back
      <3> QED BY <1>5, <1>6, LenProperties DEF IsCut
    <2>2. \A k \in 1..Len(external) : external[k] = d[k]
      <3> HIDE DEF external, d, W, back
      <3> QED BY <1>3, <1>5, ConcatProperties
    <2> HIDE DEF external, d, W, back, g
    <2>3. \A k \in 1..Len(d) : StorageWidths(g, d)[k] = WireStorage(g, d[k]) /\ Widths(g, d)[k] = WireWidth(g, d[k])
      BY <2>1 DEF StorageWidths, Widths
    <2>4. \A k \in 1..Len(external) : k \in 1..Len(d)
      BY <2>1
    <2>5. \A k \in 1..Len(external) : WireStorage(g, external[k]) = WireWidth(g, external[k])
      BY <2>2, <2>3, <2>4, <1>11
    <2> QED BY <2>1, <2>5 DEF StorageWidths, Widths
  <1>15. WellFormed(m)
    <2> HIDE DEF m, g, si, external, ns, o
    <2> QED BY <1>7, <1>10, <1>12, <1>13, <1>14, AssembledFits
  <1> QED BY <1>4, <1>15 DEF Ok

---------------------------------------------------------------------------
(* The machines of the library, for every width *)

LEMMA BuiltGraph ==
  ASSUME NEW S, NEW tys \in Seq(S), NEW T, NEW is \in Seq(T)
  PROVE  /\ WithInstructions(WithWires(EmptyGraph, tys), is) = [wires |-> tys, instrs |-> is]
         /\ WithWires(EmptyGraph, tys) = [wires |-> tys, instrs |-> <<>>]
  <1>1. <<>> \o tys = tys /\ <<>> \o is = is
    BY ConcatEmptySeq
  <1>2. WithWires(EmptyGraph, tys) = [wires |-> tys, instrs |-> <<>>]
    BY <1>1 DEF WithWires, EmptyGraph
  <1> QED BY <1>1, <1>2 DEF WithInstructions

LEMMA TotalOfOne ==
  ASSUME NEW n \in Nat
  PROVE  Total(<<n>>) = n
  <1> DEFINE s == <<n>>
  <1>1. s \in Seq(Nat) /\ Len(s) = 1 /\ s[1] = n
    OBVIOUS
  <1> HIDE DEF s
  <1>2. PICK t : Running(s, t)
    BY <1>1, RunningTotals
  <1>3. /\ t[0] = 0 /\ t[1] = t[0] + s[1] /\ Total(s) = t[Len(s)]
    BY <1>1, <1>2 DEF Running
  <1> QED BY <1>1, <1>3 DEF s

LEMMA ConstFits ==
  ASSUME NEW w, NEW bits \in BitSeq(w), NEW ty
  PROVE  OpFits(ConstOp(bits, ty), <<>>, w)
  BY DEF OpFits, ConstOp, Accepts, Arity

LEMMA BinFits ==
  ASSUME NEW bin \in {"And", "Or", "Xor", "Add", "Sub", "Mul"}, NEW w
  PROVE  OpFits(BinOp(bin), <<w, w>>, w)
  BY DEF OpFits, BinOp, Accepts, Arity

LEMMA CompareFits ==
  ASSUME NEW bin \in {"Eq", "Lt"}, NEW w
  PROVE  OpFits(BinOp(bin), <<w, w>>, 1)
  BY DEF OpFits, BinOp, Accepts, Arity

LEMMA NotFits ==
  ASSUME NEW w
  PROVE  OpFits(NotOp, <<w>>, w)
  BY DEF OpFits, NotOp, Accepts, Arity

LEMMA SliceFits ==
  ASSUME NEW lo \in Nat, NEW hi \in Nat, NEW w \in Nat, lo <= hi, hi <= w
  PROVE  OpFits(SliceOp(lo, hi), <<w>>, hi - lo)
  BY DEF OpFits, SliceOp, Accepts, Arity

LEMMA ConcatFits ==
  ASSUME NEW lw \in Nat, NEW hw \in Nat
  PROVE  OpFits(ConcatOp(lw, hw), <<lw, hw>>, lw + hw)
  BY DEF OpFits, ConcatOp, Accepts, Arity

LEMMA ShiftInFits ==
  ASSUME NEW ew \in Nat, NEW d \in Nat \ {0}
  PROVE  /\ OpFits(ShiftInOp(ew, d), <<ew * d, ew>>, ew * d)
         /\ OpFits(TailOp(ew, d), <<ew * d>>, ew)
  BY DEF OpFits, ShiftInOp, TailOp, Accepts, Arity

LEMMA TotalOfTwo ==
  ASSUME NEW n \in Nat, NEW k \in Nat
  PROVE  Total(<<n, k>>) = n + k
  <1> DEFINE s == <<n, k>>
  <1>1. s \in Seq(Nat) /\ Len(s) = 2 /\ s[1] = n /\ s[2] = k
    OBVIOUS
  <1> HIDE DEF s
  <1>2. PICK t : Running(s, t)
    BY <1>1, RunningTotals
  <1>3. t[0] = 0 /\ t[1] = t[0] + s[1] /\ t[2] = t[1] + s[2] /\ Total(s) = t[Len(s)]
    BY <1>1, <1>2 DEF Running
  <1> QED BY <1>1, <1>3 DEF s

\* counter and down_counter are well formed at every width and from every
\* initial state (counter.rs:37-70, down_counter.rs:24-58).
THEOREM StepperFits ==
  ASSUME NEW bin \in {"Add", "Sub"}, NEW n \in Nat, NEW init \in BitSeq(n)
  PROVE  WellFormed(Stepper(bin, n, init))
  <1> DEFINE tys == <<BitsTy(n), BitsTy(n), BitsTy(n)>>
             i1 == Instr(ConstOp(One(n), BitsTy(n)), <<>>, 2)
             i2 == Instr(BinOp(bin), <<1, 2>>, 3)
             is == <<i1, i2>>
             g == [wires |-> tys, instrs |-> is]
             m == Stepper(bin, n, init)
  <1>1. WithInstructions(WithWires(EmptyGraph, tys), is) = g
    <2>1. tys \in Seq({BitsTy(n)}) /\ is \in Seq({i1, i2})
      OBVIOUS
    <2> HIDE DEF tys, is
    <2> QED BY <2>1, BuiltGraph
  <1>2. m = [graph |-> g, inputs |-> <<1>>, outputs |-> <<3, 1>>, init |-> init, sc |-> 1]
    BY <1>1 DEF Stepper, FromRaw
  <1>3. /\ Wires(g) = 1..3 /\ DOMAIN g.instrs = 1..2
        /\ g.instrs[1] = i1 /\ g.instrs[2] = i2
        /\ g.wires[1] = BitsTy(n) /\ g.wires[2] = BitsTy(n) /\ g.wires[3] = BitsTy(n)
    BY DEF Wires, WireCount
  <1>4. /\ Width(BitsTy(n)) = n /\ StorageBits(BitsTy(n)) = n /\ TypeFits(BitsTy(n))
    BY DEF Width, StorageBits, BitsTy, BitTy, ArrayTy, IsArray, TypeFits
  <1>5. /\ WireWidth(g, 1) = n /\ WireStorage(g, 1) = n
        /\ WireWidth(g, 2) = n /\ WireStorage(g, 2) = n
        /\ WireWidth(g, 3) = n /\ WireStorage(g, 3) = n
        /\ \A w \in Wires(g) : TypeFits(g.wires[w])
    <2> HIDE DEF g
    <2> QED BY <1>3, <1>4 DEF WireWidth, WireStorage
  <1>6. /\ i1.op = ConstOp(One(n), BitsTy(n)) /\ i1.ins = <<>> /\ i1.out = 2
        /\ i2.op = BinOp(bin) /\ i2.ins = <<1, 2>> /\ i2.out = 3
    BY DEF Instr
  <1>7. Shaped(m)
    <2>1. g.wires \in Seq(Range(g.wires)) /\ g.instrs \in Seq(Range(g.instrs))
      BY DEF Range
    <2> HIDE DEF g, m, i1, i2
    <2>2. <<>> \in Seq(Wires(g)) /\ <<1, 2>> \in Seq(Wires(g)) /\ <<1>> \in Seq(Wires(g)) /\ <<3, 1>> \in Seq(Wires(g))
      BY <1>3
    <2>3. \A i \in DOMAIN g.instrs : g.instrs[i].ins \in Seq(Wires(g)) /\ g.instrs[i].out \in Wires(g)
      <3>1. /\ g.instrs[1].ins \in Seq(Wires(g)) /\ g.instrs[1].out \in Wires(g)
            /\ g.instrs[2].ins \in Seq(Wires(g)) /\ g.instrs[2].out \in Wires(g)
        BY <2>2, <1>3, <1>6
      <3> QED BY <3>1, <1>3
    <2>4. m.graph = g /\ m.inputs \in Seq(Wires(g)) /\ m.outputs \in Seq(Wires(g))
      BY <2>2, <1>2
    <2> QED BY <2>1, <2>3, <2>4 DEF Shaped
  <1>8. ReadsInOrder(m)
    <2>1. Range(m.inputs) = {1} /\ Range(m.outputs) = {3, 1}
      BY <1>2 DEF Range
    <2>2. Range(i1.ins) = {} /\ Range(i2.ins) = {1, 2}
      BY <1>6 DEF Range
    <2>3. Len(m.graph.instrs) = 2 /\ m.graph = g
      BY <1>2
    <2> HIDE DEF g, m, i1, i2
    <2> QED BY <2>1, <2>2, <2>3, <1>3, <1>6 DEF ReadsInOrder, Known
  <1>9. GraphFits(m)
    <2>1. /\ StorageWidths(g, <<>>) = <<>>
          /\ StorageWidths(g, <<1, 2>>) = <<n, n>>
      <3> HIDE DEF g
      <3> QED BY <1>5 DEF StorageWidths
    <2>2. OpFits(i1.op, <<>>, n)
      <3>1. One(n) \in BitSeq(n)
        BY DEF One, BitSeq, Bit
      <3> QED BY <3>1, <1>6, ConstFits
    <2>3. OpFits(i2.op, <<n, n>>, n)
      BY <1>6, BinFits
    <2>4. \A i \in DOMAIN g.instrs : OpFits(g.instrs[i].op, StorageWidths(g, g.instrs[i].ins), WireStorage(g, g.instrs[i].out))
      <3> HIDE DEF g, m, i1, i2
      <3>1. /\ OpFits(g.instrs[1].op, StorageWidths(g, g.instrs[1].ins), WireStorage(g, g.instrs[1].out))
            /\ OpFits(g.instrs[2].op, StorageWidths(g, g.instrs[2].ins), WireStorage(g, g.instrs[2].out))
        BY <2>1, <2>2, <2>3, <1>3, <1>5, <1>6
      <3> QED BY <3>1, <1>3
    <2>5. m.graph = g
      BY <1>2
    <2> HIDE DEF g, m
    <2> QED BY <2>4, <2>5, <1>5, <1>7, <1>8 DEF GraphFits
  <1>10. Assembled(m, g, <<1>>, <<>>, <<3>>, <<1>>)
    <2> HIDE DEF g
    <2> QED BY <1>2, <1>3 DEF Assembled
  <1>11. /\ StorageWidths(g, <<3>>) = StorageWidths(g, <<1>>) /\ Widths(g, <<1>>) = <<n>>
         /\ StorageWidths(g, <<>>) = Widths(g, <<>>)
    <2> HIDE DEF g
    <2> QED BY <1>5 DEF StorageWidths, Widths
  <1>12. m.init \in BitSeq(Total(Widths(g, <<1>>)))
    BY <1>2, <1>11, TotalOfOne
  <1> QED BY <1>9, <1>10, <1>11, <1>12, AssembledFits

\* accumulator is well formed at every width (accumulator.rs:26-46).
THEOREM AccumulatorFits ==
  ASSUME NEW n \in Nat
  PROVE  WellFormed(Accumulator(n))
  <1> DEFINE tys == <<BitsTy(n), BitsTy(n), BitsTy(n)>>
             i1 == Instr(BinOp("Add"), <<1, 2>>, 3)
             is == <<i1>>
             g == [wires |-> tys, instrs |-> is]
             m == Accumulator(n)
  <1>1. WithInstruction(WithWires(EmptyGraph, tys), BinOp("Add"), <<1, 2>>, 3) = g
    <2>1. tys \in Seq({BitsTy(n)}) /\ is \in Seq({i1})
      OBVIOUS
    <2>2. Append(<<>>, i1) = is
      OBVIOUS
    <2> HIDE DEF tys, is, i1
    <2>3. WithWires(EmptyGraph, tys) = [wires |-> tys, instrs |-> <<>>]
      BY <2>1, BuiltGraph
    <2> QED BY <2>2, <2>3 DEF WithInstruction, i1
  <1>2. m = [graph |-> g, inputs |-> <<1, 2>>, outputs |-> <<3, 3>>, init |-> Zeros(n), sc |-> 1]
    BY <1>1 DEF Accumulator, FromRaw
  <1>3. /\ Wires(g) = 1..3 /\ DOMAIN g.instrs = 1..1
        /\ g.instrs[1] = i1
        /\ g.wires[1] = BitsTy(n) /\ g.wires[2] = BitsTy(n) /\ g.wires[3] = BitsTy(n)
    BY DEF Wires, WireCount
  <1>4. /\ Width(BitsTy(n)) = n /\ StorageBits(BitsTy(n)) = n /\ TypeFits(BitsTy(n))
    BY DEF Width, StorageBits, BitsTy, BitTy, ArrayTy, IsArray, TypeFits
  <1>5. /\ WireWidth(g, 1) = n /\ WireStorage(g, 1) = n
        /\ WireWidth(g, 2) = n /\ WireStorage(g, 2) = n
        /\ WireWidth(g, 3) = n /\ WireStorage(g, 3) = n
        /\ \A w \in Wires(g) : TypeFits(g.wires[w])
    <2> HIDE DEF g
    <2> QED BY <1>3, <1>4 DEF WireWidth, WireStorage
  <1>6. /\ i1.op = BinOp("Add") /\ i1.ins = <<1, 2>> /\ i1.out = 3
    BY DEF Instr
  <1>7. Shaped(m)
    <2>1. g.wires \in Seq(Range(g.wires)) /\ g.instrs \in Seq(Range(g.instrs))
      BY DEF Range
    <2> HIDE DEF g, m, i1
    <2>2. <<1, 2>> \in Seq(Wires(g)) /\ <<3, 3>> \in Seq(Wires(g))
      BY <1>3
    <2>3. \A i \in DOMAIN g.instrs : g.instrs[i].ins \in Seq(Wires(g)) /\ g.instrs[i].out \in Wires(g)
      <3>1. /\ g.instrs[1].ins \in Seq(Wires(g)) /\ g.instrs[1].out \in Wires(g)
        BY <2>2, <1>3, <1>6
      <3> QED BY <3>1, <1>3
    <2>4. m.graph = g /\ m.inputs \in Seq(Wires(g)) /\ m.outputs \in Seq(Wires(g))
      BY <2>2, <1>2
    <2> QED BY <2>1, <2>3, <2>4 DEF Shaped
  <1>8. ReadsInOrder(m)
    <2>1. Range(m.inputs) = {1, 2} /\ Range(m.outputs) = {3, 3}
      BY <1>2 DEF Range
    <2>2. Range(i1.ins) = {1, 2}
      BY <1>6 DEF Range
    <2>3. Len(m.graph.instrs) = 1 /\ m.graph = g
      BY <1>2
    <2> HIDE DEF g, m, i1
    <2> QED BY <2>1, <2>2, <2>3, <1>3, <1>6 DEF ReadsInOrder, Known
  <1>9. GraphFits(m)
    <2>1. /\ StorageWidths(g, <<1, 2>>) = <<n, n>>
      <3> HIDE DEF g
      <3> QED BY <1>5 DEF StorageWidths
    <2>2. OpFits(i1.op, <<n, n>>, n)
      BY <1>6, BinFits
    <2>3. \A i \in DOMAIN g.instrs : OpFits(g.instrs[i].op, StorageWidths(g, g.instrs[i].ins), WireStorage(g, g.instrs[i].out))
      <3> HIDE DEF g, m, i1
      <3>1. /\ OpFits(g.instrs[1].op, StorageWidths(g, g.instrs[1].ins), WireStorage(g, g.instrs[1].out))
        BY <2>1, <2>2, <1>3, <1>5, <1>6
      <3> QED BY <3>1, <1>3
    <2>4. m.graph = g
      BY <1>2
    <2> HIDE DEF g, m
    <2> QED BY <2>3, <2>4, <1>5, <1>7, <1>8 DEF GraphFits
  <1>10. Assembled(m, g, <<1>>, <<2>>, <<3>>, <<3>>)
    <2> HIDE DEF g
    <2> QED BY <1>2, <1>3 DEF Assembled
  <1>11. /\ StorageWidths(g, <<3>>) = StorageWidths(g, <<1>>) /\ Widths(g, <<1>>) = <<n>>
         /\ StorageWidths(g, <<2>>) = Widths(g, <<2>>)
    <2> HIDE DEF g
    <2> QED BY <1>5 DEF StorageWidths, Widths
  <1>12. m.init \in BitSeq(Total(Widths(g, <<1>>)))
    BY <1>2, <1>11, TotalOfOne DEF Zeros, BitSeq, Bit
  <1> QED BY <1>9, <1>10, <1>11, <1>12, AssembledFits

\* toggle_ff is well formed (toggle.rs:24-36).
THEOREM ToggleFits ==
  WellFormed(Toggle)
  <1> DEFINE tys == <<BitTy, BitTy>>
             i1 == Instr(NotOp, <<1>>, 2)
             is == <<i1>>
             g == [wires |-> tys, instrs |-> is]
             m == Toggle
  <1>1. WithInstruction(WithWires(EmptyGraph, tys), NotOp, <<1>>, 2) = g
    <2>1. tys \in Seq({BitTy}) /\ is \in Seq({i1})
      OBVIOUS
    <2>2. Append(<<>>, i1) = is
      OBVIOUS
    <2> HIDE DEF tys, is, i1
    <2>3. WithWires(EmptyGraph, tys) = [wires |-> tys, instrs |-> <<>>]
      BY <2>1, BuiltGraph
    <2> QED BY <2>2, <2>3 DEF WithInstruction, i1
  <1>2. m = [graph |-> g, inputs |-> <<1>>, outputs |-> <<2, 1>>, init |-> <<0>>, sc |-> 1]
    BY <1>1 DEF Toggle, FromRaw
  <1>3. /\ Wires(g) = 1..2 /\ DOMAIN g.instrs = 1..1
        /\ g.instrs[1] = i1
        /\ g.wires[1] = BitTy /\ g.wires[2] = BitTy
    BY DEF Wires, WireCount
  <1>4. /\ Width(BitTy) = 1 /\ StorageBits(BitTy) = 1 /\ TypeFits(BitTy)
    BY DEF Width, StorageBits, BitsTy, BitTy, ArrayTy, IsArray, TypeFits
  <1>5. /\ WireWidth(g, 1) = 1 /\ WireStorage(g, 1) = 1
        /\ WireWidth(g, 2) = 1 /\ WireStorage(g, 2) = 1
        /\ \A w \in Wires(g) : TypeFits(g.wires[w])
    <2> HIDE DEF g
    <2> QED BY <1>3, <1>4 DEF WireWidth, WireStorage
  <1>6. /\ i1.op = NotOp /\ i1.ins = <<1>> /\ i1.out = 2
    BY DEF Instr
  <1>7. Shaped(m)
    <2>1. g.wires \in Seq(Range(g.wires)) /\ g.instrs \in Seq(Range(g.instrs))
      BY DEF Range
    <2> HIDE DEF g, m, i1
    <2>2. <<1>> \in Seq(Wires(g)) /\ <<2, 1>> \in Seq(Wires(g))
      BY <1>3
    <2>3. \A i \in DOMAIN g.instrs : g.instrs[i].ins \in Seq(Wires(g)) /\ g.instrs[i].out \in Wires(g)
      <3>1. /\ g.instrs[1].ins \in Seq(Wires(g)) /\ g.instrs[1].out \in Wires(g)
        BY <2>2, <1>3, <1>6
      <3> QED BY <3>1, <1>3
    <2>4. m.graph = g /\ m.inputs \in Seq(Wires(g)) /\ m.outputs \in Seq(Wires(g))
      BY <2>2, <1>2
    <2> QED BY <2>1, <2>3, <2>4 DEF Shaped
  <1>8. ReadsInOrder(m)
    <2>1. Range(m.inputs) = {1} /\ Range(m.outputs) = {2, 1}
      BY <1>2 DEF Range
    <2>2. Range(i1.ins) = {1}
      BY <1>6 DEF Range
    <2>3. Len(m.graph.instrs) = 1 /\ m.graph = g
      BY <1>2
    <2> HIDE DEF g, m, i1
    <2> QED BY <2>1, <2>2, <2>3, <1>3, <1>6 DEF ReadsInOrder, Known
  <1>9. GraphFits(m)
    <2>1. /\ StorageWidths(g, <<1>>) = <<1>>
      <3> HIDE DEF g
      <3> QED BY <1>5 DEF StorageWidths
    <2>2. OpFits(i1.op, <<1>>, 1)
      BY <1>6, NotFits
    <2>3. \A i \in DOMAIN g.instrs : OpFits(g.instrs[i].op, StorageWidths(g, g.instrs[i].ins), WireStorage(g, g.instrs[i].out))
      <3> HIDE DEF g, m, i1
      <3>1. /\ OpFits(g.instrs[1].op, StorageWidths(g, g.instrs[1].ins), WireStorage(g, g.instrs[1].out))
        BY <2>1, <2>2, <1>3, <1>5, <1>6
      <3> QED BY <3>1, <1>3
    <2>4. m.graph = g
      BY <1>2
    <2> HIDE DEF g, m
    <2> QED BY <2>3, <2>4, <1>5, <1>7, <1>8 DEF GraphFits
  <1>10. Assembled(m, g, <<1>>, <<>>, <<2>>, <<1>>)
    <2> HIDE DEF g
    <2> QED BY <1>2, <1>3 DEF Assembled
  <1>11. /\ StorageWidths(g, <<2>>) = StorageWidths(g, <<1>>) /\ Widths(g, <<1>>) = <<1>>
         /\ StorageWidths(g, <<>>) = Widths(g, <<>>)
    <2> HIDE DEF g
    <2> QED BY <1>5 DEF StorageWidths, Widths
  <1>12. m.init \in BitSeq(Total(Widths(g, <<1>>)))
    BY <1>2, <1>11, TotalOfOne DEF BitSeq, Bit
  <1> QED BY <1>9, <1>10, <1>11, <1>12, AssembledFits

\* shift_register_left is well formed at every width of two bits and more: the
\* slice and the concatenation of its next state add up (shift_reg.rs:26-72).
THEOREM ShiftRegisterFits ==
  ASSUME NEW n \in Nat, n >= 2
  PROVE  WellFormed(ShiftRegisterLeft(n))
  <1> DEFINE tys == <<BitsTy(n), BitTy, BitsTy(n - 1), BitsTy(n)>>
             i1 == Instr(SliceOp(0, n - 1), <<1>>, 3)
             i2 == Instr(ConcatOp(1, n - 1), <<2, 3>>, 4)
             is == <<i1, i2>>
             g == [wires |-> tys, instrs |-> is]
             m == ShiftRegisterLeft(n)
  <1>1. WithInstructions(WithWires(EmptyGraph, tys), is) = g
    <2>1. tys \in Seq({BitsTy(n), BitTy, BitsTy(n - 1)}) /\ is \in Seq({i1, i2})
      OBVIOUS
    <2> HIDE DEF tys, is
    <2> QED BY <2>1, BuiltGraph
  <1>2. m = [graph |-> g, inputs |-> <<1, 2>>, outputs |-> <<4, 1>>, init |-> Zeros(n), sc |-> 1]
    BY <1>1 DEF ShiftRegisterLeft, FromRaw
  <1>3. /\ Wires(g) = 1..4 /\ DOMAIN g.instrs = 1..2
        /\ g.instrs[1] = i1 /\ g.instrs[2] = i2
        /\ g.wires[1] = BitsTy(n) /\ g.wires[2] = BitTy /\ g.wires[3] = BitsTy(n - 1) /\ g.wires[4] = BitsTy(n)
    BY DEF Wires, WireCount
  <1>4. /\ Width(BitsTy(n)) = n /\ StorageBits(BitsTy(n)) = n /\ TypeFits(BitsTy(n))
        /\ Width(BitTy) = 1 /\ StorageBits(BitTy) = 1 /\ TypeFits(BitTy)
        /\ Width(BitsTy(n - 1)) = n - 1 /\ StorageBits(BitsTy(n - 1)) = n - 1 /\ TypeFits(BitsTy(n - 1))
    BY DEF Width, StorageBits, BitsTy, BitTy, ArrayTy, IsArray, TypeFits
  <1>5. /\ WireWidth(g, 1) = n /\ WireStorage(g, 1) = n
        /\ WireWidth(g, 2) = 1 /\ WireStorage(g, 2) = 1
        /\ WireWidth(g, 3) = n - 1 /\ WireStorage(g, 3) = n - 1
        /\ WireWidth(g, 4) = n /\ WireStorage(g, 4) = n
        /\ \A w \in Wires(g) : TypeFits(g.wires[w])
    <2> HIDE DEF g
    <2> QED BY <1>3, <1>4 DEF WireWidth, WireStorage
  <1>6. /\ i1.op = SliceOp(0, n - 1) /\ i1.ins = <<1>> /\ i1.out = 3
        /\ i2.op = ConcatOp(1, n - 1) /\ i2.ins = <<2, 3>> /\ i2.out = 4
    BY DEF Instr
  <1>7. Shaped(m)
    <2>1. g.wires \in Seq(Range(g.wires)) /\ g.instrs \in Seq(Range(g.instrs))
      BY DEF Range
    <2> HIDE DEF g, m, i1, i2
    <2>2. <<1>> \in Seq(Wires(g)) /\ <<2, 3>> \in Seq(Wires(g)) /\ <<1, 2>> \in Seq(Wires(g)) /\ <<4, 1>> \in Seq(Wires(g))
      BY <1>3
    <2>3. \A i \in DOMAIN g.instrs : g.instrs[i].ins \in Seq(Wires(g)) /\ g.instrs[i].out \in Wires(g)
      <3>1. /\ g.instrs[1].ins \in Seq(Wires(g)) /\ g.instrs[1].out \in Wires(g)
            /\ g.instrs[2].ins \in Seq(Wires(g)) /\ g.instrs[2].out \in Wires(g)
        BY <2>2, <1>3, <1>6
      <3> QED BY <3>1, <1>3
    <2>4. m.graph = g /\ m.inputs \in Seq(Wires(g)) /\ m.outputs \in Seq(Wires(g))
      BY <2>2, <1>2
    <2> QED BY <2>1, <2>3, <2>4 DEF Shaped
  <1>8. ReadsInOrder(m)
    <2>1. Range(m.inputs) = {1, 2} /\ Range(m.outputs) = {4, 1}
      BY <1>2 DEF Range
    <2>2. Range(i1.ins) = {1} /\ Range(i2.ins) = {2, 3}
      BY <1>6 DEF Range
    <2>3. Len(m.graph.instrs) = 2 /\ m.graph = g
      BY <1>2
    <2> HIDE DEF g, m, i1, i2
    <2> QED BY <2>1, <2>2, <2>3, <1>3, <1>6 DEF ReadsInOrder, Known
  <1>9. GraphFits(m)
    <2>1. /\ StorageWidths(g, <<1>>) = <<n>>
          /\ StorageWidths(g, <<2, 3>>) = <<1, n - 1>>
      <3> HIDE DEF g
      <3> QED BY <1>5 DEF StorageWidths
    <2>2. OpFits(i1.op, <<n>>, n - 1)
      <3> DEFINE k == n - 1
      <3>1. k \in Nat /\ k <= n /\ k - 0 = k
        OBVIOUS
      <3> HIDE DEF k
      <3>2. OpFits(SliceOp(0, k), <<n>>, k - 0)
        BY <3>1, SliceFits
      <3> QED BY <3>1, <3>2, <1>6 DEF k
    <2>3. OpFits(i2.op, <<1, n - 1>>, n)
      <3> DEFINE k == n - 1
      <3>1. k \in Nat /\ 1 + k = n
        OBVIOUS
      <3> HIDE DEF k
      <3>2. OpFits(ConcatOp(1, k), <<1, k>>, 1 + k)
        BY <3>1, ConcatFits
      <3> QED BY <3>1, <3>2, <1>6 DEF k
    <2>4. \A i \in DOMAIN g.instrs : OpFits(g.instrs[i].op, StorageWidths(g, g.instrs[i].ins), WireStorage(g, g.instrs[i].out))
      <3> HIDE DEF g, m, i1, i2
      <3>1. /\ OpFits(g.instrs[1].op, StorageWidths(g, g.instrs[1].ins), WireStorage(g, g.instrs[1].out))
            /\ OpFits(g.instrs[2].op, StorageWidths(g, g.instrs[2].ins), WireStorage(g, g.instrs[2].out))
        BY <2>1, <2>2, <2>3, <1>3, <1>5, <1>6
      <3> QED BY <3>1, <1>3
    <2>5. m.graph = g
      BY <1>2
    <2> HIDE DEF g, m
    <2> QED BY <2>4, <2>5, <1>5, <1>7, <1>8 DEF GraphFits
  <1>10. Assembled(m, g, <<1>>, <<2>>, <<4>>, <<1>>)
    <2> HIDE DEF g
    <2> QED BY <1>2, <1>3 DEF Assembled
  <1>11. /\ StorageWidths(g, <<4>>) = StorageWidths(g, <<1>>) /\ Widths(g, <<1>>) = <<n>>
         /\ StorageWidths(g, <<2>>) = Widths(g, <<2>>)
    <2> HIDE DEF g
    <2> QED BY <1>5 DEF StorageWidths, Widths
  <1>12. m.init \in BitSeq(Total(Widths(g, <<1>>)))
    BY <1>2, <1>11, TotalOfOne DEF Zeros, BitSeq, Bit
  <1> QED BY <1>9, <1>10, <1>11, <1>12, AssembledFits

\* The machine with an array state that the emitter's test builds is well
\* formed for every element width and every depth but 0, which is where an
\* array that shifts in and hands out its tail meets interp.rs.
THEOREM DelayAndFlipFits ==
  ASSUME NEW ew \in Nat, NEW d \in Nat \ {0}, NEW init \in BitSeq(ew + ew)
  PROVE  WellFormed(DelayAndFlip(ew, d, init))
  <1> DEFINE tys == <<ArrayTy(ew, d), BitsTy(ew), BitsTy(ew), ArrayTy(ew, d), BitsTy(ew), BitsTy(ew)>>
             i1 == Instr(ShiftInOp(ew, d), <<1, 3>>, 4)
             i2 == Instr(TailOp(ew, d), <<1>>, 6)
             i3 == Instr(NotOp, <<2>>, 5)
             is == <<i1, i2, i3>>
             g == [wires |-> tys, instrs |-> is]
             m == DelayAndFlip(ew, d, init)
  <1>1. WithInstructions(WithWires(EmptyGraph, tys), is) = g
    <2>1. tys \in Seq({ArrayTy(ew, d), BitsTy(ew)}) /\ is \in Seq({i1, i2, i3})
      OBVIOUS
    <2> HIDE DEF tys, is
    <2> QED BY <2>1, BuiltGraph
  <1>2. m = [graph |-> g, inputs |-> <<1, 2, 3>>, outputs |-> <<4, 5, 6>>, init |-> init, sc |-> 2]
    BY <1>1 DEF DelayAndFlip, FromRaw
  <1>3. /\ Wires(g) = 1..6 /\ DOMAIN g.instrs = 1..3
        /\ g.instrs[1] = i1 /\ g.instrs[2] = i2 /\ g.instrs[3] = i3
        /\ g.wires[1] = ArrayTy(ew, d) /\ g.wires[2] = BitsTy(ew) /\ g.wires[3] = BitsTy(ew) /\ g.wires[4] = ArrayTy(ew, d) /\ g.wires[5] = BitsTy(ew) /\ g.wires[6] = BitsTy(ew)
    BY DEF Wires, WireCount
  <1>4. /\ Width(ArrayTy(ew, d)) = ew /\ StorageBits(ArrayTy(ew, d)) = ew * d /\ TypeFits(ArrayTy(ew, d))
        /\ Width(BitsTy(ew)) = ew /\ StorageBits(BitsTy(ew)) = ew /\ TypeFits(BitsTy(ew))
    BY DEF Width, StorageBits, BitsTy, BitTy, ArrayTy, IsArray, TypeFits
  <1>5. /\ WireWidth(g, 1) = ew /\ WireStorage(g, 1) = ew * d
        /\ WireWidth(g, 2) = ew /\ WireStorage(g, 2) = ew
        /\ WireWidth(g, 3) = ew /\ WireStorage(g, 3) = ew
        /\ WireWidth(g, 4) = ew /\ WireStorage(g, 4) = ew * d
        /\ WireWidth(g, 5) = ew /\ WireStorage(g, 5) = ew
        /\ WireWidth(g, 6) = ew /\ WireStorage(g, 6) = ew
        /\ \A w \in Wires(g) : TypeFits(g.wires[w])
    <2> HIDE DEF g
    <2> QED BY <1>3, <1>4 DEF WireWidth, WireStorage
  <1>6. /\ i1.op = ShiftInOp(ew, d) /\ i1.ins = <<1, 3>> /\ i1.out = 4
        /\ i2.op = TailOp(ew, d) /\ i2.ins = <<1>> /\ i2.out = 6
        /\ i3.op = NotOp /\ i3.ins = <<2>> /\ i3.out = 5
    BY DEF Instr
  <1>7. Shaped(m)
    <2>1. g.wires \in Seq(Range(g.wires)) /\ g.instrs \in Seq(Range(g.instrs))
      BY DEF Range
    <2> HIDE DEF g, m, i1, i2, i3
    <2>2. <<1, 3>> \in Seq(Wires(g)) /\ <<1>> \in Seq(Wires(g)) /\ <<2>> \in Seq(Wires(g)) /\ <<1, 2, 3>> \in Seq(Wires(g)) /\ <<4, 5, 6>> \in Seq(Wires(g))
      BY <1>3
    <2>3. \A i \in DOMAIN g.instrs : g.instrs[i].ins \in Seq(Wires(g)) /\ g.instrs[i].out \in Wires(g)
      <3>1. /\ g.instrs[1].ins \in Seq(Wires(g)) /\ g.instrs[1].out \in Wires(g)
            /\ g.instrs[2].ins \in Seq(Wires(g)) /\ g.instrs[2].out \in Wires(g)
            /\ g.instrs[3].ins \in Seq(Wires(g)) /\ g.instrs[3].out \in Wires(g)
        BY <2>2, <1>3, <1>6
      <3> QED BY <3>1, <1>3
    <2>4. m.graph = g /\ m.inputs \in Seq(Wires(g)) /\ m.outputs \in Seq(Wires(g))
      BY <2>2, <1>2
    <2> QED BY <2>1, <2>3, <2>4 DEF Shaped
  <1>8. ReadsInOrder(m)
    <2>1. Range(m.inputs) = {1, 2, 3} /\ Range(m.outputs) = {4, 5, 6}
      BY <1>2 DEF Range
    <2>2. Range(i1.ins) = {1, 3} /\ Range(i2.ins) = {1} /\ Range(i3.ins) = {2}
      BY <1>6 DEF Range
    <2>3. Len(m.graph.instrs) = 3 /\ m.graph = g
      BY <1>2
    <2> HIDE DEF g, m, i1, i2, i3
    <2> QED BY <2>1, <2>2, <2>3, <1>3, <1>6 DEF ReadsInOrder, Known
  <1>9. GraphFits(m)
    <2>1. /\ StorageWidths(g, <<1, 3>>) = <<ew * d, ew>>
          /\ StorageWidths(g, <<1>>) = <<ew * d>>
          /\ StorageWidths(g, <<2>>) = <<ew>>
      <3> HIDE DEF g
      <3> QED BY <1>5 DEF StorageWidths
    <2>2. OpFits(i1.op, <<ew * d, ew>>, ew * d)
      BY <1>6, ShiftInFits
    <2>3. OpFits(i2.op, <<ew * d>>, ew)
      BY <1>6, ShiftInFits
    <2>4. OpFits(i3.op, <<ew>>, ew)
      BY <1>6, NotFits
    <2>5. \A i \in DOMAIN g.instrs : OpFits(g.instrs[i].op, StorageWidths(g, g.instrs[i].ins), WireStorage(g, g.instrs[i].out))
      <3> HIDE DEF g, m, i1, i2, i3
      <3>1. /\ OpFits(g.instrs[1].op, StorageWidths(g, g.instrs[1].ins), WireStorage(g, g.instrs[1].out))
            /\ OpFits(g.instrs[2].op, StorageWidths(g, g.instrs[2].ins), WireStorage(g, g.instrs[2].out))
            /\ OpFits(g.instrs[3].op, StorageWidths(g, g.instrs[3].ins), WireStorage(g, g.instrs[3].out))
        BY <2>1, <2>2, <2>3, <2>4, <1>3, <1>5, <1>6
      <3> QED BY <3>1, <1>3
    <2>6. m.graph = g
      BY <1>2
    <2> HIDE DEF g, m
    <2> QED BY <2>5, <2>6, <1>5, <1>7, <1>8 DEF GraphFits
  <1>10. Assembled(m, g, <<1, 2>>, <<3>>, <<4, 5>>, <<6>>)
    <2> HIDE DEF g
    <2> QED BY <1>2, <1>3 DEF Assembled
  <1>11. /\ StorageWidths(g, <<4, 5>>) = StorageWidths(g, <<1, 2>>) /\ Widths(g, <<1, 2>>) = <<ew, ew>>
         /\ StorageWidths(g, <<3>>) = Widths(g, <<3>>)
    <2> HIDE DEF g
    <2> QED BY <1>5 DEF StorageWidths, Widths
  <1>12. m.init \in BitSeq(Total(Widths(g, <<1, 2>>)))
    BY <1>2, <1>11, TotalOfTwo
  <1> QED BY <1>9, <1>10, <1>11, <1>12, AssembledFits

---------------------------------------------------------------------------
(* Arrows lifted to machines *)

\* primitive_arrow: one instruction on fresh wires of its own hangs together
\* whenever the operation fits the types it is given (arrow.rs:218-238).
THEOREM PrimitiveFits ==
  ASSUME NEW S, NEW tys \in Seq(S), NEW out \in S, \A ty \in S : TypeFits(ty),
         NEW op, OpFits(op, [k \in DOMAIN tys |-> StorageBits(tys[k])], StorageBits(out))
  PROVE  GraphFits(Primitive(tys, op, out))
  <1> DEFINE n == Len(tys)
             all == Append(tys, out)
             ids == [k \in 1..n |-> k]
             instr == Instr(op, ids, n + 1)
             g == [wires |-> all, instrs |-> <<instr>>]
             m == Primitive(tys, op, out)
  <1>1. n \in Nat /\ DOMAIN tys = 1..n /\ \A k \in 1..n : tys[k] \in S
    BY LenProperties, ElementOfSeq
  <1>2. /\ all \in Seq(S) /\ Len(all) = n + 1 /\ all[n + 1] = out
        /\ \A k \in 1..n : all[k] = tys[k]
    BY AppendProperties
  <1>3. m = [graph |-> g, inputs |-> ids, outputs |-> <<n + 1>>]
    <2>1. WithWires(EmptyGraph, all) = [wires |-> all, instrs |-> <<>>]
      <3>1. <<>> \in Seq({})
        OBVIOUS
      <3> HIDE DEF all
      <3> QED BY <3>1, <1>2, BuiltGraph
    <2>2. Append(<<>>, instr) = <<instr>>
      OBVIOUS
    <2>3. WithInstruction(WithWires(EmptyGraph, all), op, ids, n + 1) = g
      <3> HIDE DEF all, ids, n
      <3> QED BY <2>1, <2>2 DEF WithInstruction
    <2> QED BY <2>3 DEF Primitive, Arrow
  <1>4. Wires(g) = 1..(n + 1) /\ DOMAIN g.instrs = 1..1 /\ g.instrs[1] = instr
    BY <1>2 DEF Wires, WireCount
  <1>5. instr.op = op /\ instr.ins = ids /\ instr.out = n + 1
    BY DEF Instr
  <1>6. /\ ids \in Seq(1..(n + 1)) /\ Len(ids) = n /\ DOMAIN ids = 1..n
        /\ \A k \in 1..n : ids[k] = k
    <2>1. ids \in [1..n -> 1..(n + 1)]
      BY <1>1
    <2> QED BY <2>1, <1>1, FunctionIsSeq
  <1> HIDE DEF n, all, ids
  <1>7. Shaped(m)
    <2>1. all \in Seq(Range(all)) /\ <<instr>> \in Seq(Range(<<instr>>))
      <3>1. all \in Seq(Range(all))
        <4>1. Len(all) \in Nat /\ IsList(all, Len(all))
          BY <1>2, SeqIsList
        <4> QED BY <4>1, ListIsSeq
      <3>2. Range(<<instr>>) = {instr}
        BY DEF Range
      <3> QED BY <3>1, <3>2
    <2>2. <<n + 1>> \in Seq(1..(n + 1))
      BY <1>1
    <2> HIDE DEF m, instr
    <2>3. m.graph = g /\ m.inputs = ids /\ m.outputs = <<n + 1>> /\ g.wires = all /\ g.instrs = <<instr>>
      BY <1>3
    <2> HIDE DEF g
    <2>4. \A i \in DOMAIN g.instrs : g.instrs[i].ins \in Seq(Wires(g)) /\ g.instrs[i].out \in Wires(g)
      BY <1>1, <1>4, <1>5, <1>6
    <2> QED BY <2>1, <2>2, <2>3, <2>4, <1>4, <1>6 DEF Shaped
  <1>8. ReadsInOrder(m)
    <2>1. m.graph = g /\ m.inputs = ids /\ m.outputs = <<n + 1>> /\ Len(g.instrs) = 1
      BY <1>3
    <2>2. Range(<<n + 1>>) = {n + 1}
      BY DEF Range
    <2> HIDE DEF m, g, instr
    <2> QED BY <2>1, <2>2, <1>4, <1>5 DEF ReadsInOrder, Known
  <1>9. \A w \in 1..(n + 1) : g.wires[w] \in S /\ TypeFits(g.wires[w])
    <2>1. \A w \in 1..(n + 1) : w = n + 1 \/ w \in 1..n
      BY <1>1
    <2> QED BY <2>1, <1>1, <1>2
  <1>10. StorageWidths(g, ids) = [k \in DOMAIN tys |-> StorageBits(tys[k])] /\ WireStorage(g, n + 1) = StorageBits(out)
    <2>1. \A k \in 1..n : k \in 1..(n + 1) /\ g.wires[k] = tys[k]
      BY <1>1, <1>2
    <2>2. n + 1 \in 1..(n + 1) /\ g.wires[n + 1] = out
      BY <1>1, <1>2
    <2> HIDE DEF g
    <2> QED BY <2>1, <2>2, <1>1, <1>4, <1>6 DEF StorageWidths, WireStorage
  <1>11. m.graph = g
    BY <1>3
  <1>12. \A i \in DOMAIN g.instrs :
           OpFits(g.instrs[i].op, StorageWidths(g, g.instrs[i].ins), WireStorage(g, g.instrs[i].out))
    <2> HIDE DEF g, instr
    <2> QED BY <1>4, <1>5, <1>10
  <1>13. GraphFits(m)
    <2> HIDE DEF g, m
    <2> QED BY <1>4, <1>7, <1>8, <1>9, <1>11, <1>12 DEF GraphFits
  <1> QED BY <1>13

\* The gates of gates.rs hang together at every width.
THEOREM GatesFit ==
  ASSUME NEW n \in Nat
  PROVE  /\ GraphFits(NotBits(n))
         /\ \A bin \in {"And", "Or", "Xor", "Add", "Sub", "Mul"} : GraphFits(BinaryBits(bin, n))
         /\ \A bin \in {"Eq", "Lt"} : GraphFits(CompareBits(bin, n))
         /\ GraphFits(NotBit)
         /\ \A bin \in {"And", "Or", "Xor"} : GraphFits(BinaryBit(bin))
  <1> DEFINE b == BitsTy(n)
             S == {b, BitTy}
             widths(tys) == [k \in DOMAIN tys |-> StorageBits(tys[k])]
  <1>1. /\ b \in S /\ BitTy \in S /\ <<b>> \in Seq(S) /\ <<b, b>> \in Seq(S)
        /\ <<BitTy>> \in Seq(S) /\ <<BitTy, BitTy>> \in Seq(S)
    OBVIOUS
  <1>2. StorageBits(b) = n /\ StorageBits(BitTy) = 1
    BY DEF StorageBits, Width, BitsTy, BitTy, IsArray
  <1>3. TypeFits(b) /\ TypeFits(BitTy)
    BY DEF TypeFits, Width, BitsTy, BitTy, IsArray
  <1>4. \A ty \in S : TypeFits(ty)
    BY <1>3
  <1> HIDE DEF b
  <1>5. /\ widths(<<b>>) = <<n>> /\ widths(<<b, b>>) = <<n, n>>
        /\ widths(<<BitTy>>) = <<1>> /\ widths(<<BitTy, BitTy>>) = <<1, 1>>
    BY <1>2
  <1> HIDE DEF S, widths
  <1>6. GraphFits(NotBits(n))
    <2>1. OpFits(NotOp, widths(<<b>>), StorageBits(b))
      BY <1>2, <1>5, NotFits
    <2>2. GraphFits(Primitive(<<b>>, NotOp, b))
      BY <2>1, <1>1, <1>4, PrimitiveFits DEF widths
    <2> QED BY <2>2 DEF NotBits, b
  <1>7. ASSUME NEW bin \in {"And", "Or", "Xor", "Add", "Sub", "Mul"} PROVE GraphFits(BinaryBits(bin, n))
    <2>1. OpFits(BinOp(bin), widths(<<b, b>>), StorageBits(b))
      BY <1>2, <1>5, BinFits
    <2>2. GraphFits(Primitive(<<b, b>>, BinOp(bin), b))
      BY <2>1, <1>1, <1>4, PrimitiveFits DEF widths
    <2> QED BY <2>2 DEF BinaryBits, b
  <1>8. ASSUME NEW bin \in {"Eq", "Lt"} PROVE GraphFits(CompareBits(bin, n))
    <2>1. OpFits(BinOp(bin), widths(<<b, b>>), StorageBits(BitTy))
      BY <1>2, <1>5, CompareFits
    <2>2. GraphFits(Primitive(<<b, b>>, BinOp(bin), BitTy))
      BY <2>1, <1>1, <1>4, PrimitiveFits DEF widths
    <2> QED BY <2>2 DEF CompareBits, b
  <1>9. GraphFits(NotBit)
    <2>1. OpFits(NotOp, widths(<<BitTy>>), StorageBits(BitTy))
      BY <1>2, <1>5, NotFits
    <2>2. GraphFits(Primitive(<<BitTy>>, NotOp, BitTy))
      BY <2>1, <1>1, <1>4, PrimitiveFits DEF widths
    <2> QED BY <2>2 DEF NotBit
  <1>10. ASSUME NEW bin \in {"And", "Or", "Xor"} PROVE GraphFits(BinaryBit(bin))
    <2>1. OpFits(BinOp(bin), widths(<<BitTy, BitTy>>), StorageBits(BitTy))
      BY <1>2, <1>5, BinFits
    <2>2. GraphFits(Primitive(<<BitTy, BitTy>>, BinOp(bin), BitTy))
      BY <2>1, <1>1, <1>4, PrimitiveFits DEF widths
    <2> QED BY <2>2 DEF BinaryBit
  <1> QED BY <1>6, <1>7, <1>8, <1>9, <1>10

\* Sync::lift_comb makes a well-formed machine, without state, of every arrow
\* that hangs together and takes no array (machine.rs:173-183).
THEOREM LiftedFits ==
  ASSUME NEW a, GraphFits(a), StorageWidths(a.graph, a.inputs) = Widths(a.graph, a.inputs)
  PROVE  WellFormed(LiftComb(a))
  <1> DEFINE g == a.graph
             m == LiftComb(a)
             e == <<>>
  <1>1. m.graph = g /\ m.inputs = a.inputs /\ m.outputs = a.outputs /\ m.init = e /\ m.sc = 0
    BY DEF LiftComb, FromRaw
  <1>2. a.inputs \in Seq(Wires(g)) /\ a.outputs \in Seq(Wires(g))
    BY DEF GraphFits, Shaped
  <1>3. /\ e \in Seq(Wires(g)) /\ Len(e) = 0
        /\ e \o a.inputs = a.inputs /\ e \o a.outputs = a.outputs
    BY <1>2, ConcatEmptySeq
  <1>4. Assembled(m, g, e, a.inputs, e, a.outputs)
    <2> HIDE DEF m, e, g
    <2> QED BY <1>1, <1>2, <1>3 DEF Assembled
  <1>5. GraphFits(m)
    <2> HIDE DEF m
    <2> QED BY <1>1, <1>2, GraphKept
  <1>6. m.init \in BitSeq(Total(Widths(g, e)))
    <2>1. Widths(g, e) = <<>>
      BY DEF Widths
    <2>2. <<>> \in Seq(Nat) /\ Len(<<>>) = 0
      OBVIOUS
    <2>3. PICK t : Running(<<>>, t)
      BY <2>2, RunningTotals
    <2>4. Total(<<>>) = 0
      BY <2>2, <2>3 DEF Running
    <2> QED BY <2>1, <2>4, <1>1 DEF BitSeq
  <1>7. WellFormed(m)
    <2> HIDE DEF m, e, g
    <2> QED BY <1>4, <1>5, <1>6, AssembledFits DEF g
  <1> QED BY <1>7

\* Sync::from_arrow counts wires and initial bits.  That is enough for an arrow
\* of the machine's type, from state and inputs to state and outputs, with no
\* array among the inputs: what it returns is well formed (machine.rs:122-159).
THEOREM FromArrowFits ==
  ASSUME NEW a, GraphFits(a), NEW S,
         NEW state \in Seq(S), NEW ins \in Seq(S), NEW outs \in Seq(S), NEW init \in Seq(Bit),
         \A k \in 1..Len(state) : /\ a.graph.wires[a.inputs[k]] = state[k]
                                  /\ a.graph.wires[a.outputs[k]] = state[k],
         \A k \in 1..Len(ins) : /\ a.graph.wires[a.inputs[Len(state) + k]] = ins[k]
                                /\ ~IsArray(ins[k]),
         FromArrow(a, state, ins, outs, init).err = "none"
  PROVE  WellFormed(FromArrow(a, state, ins, outs, init).val)
  <1> DEFINE g == a.graph
             n == Len(state)
             m == FromRaw(g, a.inputs, a.outputs, init, n)
             ws == [k \in DOMAIN state |-> Width(state[k])]
             si == StateIn(m)
             di == DataIn(m)
             ns == NextState(m)
  <1>1. /\ FromArrow(a, state, ins, outs, init).val = m
        /\ Len(a.inputs) = n + Len(ins) /\ Len(a.outputs) = n + Len(outs) /\ Len(init) = Total(ws)
    BY DEF FromArrow, When, Ok, Fail
  <1>2. m.graph = g /\ m.inputs = a.inputs /\ m.outputs = a.outputs /\ m.init = init /\ m.sc = n
    BY DEF FromRaw
  <1>3. /\ a.inputs \in Seq(Wires(g)) /\ a.outputs \in Seq(Wires(g))
        /\ n \in Nat /\ Len(ins) \in Nat /\ Len(outs) \in Nat
        /\ DOMAIN state = 1..n
    BY LenProperties DEF GraphFits, Shaped
  <1>4. GraphFits(m)
    <2> HIDE DEF m
    <2> QED BY <1>2, <1>3, GraphKept
  <1>5. n \in 0..Len(a.inputs) /\ n \in 0..Len(a.outputs)
    BY <1>1, <1>3
  <1>6. /\ Halves(Wires(g), a.inputs, n, si, di)
        /\ Halves(Wires(g), a.outputs, n, ns, DataOut(m))
    <2> DEFINE x == a.inputs
               y == a.outputs
    <2>1. /\ si = SubSeq(x, 1, n) /\ di = SubSeq(x, n + 1, Len(x))
          /\ ns = SubSeq(y, 1, n) /\ DataOut(m) = SubSeq(y, n + 1, Len(y))
      BY <1>2 DEF StateIn, DataIn, NextState, DataOut
    <2>2. x \in Seq(Wires(g)) /\ y \in Seq(Wires(g)) /\ n \in 0..Len(x) /\ n \in 0..Len(y)
      BY <1>3, <1>5
    <2> HIDE DEF x, y, n, si, di, ns, m, g
    <2>3. Halves(Wires(g), x, n, SubSeq(x, 1, n), SubSeq(x, n + 1, Len(x)))
      BY <2>2, SplitSeq
    <2>4. Halves(Wires(g), y, n, SubSeq(y, 1, n), SubSeq(y, n + 1, Len(y)))
      BY <2>2, SplitSeq
    <2> QED BY <2>1, <2>3, <2>4 DEF x, y
  <1> HIDE DEF si, di, ns, m
  <1>7. /\ si \in Seq(Wires(g)) /\ Len(si) = n /\ ns \in Seq(Wires(g)) /\ Len(ns) = n
        /\ di \in Seq(Wires(g)) /\ Len(di) = Len(ins)
        /\ \A k \in 1..n : si[k] = a.inputs[k] /\ ns[k] = a.outputs[k]
        /\ \A k \in 1..Len(ins) : di[k] = a.inputs[n + k]
    BY <1>1, <1>3, <1>6 DEF Halves
  <1>8. /\ DOMAIN si = 1..n /\ DOMAIN ns = 1..n /\ DOMAIN di = 1..Len(ins)
        /\ \A k \in 1..n : si[k] \in Wires(g) /\ ns[k] \in Wires(g)
        /\ \A k \in 1..Len(ins) : di[k] \in Wires(g)
    BY <1>7, LenProperties, ElementOfSeq
  <1> HIDE DEF n, g
  <1>9. Widths(g, si) = ws
    <2>1. \A k \in 1..n : WireWidth(g, si[k]) = Width(state[k])
      BY <1>7, <1>8 DEF WireWidth, n, g
    <2> QED BY <2>1, <1>3, <1>8 DEF Widths
  <1>10. StorageWidths(g, ns) = StorageWidths(g, si)
    <2>1. \A k \in 1..n : WireStorage(g, si[k]) = StorageBits(state[k])
      BY <1>7, <1>8 DEF WireStorage, n, g
    <2>2. \A k \in 1..n : WireStorage(g, ns[k]) = StorageBits(state[k])
      <3> SUFFICES ASSUME NEW k \in 1..n PROVE WireStorage(g, ns[k]) = StorageBits(state[k])
        OBVIOUS
      <3>1. ns[k] \in Wires(g) /\ g.wires[ns[k]] = state[k]
        BY <1>7, <1>8 DEF n, g
      <3> QED BY <3>1 DEF WireStorage
    <2> QED BY <2>1, <2>2, <1>8 DEF StorageWidths
  <1>11. StorageWidths(g, di) = Widths(g, di)
    <2>1. \A k \in 1..Len(ins) : WireStorage(g, di[k]) = WireWidth(g, di[k])
      BY <1>7, <1>8 DEF WireStorage, WireWidth, StorageBits, n, g
    <2> QED BY <2>1, <1>8 DEF StorageWidths, Widths
  <1>12. init \in BitSeq(Total(ws))
    <2> HIDE DEF ws
    <2> QED BY <1>1, LenProperties, ElementOfSeq DEF BitSeq
  <1>13. WellFormed(m)
    BY <1>2, <1>4, <1>5, <1>9, <1>10, <1>11, <1>12
    DEF WellFormed, StateWidths, InputWidths, CompactWidths, si, di, ns
  <1> QED BY <1>1, <1>13

---------------------------------------------------------------------------
(* Arrows composed *)

\* compose_arrows of two arrows that hang together does, when what the first
\* gives is as wide as what the second takes (arrow.rs:113-167).
THEOREM ComposedFits ==
  ASSUME NEW f, NEW g, GraphFits(f), GraphFits(g),
         StorageWidths(f.graph, f.outputs) = StorageWidths(g.graph, g.inputs)
  PROVE  GraphFits(Compose(f, g))
  <1> DEFINE N == WireCount(f.graph)
             K == WireCount(g.graph)
             from == g.inputs
             to == f.outputs
             h == MergeGraphs(f.graph, g.graph, from, to)
             outs == PlugAll(from, to, N, g.outputs)
             m == Compose(f, g)
  <1>1. m.graph = h /\ m.inputs = f.inputs /\ m.outputs = outs
    BY DEF Compose, Arrow
  <1>2. /\ ShapedGraph(f.graph) /\ ShapedGraph(g.graph)
        /\ f.inputs \in Seq(Wires(f.graph)) /\ to \in Seq(Wires(f.graph))
        /\ from \in Seq(Wires(g.graph)) /\ g.outputs \in Seq(Wires(g.graph))
    BY DEF GraphFits, Shaped, ShapedGraph
  <1>3. Len(from) = Len(to) /\ \A k \in 1..Len(from) : WireStorage(g.graph, from[k]) = WireStorage(f.graph, to[k])
    <2>1. StorageWidths(g.graph, from) = StorageWidths(f.graph, to)
      OBVIOUS
    <2> HIDE DEF from, to
    <2> QED BY <1>2, <2>1, SameLengths
  <1>4. N \in Nat /\ K \in Nat /\ Wires(f.graph) = 1..N /\ Wires(g.graph) = 1..K /\ Wires(h) = 1..(N + K)
    <2> HIDE DEF h, from, to
    <2>1. IsMerge(h, f.graph, g.graph, from, to)
      BY <1>2, <1>3, Merged DEF h
    <2> QED BY <2>1 DEF IsMerge, Wires
  <1>5. f.inputs \in Seq(Wires(h))
    <2>1. Wires(f.graph) \subseteq Wires(h)
      BY <1>4
    <2> HIDE DEF h
    <2> QED BY <1>2, <2>1, SeqMonotonic
  <1>6. /\ outs \in Seq(Wires(h))
        /\ \A x \in Range(outs) : \E w \in Range(g.outputs) : x = Plug(from, to, N, w)
    <2> DEFINE ws == g.outputs
    <2>1. ws \in Seq(1..K) /\ from \in Seq(1..K) /\ to \in Seq(1..N)
      BY <1>2, <1>4
    <2> HIDE DEF from, to, N, K, ws
    <2>2. /\ PlugAll(from, to, N, ws) \in Seq(1..(N + K))
          /\ \A x \in Range(PlugAll(from, to, N, ws)) : \E w \in Range(ws) : x = Plug(from, to, N, w)
      BY <2>1, <1>3, <1>4, PlugList
    <2> QED BY <2>2, <1>4 DEF ws
  <1>7. Range(outs) \subseteq Range(to) \cup {w + N : w \in Range(g.outputs) \ Range(from)}
    <2> SUFFICES ASSUME NEW x \in Range(outs)
                 PROVE  x \in Range(to) \/ \E w \in Range(g.outputs) \ Range(from) : x = w + N
      OBVIOUS
    <2>1. PICK w \in Range(g.outputs) : x = Plug(from, to, N, w)
      BY <1>6
    <2>2. w \in 1..K
      BY <1>2, <1>4, RangeOfSeq
    <2>3. from \in Seq(1..K) /\ to \in Seq(1..N)
      BY <1>2, <1>4
    <2> HIDE DEF from, to, N, K, outs
    <2>4. /\ w \in Range(from) => Plug(from, to, N, w) \in Range(to)
          /\ w \notin Range(from) => Plug(from, to, N, w) = w + N
      BY <2>2, <2>3, <1>3, <1>4, PlugWire
    <2> QED BY <2>1, <2>4
  <1>8. {w + N : w \in Range(g.inputs) \ Range(from)} = {}
    OBVIOUS
  <1>9. Joined(m, f, g, from, to)
    <2> HIDE DEF m, h, outs
    <2> QED BY <1>1, <1>2, <1>3, <1>5, <1>6, <1>7, <1>8 DEF Joined, h
  <1> QED BY <1>9, JoinedFits

\* tensor_arrows of two arrows that hang together does (arrow.rs:169-216).
THEOREM TensorFits ==
  ASSUME NEW f, NEW g, GraphFits(f), GraphFits(g)
  PROVE  GraphFits(Tensor(f, g))
  <1> DEFINE N == WireCount(f.graph)
             e == <<>>
             h == MergeGraphs(f.graph, g.graph, e, e)
             a == f.inputs
             b == ShiftWires(g.inputs, N)
             c == f.outputs
             d == ShiftWires(g.outputs, N)
             m == Tensor(f, g)
  <1>1. m.graph = h /\ m.inputs = a \o b /\ m.outputs = c \o d
    BY DEF Tensor, Arrow
  <1>2. /\ ShapedGraph(f.graph) /\ ShapedGraph(g.graph)
        /\ a \in Seq(Wires(f.graph)) /\ c \in Seq(Wires(f.graph))
        /\ g.inputs \in Seq(Wires(g.graph)) /\ g.outputs \in Seq(Wires(g.graph))
    BY DEF GraphFits, Shaped, ShapedGraph
  <1>3. /\ e \in Seq(Wires(g.graph)) /\ e \in Seq(Wires(f.graph)) /\ Len(e) = 0 /\ Range(e) = {}
    BY DEF Range
  <1>4. Carried(h, f.graph, g.graph, a, g.inputs) /\ Carried(h, f.graph, g.graph, c, g.outputs)
    <2> HIDE DEF a, c, e
    <2>1. Carried(h, f.graph, g.graph, a, g.inputs)
      BY <1>2, <1>3, MergedLists
    <2>2. Carried(h, f.graph, g.graph, c, g.outputs)
      BY <1>2, <1>3, MergedLists
    <2> QED BY <2>1, <2>2
  <1>5. /\ a \in Seq(Wires(h)) /\ b \in Seq(Wires(h)) /\ c \in Seq(Wires(h)) /\ d \in Seq(Wires(h))
        /\ Range(b) = {w + N : w \in Range(g.inputs)} /\ Range(d) = {w + N : w \in Range(g.outputs)}
    BY <1>4 DEF Carried
  <1>6. /\ a \o b \in Seq(Wires(h)) /\ Range(a \o b) = Range(a) \cup Range(b)
        /\ c \o d \in Seq(Wires(h)) /\ Range(c \o d) = Range(c) \cup Range(d)
    <2> DEFINE S == Wires(h)
    <2>1. a \in Seq(S) /\ b \in Seq(S) /\ c \in Seq(S) /\ d \in Seq(S)
      BY <1>5
    <2> HIDE DEF S, a, b, c, d
    <2>2. IsCut(S, a, b, a \o b)
      BY <2>1, CutConcat
    <2>3. IsCut(S, c, d, c \o d)
      BY <2>1, CutConcat
    <2> QED BY <2>2, <2>3 DEF IsCut, S
  <1>7. Joined(m, f, g, e, e)
    <2> HIDE DEF m, h, e, b, d, N
    <2> QED BY <1>1, <1>2, <1>3, <1>5, <1>6 DEF Joined, h, N
  <1> HIDE DEF m, e
  <1>8. GraphFits(m)
    BY <1>7, JoinedFits
  <1> QED BY <1>8 DEF m
=============================================================================
