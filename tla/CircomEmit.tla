----------------------------- MODULE CircomEmit -----------------------------
(***************************************************************************)
(* hdl-cat-circom/src/emitter.rs: the Circom template emitted for a graph, *)
(* and for a machine unrolled over a number of cycles.  Every bit of every *)
(* wire is a field signal of its own.  A plain template is cycle 0 here,   *)
(* which only matters for names.  A component and the statements that      *)
(* drive its ports are one statement; includes are left out.               *)
(***************************************************************************)
EXTENDS RunCycles

\* Bits of the integer the emitter shifts literals in: 128 in the code.
CONSTANT LiteralBits

ASSUME LiteralBitsAssumption == LiteralBits \in Nat

---------------------------------------------------------------------------
(* Signals, expressions and statements *)

\* Bit i of wire w in cycle k, and of the output of w's component.
Signal(w, k, i) == <<"wire", w, k, i>>
ComponentSignal(w, k, i) == <<"component", w, k, i>>

Bundle(g, w, k) == {Signal(w, k, i) : i \in 0..WireStorage(g, w) - 1}

SignalExpr(s) == [e |-> "Signal", s |-> s]
LiteralExpr(v) == [e |-> "Literal", v |-> v]
PlusExpr(a, b) == [e |-> "Add", a |-> a, b |-> b]
MinusExpr(a, b) == [e |-> "Sub", a |-> a, b |-> b]
TimesExpr(a, b) == [e |-> "Mul", a |-> a, b |-> b]
PackExpr(signals) == [e |-> "Bits2Num", bits |-> signals]

BitRef(w, k, i) == SignalExpr(Signal(w, k, i))

\* The number on the first n bits of a wire.
BitsToNum(w, n, k) == PackExpr([i \in 1..n |-> Signal(w, k, i - 1)])

\* 1u128.checked_shl(n).unwrap_or(0)
Shifted(n) == IF n < LiteralBits THEN 2^n ELSE 0

\* What bit i counts for in a rendered Bits2Num.
Coefficient(i) == Shifted(i)

AssignStmt(signal, rhs) == [s |-> "Assign", lhs |-> signal, rhs |-> rhs]
ConstraintStmt(expr) == [s |-> "Constraint", rhs |-> expr]
ComponentStmt(template, n, w, k, ins) ==
  [s |-> "Component", template |-> template, n |-> n, w |-> w, k |-> k, ins |-> ins]

\* rhs drives the low bits of w, one statement each.
DriveBits(w, k, rhs) ==
  [i \in DOMAIN rhs |-> AssignStmt(Signal(w, k, i - 1), rhs[i])]

BooleanConstraint(w, k, i) ==
  ConstraintStmt(TimesExpr(BitRef(w, k, i), MinusExpr(BitRef(w, k, i), LiteralExpr(1))))

\* The input bits of cycle k, wire by wire.
BooleanConstraints(g, ws, k) ==
  FlattenSeq([j \in DOMAIN ws |->
    [i \in 1..WireStorage(g, ws[j]) |-> BooleanConstraint(ws[j], k, i - 1)]])

---------------------------------------------------------------------------
(* Lowering one instruction; n is the storage width of its output *)

LowerNot(n, a, k) == [i \in 1..n |-> MinusExpr(LiteralExpr(1), BitRef(a, k, i - 1))]

LowerBitwise(bin, n, a, b, k) ==
  LET x(i) == BitRef(a, k, i - 1)
      y(i) == BitRef(b, k, i - 1)
      both(i) == TimesExpr(x(i), y(i))
  IN  [i \in 1..n |->
         CASE bin = "And" -> both(i)
           [] bin = "Or"  -> MinusExpr(PlusExpr(x(i), y(i)), both(i))
           [] bin = "Xor" -> MinusExpr(PlusExpr(x(i), y(i)),
                                       TimesExpr(LiteralExpr(2), both(i)))]

LowerMux(n, sel, f, t, k) ==
  [i \in 1..n |->
     PlusExpr(TimesExpr(BitRef(sel, k, 0), MinusExpr(BitRef(t, k, i - 1), BitRef(f, k, i - 1))),
              BitRef(f, k, i - 1))]

LowerConst(bits) == [i \in DOMAIN bits |-> LiteralExpr(bits[i])]

LowerSlice(lo, hi, a, k) == [i \in 1..(hi - lo) |-> BitRef(a, k, lo + i - 1)]

LowerConcat(lw, hw, low, high, k) ==
  [i \in 1..lw |-> BitRef(low, k, i - 1)] \o [i \in 1..hw |-> BitRef(high, k, i - 1)]

LowerShiftIn(ew, d, array, new, k) ==
  [i \in 1..ew |-> BitRef(new, k, i - 1)]
    \o [i \in 1..(IF d = 0 THEN 0 ELSE d - 1) * ew |-> BitRef(array, k, i - 1)]

LowerTail(ew, d, array, k) ==
  [i \in 1..ew |-> BitRef(array, k, (IF d = 0 THEN 0 ELSE d - 1) * ew + i - 1)]

\* num2bits_wrap: decompose into bits many bits, keep the low n.
Num2BitsWrap(n, bits, w, k, rhs) ==
  <<ComponentStmt("Num2Bits", bits, w, k, <<rhs>>)>>
    \o DriveBits(w, k, [i \in 1..n |-> SignalExpr(ComponentSignal(w, k, i - 1))])

\* Subtraction without the bias that keeps it from going below zero.
LowerArithmeticUnbiased(bin, n, w, a, b, k) ==
  LET x == BitsToNum(a, n, k)
      y == BitsToNum(b, n, k)
  IN  Num2BitsWrap(n, IF bin = "Mul" THEN 2 * n ELSE n + 1, w, k,
        CASE bin = "Add" -> PlusExpr(x, y)
          [] bin = "Sub" -> MinusExpr(x, y)
          [] bin = "Mul" -> TimesExpr(x, y))

\* lower_add, lower_sub, lower_mul
LowerArithmetic(bin, n, w, a, b, k) ==
  LET x == BitsToNum(a, n, k)
      y == BitsToNum(b, n, k)
  IN  IF n = 1
      THEN DriveBits(w, k, LowerBitwise(IF bin = "Mul" THEN "And" ELSE "Xor", 1, a, b, k))
      ELSE CASE bin = "Add" -> Num2BitsWrap(n, n + 1, w, k, PlusExpr(x, y))
             [] bin = "Sub" -> Num2BitsWrap(n, n + 1, w, k,
                                 PlusExpr(MinusExpr(x, y), LiteralExpr(Shifted(n))))
             [] bin = "Mul" -> Num2BitsWrap(n, 2 * n, w, k, TimesExpr(x, y))

\* lower_eq, lower_lt: at the widths of the operands.
LowerCompare(g, bin, w, a, b, k) ==
  <<ComponentStmt(IF bin = "Eq" THEN "IsEqual" ELSE "LessThan", WireStorage(g, a), w, k,
                  <<BitsToNum(a, WireStorage(g, a), k), BitsToNum(b, WireStorage(g, b), k)>>),
    AssignStmt(Signal(w, k, 0), SignalExpr(ComponentSignal(w, k, 0)))>>

\* lower_instruction, but for Reg, which no template lowers.
Lower(g, instr, k) ==
  LET op == instr.op
      w  == instr.out
      a  == instr.ins[1]
      b  == instr.ins[2]
      n  == WireStorage(g, w)
  IN  CASE op.op = "Bin" /\ op.bin \in {"Add", "Sub", "Mul"} -> LowerArithmetic(op.bin, n, w, a, b, k)
        [] op.op = "Bin" /\ op.bin \in {"Eq", "Lt"} -> LowerCompare(g, op.bin, w, a, b, k)
        [] op.op = "Bin" /\ op.bin \in {"And", "Or", "Xor"} ->
             DriveBits(w, k, LowerBitwise(op.bin, n, a, b, k))
        [] op.op = "Not"    -> DriveBits(w, k, LowerNot(n, a, k))
        [] op.op = "Mux"    -> DriveBits(w, k, LowerMux(n, a, b, instr.ins[3], k))
        [] op.op = "Const"  -> DriveBits(w, k, LowerConst(op.bits))
        [] op.op = "Slice"  -> DriveBits(w, k, LowerSlice(op.lo, op.hi, a, k))
        [] op.op = "Concat" -> DriveBits(w, k, LowerConcat(op.low_width, op.high_width, a, b, k))
        [] op.op = "ArrayShiftIn" ->
             DriveBits(w, k, LowerShiftIn(op.element_width, op.depth, a, b, k))
        [] op.op = "ArrayTail" -> DriveBits(w, k, LowerTail(op.element_width, op.depth, a, k))

LowerAll(g, k) == FlattenSeq([e \in DOMAIN g.instrs |-> Lower(g, g.instrs[e], k)])

HasReg(g) == \E e \in DOMAIN g.instrs : g.instrs[e].op.op = "Reg"

---------------------------------------------------------------------------
(* Templates *)

Template(inputs, outputs, intermediates, body, publics) ==
  [inputs |-> inputs, outputs |-> outputs, intermediates |-> intermediates,
   body |-> body, publics |-> publics]

\* Every wire that is not in ports, in cycle k.
Inner(g, ports, k) == {<<w, k>> : w \in Wires(g) \ ports}

\* build_template
BuildTemplate(g, ins, outs, publics) ==
  LET At(ws) == [j \in DOMAIN ws |-> <<ws[j], 0>>]
  IN  IF ~(ToSet(publics) \subseteq ToSet(ins)) THEN Fail("UndefinedSignal")
      ELSE IF HasReg(g) THEN Fail("UnsupportedInCircom")
      ELSE Ok(Template(At(ins), At(outs), Inner(g, ToSet(ins) \cup ToSet(outs), 0),
                       BooleanConstraints(g, ins, 0) \o LowerAll(g, 0), At(publics)))

\* Only as many bits as the compact initial state has.
InitialStateCompact(m) ==
  LET from(j) == Total(SubSeq(CompactWidths(m), 1, j - 1))
  IN  FlattenSeq([j \in DOMAIN StateIn(m) |->
        [i \in 1..CompactWidths(m)[j] |->
           AssignStmt(Signal(StateIn(m)[j], 0, i - 1), LiteralExpr(BitAt(m.init, from(j) + i - 1)))]])

\* cycle_zero_state_assigns: each element of an array starts with its wire's
\* slice of the compact initial state; bits that are missing read as zero.
InitialState(m) ==
  LET from(j) == Total(SubSeq(CompactWidths(m), 1, j - 1))
      value(j, i) == BitAt(m.init, from(j) + (i % CompactWidths(m)[j]))
  IN  FlattenSeq([j \in DOMAIN StateIn(m) |->
        [i \in 1..WireStorage(m.graph, StateIn(m)[j]) |->
           AssignStmt(Signal(StateIn(m)[j], 0, i - 1), LiteralExpr(value(j, i - 1)))]])

\* Plumbing that reads the state itself, not the next state.
PlumbingFromState(m, k) ==
  FlattenSeq([j \in DOMAIN StateIn(m) |->
    [i \in 1..WireStorage(m.graph, StateIn(m)[j]) |->
       AssignStmt(Signal(StateIn(m)[j], k, i - 1), BitRef(StateIn(m)[j], k - 1, i - 1))]])

\* The state of cycle k is the next state of cycle k - 1.
Plumbing(m, k) ==
  FlattenSeq([j \in DOMAIN StateIn(m) |->
    [i \in 1..WireStorage(m.graph, StateIn(m)[j]) |->
       AssignStmt(Signal(StateIn(m)[j], k, i - 1), BitRef(NextState(m)[j], k - 1, i - 1))]])

\* build_unrolled_template and assemble_unrolled_template
BuildUnrolled(m, cycles) ==
  LET g == m.graph
      Ports(ws) == FlattenSeq([c \in 1..cycles |-> [j \in DOMAIN ws |-> <<ws[j], c - 1>>]])
      data == ToSet(DataIn(m)) \cup ToSet(DataOut(m))
  IN  IF \/ m.sc > Len(m.inputs) \/ m.sc > Len(m.outputs)
         \/ cycles = 0
         \/ HasReg(g)
      THEN Fail("UnsupportedInCircom")
      ELSE Ok(Template(Ports(DataIn(m)), Ports(DataOut(m)),
                UNION {Inner(g, data, k) : k \in 0..cycles - 1},
                InitialState(m)
                  \o FlattenSeq([k \in 1..cycles - 1 |-> Plumbing(m, k)])
                  \o FlattenSeq([c \in 1..cycles |-> BooleanConstraints(g, DataIn(m), c - 1)])
                  \o FlattenSeq([c \in 1..cycles |-> LowerAll(g, c - 1)]),
                <<>>))
=============================================================================
