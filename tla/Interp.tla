------------------------------- MODULE Interp ------------------------------
(***************************************************************************)
(* hdl-cat-sim/src/interp.rs: the value of one operation, and one cycle of *)
(* a graph.  A Rust Result is a record: err is "none" and val the value,   *)
(* or err names the error.  "Panic" is the arithmetic overflow check of a  *)
(* debug build (1 - 2 on an unsigned integer), which no Result carries.    *)
(*                                                                         *)
(* The environment is a Vec<Option<BitSeq>>; here it is a function whose   *)
(* domain is the set of wires that hold Some value.                        *)
(***************************************************************************)
EXTENDS HdlIr

Ok(v) == [err |-> "none", val |-> v]

Fail(e) == [err |-> e, val |-> <<>>]

When(condition, v) == IF condition THEN Ok(v) ELSE Fail("WidthMismatch")

BinValue(bin, a, b) ==
  LET n == Len(a)
  IN  CASE bin = "And" -> [i \in 1..n |-> a[i] * b[i]]
        [] bin = "Or"  -> [i \in 1..n |-> a[i] + b[i] - a[i] * b[i]]
        [] bin = "Xor" -> [i \in 1..n |-> (a[i] + b[i]) % 2]
        [] bin = "Add" -> FromNat(ToNat(a) + ToNat(b), n)
        [] bin = "Sub" -> FromNat((ToNat(a) - ToNat(b)) % 2^n, n)
        [] bin = "Mul" -> FromNat(ToNat(a) * ToNat(b), n)
        [] bin = "Eq"  -> <<IF ToNat(a) = ToNat(b) THEN 1 ELSE 0>>
        [] bin = "Lt"  -> <<IF ToNat(a) < ToNat(b) THEN 1 ELSE 0>>

ApplyBin(bin, a, b) == When(Len(a) = Len(b), BinValue(bin, a, b))

\* hi - lo is computed for the error too, and underflows when hi < lo.
ApplySlice(lo, hi, a) ==
  IF hi < lo THEN Fail("Panic") ELSE When(hi <= Len(a), SubSeq(a, lo + 1, hi))

\* depth - 1 underflows for an array of depth 0, once the lengths agree.
ApplyShiftIn(ew, depth, array, new) ==
  IF depth = 0 /\ Len(array) = 0 /\ Len(new) = ew
  THEN Fail("Panic")
  ELSE When(Len(array) = ew * depth /\ Len(new) = ew,
            new \o SubSeq(array, 1, (depth - 1) * ew))

ApplyTail(ew, depth, array) ==
  IF depth = 0 /\ Len(array) = 0
  THEN Fail("Panic")
  ELSE When(Len(array) = ew * depth,
            SubSeq(array, (depth - 1) * ew + 1, depth * ew))

\* The operands are as many as the builder's arity check let through.
ApplyOp(op, args) ==
  CASE op.op = "Not"    -> Ok([i \in 1..Len(args[1]) |-> 1 - args[1][i]])
    [] op.op = "Bin"    -> ApplyBin(op.bin, args[1], args[2])
    [] op.op = "Mux"    -> Ok(IF BitAt(args[1], 0) = 1 THEN args[3] ELSE args[2])
    [] op.op = "Const"  -> Ok(op.bits)
    [] op.op = "Reg"    -> Ok(args[1])
    [] op.op = "Concat" -> When(Len(args[1]) = op.low_width /\ Len(args[2]) = op.high_width,
                                args[1] \o args[2])
    [] op.op = "Slice"  -> ApplySlice(op.lo, op.hi, args[1])
    [] op.op = "ArrayShiftIn" ->
         ApplyShiftIn(op.element_width, op.depth, args[1], args[2])
    [] op.op = "ArrayTail"    -> ApplyTail(op.element_width, op.depth, args[1])

---------------------------------------------------------------------------
(* One cycle *)

Driven(g, ws) == {ws[k] : k \in DOMAIN ws} \cap Wires(g)

\* find_map: a wire listed twice takes the value of its first position.
FirstAt(ws, w) == CHOOSE k \in DOMAIN ws : ws[k] = w /\ \A j \in 1..(k - 1) : ws[j] # w

\* An environment that starts from zeros instead of nothing.
InputEnvZeroed(g, ws, vs) ==
  [w \in Wires(g) |-> IF w \in Driven(g, ws) THEN vs[FirstAt(ws, w)] ELSE <<0>>]

InputEnv(g, ws, vs) == [w \in Driven(g, ws) |-> vs[FirstAt(ws, w)]]

Readable(env, instr) == \A k \in DOMAIN instr.ins : instr.ins[k] \in DOMAIN env

Operands(env, instr) == [k \in DOMAIN instr.ins |-> env[instr.ins[k]]]

\* An environment that grows to the output, whatever the graph declares.
UpdateGrowing(g, env, w, v) == [x \in DOMAIN env \cup {w} |-> IF x = w THEN v ELSE env[x]]

\* A range check that is off by one.
UpdateBelowLast(g, env, w, v) ==
  IF w < WireCount(g)
  THEN [x \in DOMAIN env \cup {w} |-> IF x = w THEN v ELSE env[x]]
  ELSE env

\* The entries after the output's are not copied over.
UpdateTruncated(g, env, w, v) ==
  IF w \in Wires(g)
  THEN [x \in (DOMAIN env \cap 1..w) \cup {w} |-> IF x = w THEN v ELSE env[x]]
  ELSE env

\* The output's entry is overwritten; an output outside the graph is dropped.
Update(g, env, w, v) ==
  IF w \in Wires(g)
  THEN [x \in DOMAIN env \cup {w} |-> IF x = w THEN v ELSE env[x]]
  ELSE env

\* A lookup that takes a wire without a value to be zero.
StepDefaulting(g, env, instr) ==
  LET args == [k \in DOMAIN instr.ins |->
                 IF instr.ins[k] \in DOMAIN env THEN env[instr.ins[k]] ELSE <<0>>]
      r == ApplyOp(instr.op, args)
  IN  IF r.err # "none" THEN r ELSE Ok(Update(g, env, instr.out, r.val))

StepInstruction(g, env, instr) ==
  LET r == ApplyOp(instr.op, Operands(env, instr))
  IN  IF ~Readable(env, instr) THEN Fail("UndefinedSignal")
      ELSE IF r.err # "none" THEN r
      ELSE Ok(Update(g, env, instr.out, r.val))

\* The whole cycle: instructions in declaration order, the first error ends it.
Interpret(g, ws, vs) ==
  LET run[k \in 0..Len(g.instrs)] ==
        IF k = 0 THEN Ok(InputEnv(g, ws, vs))
        ELSE LET before == run[k - 1]
             IN  IF before.err # "none" THEN before
                 ELSE StepInstruction(g, before.val, g.instrs[k])
  IN  IF Len(ws) # Len(vs) THEN Fail("WidthMismatch") ELSE run[Len(g.instrs)]
=============================================================================
