---------------------------- MODULE KernelChecked ---------------------------
(***************************************************************************)
(* The kernel macro against Rust, down to values: what the source function *)
(* would return if it were compiled as it stands, with the operators of    *)
(* bool, Bits and SignedBits, beside what the arrow of the generated       *)
(* function computes.                                                      *)
(***************************************************************************)
EXTENDS KernelTypes, HwTypes, RunCycles

---------------------------------------------------------------------------
(* The values of Rust expressions *)

Truth(p) == IF p THEN 1 ELSE 0

RustBin(op, t, a, b) ==
  CASE op = "==" -> Truth(a = b)
    [] op = "<"  -> Truth(a < b)
    [] op = "&"  -> a & b
    [] op = "|"  -> a | b
    [] op = "^"  -> a ^^ b
    [] op = "+"  -> IF t.desc = "Bits" THEN BitsAdd(t.n, a, b) ELSE SignedAdd(t.n, a, b)
    [] op = "-"  -> IF t.desc = "Bits" THEN BitsSub(t.n, a, b) ELSE SignedSub(t.n, a, b)
    [] op = "*"  -> IF t.desc = "Bits" THEN BitsMul(t.n, a, b) ELSE SignedMul(t.n, a, b)

RustUn(op, t, a) ==
  CASE t.desc = "Bool"   -> 1 - a
    [] t.desc = "Bits"   -> BitsNot(t.n, a)
    [] t.desc = "Signed" -> SignedNeg(t.n, a)

\* The operands that wait for their operator, with their types, after one more
\* node of a well-typed expression; tys and vals map the visible names.
RustNode(stack, node, tys, vals) ==
  LET n == Len(stack)
  IN  CASE node.expr = "Path" ->
             Append(stack, [ty |-> tys[node.name], val |-> vals[node.name]])
        [] node.expr = "Binary" ->
             Append(SubSeq(stack, 1, n - 2),
                    [ty  |-> RustBinTy(node.op, stack[n - 1].ty, stack[n].ty),
                     val |-> RustBin(node.op, stack[n - 1].ty, stack[n - 1].val, stack[n].val)])
        [] node.expr = "Unary" ->
             Append(SubSeq(stack, 1, n - 1),
                    [ty  |-> RustUnTy(node.op, stack[n].ty),
                     val |-> RustUn(node.op, stack[n].ty, stack[n].val)])

RustValue(e, tys, vals) ==
  LET stacks[k \in 0..Len(e)] ==
        IF k = 0 THEN <<>> ELSE LET before == stacks[k - 1] IN RustNode(before, e[k], tys, vals)
  IN  stacks[Len(e)][1].val

ArgTypes == [k \in DOMAIN args |-> args[k].ty]

Returned(argVals) ==
  LET scopes == Scopes(ParamTypes, lets)
      params == [n \in DOMAIN ParamTypes |->
                   argVals[CHOOSE k \in DOMAIN args : args[k].name = n]]
      vals[k \in 0..Len(lets)] ==
        IF k = 0 THEN params
        ELSE LET before == vals[k - 1]
             IN  AfterLet(before, lets[k], RustValue(lets[k].init[1], scopes[k - 1], before))
  IN  RustValue(tail[1].expr, ScopeTypes, vals[Len(lets)])

---------------------------------------------------------------------------
(* The arguments as one Hw value: flat, nested, or an array *)

Packings(ts, vs) ==
  LET same == \A k \in DOMAIN ts : ts[k] = ts[1]
  IN  {[ty |-> TupleT(ts), val |-> vs],
       [ty |-> TupleT(<<ts[1], TupleT(Tail(ts))>>), val |-> <<vs[1], Tail(vs)>>]}
        \cup (IF same THEN {[ty |-> ArrayT(ts[1], Len(ts)), val |-> vs]} ELSE {})

\* kernel_macro.rs: the arrow is lifted to a machine and run for one cycle.
RunKernel(bits) == RunCycle(LiftComb(arrow), <<>>, bits)

---------------------------------------------------------------------------
(* Properties *)

\* A promised kernel computes in hardware what its source computes in Rust:
\* for all arguments, however they are packed, the sample of the lifted arrow
\* unpacks to the value the body has with the operators of bool, Bits and
\* SignedBits.  Shadowing, the order of operands, wrapping and signs all have
\* to agree between five crates (lib.rs:338-493, kernel_macro.rs:47-75).
KernelComputes ==
  (status = "expanded" /\ Promised) =>
    \A vs \in ValuesOf(TupleT(ArgTypes)) : \A p \in Packings(ArgTypes, vs) :
      LET r == RunKernel(ToBitsSeq(p.ty, p.val))
      IN  /\ r.err = "none"
          /\ FromBitsSeq(ret, r.val.sample) = Ok(Returned(vs))

\* What is packed is read back: no two arguments share an encoding, and the
\* width is the type's (hw.rs:17-21).
PackingInverts ==
  status = "body" =>
    \A vs \in ValuesOf(TupleT(ArgTypes)) : \A p \in Packings(ArgTypes, vs) :
      LET bits == ToBitsSeq(p.ty, p.val)
      IN  Len(bits) = HwWidth(p.ty) /\ FromBitsSeq(p.ty, bits) = Ok(p.val)

=============================================================================
