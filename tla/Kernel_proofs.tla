---------------------------- MODULE Kernel_proofs ---------------------------
(***************************************************************************)
(* The kernel macro, for every source function: of whatever size, with any *)
(* names, types and operators.                                             *)
(***************************************************************************)
EXTENDS KernelTypes, Interp_proofs

---------------------------------------------------------------------------
(* Lists that grow by one element                                          *)

Listed(v) == Len(v) \in Nat /\ IsList(v, Len(v))

\* w is v with x after it.
Longer(w, v, x) ==
  /\ Listed(w)
  /\ Len(w) = Len(v) + 1
  /\ DOMAIN w = 1..(Len(v) + 1)
  /\ \A k \in 1..Len(v) : w[k] = v[k]
  /\ w[Len(v) + 1] = x

LEMMA AppendIsLonger ==
  ASSUME NEW v, Listed(v), NEW x
  PROVE  Longer(Append(v, x), v, x)
  <1> DEFINE S == Range(v) \cup {x}
             w == Append(v, x)
  <1>1. v \in Seq(Range(v)) /\ Range(v) \subseteq S
    BY ListIsSeq DEF Listed
  <1>2. v \in Seq(S) /\ x \in S
    <2> HIDE DEF S
    <2>1. v \in Seq(S)
      BY <1>1, SeqMonotonic
    <2> QED BY <2>1 DEF S
  <1>3. /\ w \in Seq(S) /\ Len(w) = Len(v) + 1
        /\ \A k \in 1..Len(v) : w[k] = v[k]
        /\ w[Len(v) + 1] = x
    <2> HIDE DEF S
    <2> QED BY <1>2, AppendProperties
  <1>4. Listed(w) /\ DOMAIN w = 1..Len(w)
    <2> HIDE DEF S, w
    <2> QED BY <1>3, SeqIsList, LenProperties DEF Listed
  <1> QED BY <1>3, <1>4 DEF Longer

LEMMA NothingListed == Listed(<<>>) /\ Len(<<>>) = 0
  <1>1. <<>> \in Seq({})
    BY EmptySeq
  <1> QED BY <1>1, EmptySeq, SeqIsList DEF Listed

LEMMA ListedDomain ==
  ASSUME NEW v, Listed(v)
  PROVE  DOMAIN v = 1..Len(v) /\ Len(v) \in Nat
  BY ListIsSeq DEF Listed

LEMMA SeqIsListed ==
  ASSUME NEW S, NEW v \in Seq(S)
  PROVE  Listed(v)
  BY SeqIsList DEF Listed

\* The first m elements of a list.
LEMMA FrontOfList ==
  ASSUME NEW v, Listed(v), NEW m \in Nat, m <= Len(v)
  PROVE  /\ Listed(SubSeq(v, 1, m)) /\ Len(SubSeq(v, 1, m)) = m
         /\ \A k \in 1..m : SubSeq(v, 1, m)[k] = v[k]
  <1> DEFINE w == SubSeq(v, 1, m)
             n == Len(v)
  <1>1. n \in Nat /\ IsList(v, n) /\ 0 + m <= n /\ 0 \in Nat
    BY DEF Listed
  <1>2. IsList(w, m) /\ \A k \in 1..m : w[k] = v[0 + k]
    <2>1. /\ IsList(SubSeq(v, 0 + 1, 0 + m), m)
          /\ \A k \in 1..m : SubSeq(v, 0 + 1, 0 + m)[k] = v[0 + k]
      <3> HIDE DEF n
      <3> QED BY <1>1, PieceOfList
    <2>2. 0 + 1 = 1 /\ 0 + m = m
      OBVIOUS
    <2> QED BY <2>1, <2>2
  <1>3. Len(w) = m
    <2> HIDE DEF w
    <2> QED BY <1>2, ListIsSeq
  <1>4. \A k \in 1..m : w[k] = v[k]
    <2> HIDE DEF w
    <2> QED BY <1>2
  <1> QED BY <1>2, <1>3, <1>4 DEF Listed

\* A set of positions has a greatest.
LEMMA GreatestIsMember ==
  ASSUME NEW n \in Nat, NEW at \in SUBSET (1..n), at # {}
  PROVE  Max(at) \in at /\ \A k \in at : Max(at) >= k
  <1> DEFINE mirror == {n + 1 - k : k \in at}
  <1>1. mirror \in SUBSET (1..n) /\ mirror # {} /\ n \in Int
    <2>1. \A k \in at : n + 1 - k \in 1..n
      OBVIOUS
    <2>2. mirror # {}
      OBVIOUS
    <2> QED BY <2>1, <2>2
  <1>2. PICK j \in mirror : \A i \in mirror : j =< i
    <2> HIDE DEF mirror
    <2> QED BY <1>1, LeastExists
  <1>3. PICK k \in at : j = n + 1 - k
    BY <1>2
  <1>4. ASSUME NEW i \in at PROVE k >= i
    <2>1. j =< n + 1 - i
      BY <1>2
    <2> QED BY <2>1, <1>3
  <1>5. \E x \in at : \A y \in at : x >= y
    BY <1>4
  <1> QED BY <1>5 DEF Max

---------------------------------------------------------------------------
(* Identifiers and contexts.  ps are the parameters.                       *)

IsParams(ps) ==
  /\ Listed(ps)
  /\ \A k \in 1..Len(ps) : ps[k].id = ArgIdent(ps[k].name)

\* id stands for a parameter or for one of the first m results.
Named(ps, m, id) ==
  \/ \E k \in 1..Len(ps) : id = ps[k].id
  \/ \E j \in 1..m : id = TmpIdent(j - 1)

\* id is an identifier of the generated function whose wire carries a ty.
Carries(ps, c, id, ty) ==
  \/ \E k \in 1..Len(ps) : id = ps[k].id /\ ty = ps[k].ty
  \/ \E j \in 1..c.fresh : id = TmpIdent(j - 1) /\ c.stmts[j].ty = WireTyTokens(ty)

\* The k-th statement drives the k-th fresh identifier from older ones.
StmtInOrder(ps, c, k) ==
  LET s == c.stmts[k]
  IN  /\ s.out = TmpIdent(k - 1)
      /\ \A i \in DOMAIN s.ins : Named(ps, k - 1, s.ins[i])

\* A context as it grows: the counter counts the statements, each statement
\* is in order, and the scope names what there is.
IsCtx(c) ==
  /\ c = [stmts |-> c.stmts, env |-> c.env, fresh |-> c.fresh]
  /\ Listed(c.stmts) /\ Listed(c.env) /\ c.fresh = Len(c.stmts)

InOrder(ps, c) ==
  /\ IsCtx(c)
  /\ \A k \in 1..c.fresh : StmtInOrder(ps, c, k)
  /\ \A k \in 1..Len(c.env) : Carries(ps, c, c.env[k].id, c.env[k].ty)

OperandsCarry(ps, x) ==
  /\ Listed(x.stack)
  /\ \A k \in 1..Len(x.stack) : Carries(ps, x.ctx, x.stack[k].id, x.stack[k].ty)

\* What compile_expr keeps up after every node.
Halfway(ps, env, x) ==
  /\ InOrder(ps, x.ctx) /\ x.ctx.env = env
  /\ OperandsCarry(ps, x)

LEMMA CarriedIsNamed ==
  ASSUME NEW ps, NEW c, NEW id, NEW ty, Carries(ps, c, id, ty)
  PROVE  Named(ps, c.fresh, id)
  BY DEF Carries, Named

\* The youngest binding of a name, if there is one.
LEMMA LookupFinds ==
  ASSUME NEW c, Listed(c.env), NEW name
  PROVE  \/ /\ Lookup(c, name) = CompileError
            /\ \A k \in 1..Len(c.env) : c.env[k].name # name
         \/ \E k \in 1..Len(c.env) :
              /\ Lookup(c, name) = Ok(c.env[k]) /\ c.env[k].name = name
              /\ \A j \in 1..Len(c.env) : c.env[j].name = name => j <= k
  <1> DEFINE at == {k \in DOMAIN c.env : c.env[k].name = name}
             n == Len(c.env)
  <1>1. DOMAIN c.env = 1..n /\ n \in Nat
    BY ListedDomain
  <1>2. Lookup(c, name) = IF at = {} THEN CompileError ELSE Ok(c.env[Max(at)])
    BY DEF Lookup
  <1>3. CASE at = {}
    BY <1>1, <1>2, <1>3
  <1>4. CASE at # {}
    <2>1. at \in SUBSET (1..n)
      BY <1>1
    <2>2. Max(at) \in at /\ \A k \in at : Max(at) >= k
      <3> HIDE DEF at, n
      <3> QED BY <1>1, <2>1, <1>4, GreatestIsMember
    <2>3. Max(at) \in 1..n /\ c.env[Max(at)].name = name
      BY <2>2, <1>1
    <2>4. ASSUME NEW j \in 1..n, c.env[j].name = name PROVE j <= Max(at)
      <3>1. j \in at
        BY <2>4, <1>1
      <3>2. Max(at) \in Nat
        BY <2>3, <1>1
      <3> HIDE DEF at, n
      <3> QED BY <3>1, <3>2, <2>2
    <2>5. Lookup(c, name) = Ok(c.env[Max(at)])
      BY <1>2, <1>4
    <2> HIDE DEF at
    <2> QED BY <2>3, <2>4, <2>5
  <1> QED BY <1>3, <1>4

---------------------------------------------------------------------------
(* One node of an expression                                               *)

\* y is x after an instruction on its last n operands.
Emitted(x, op, n, y) ==
  LET rest == Len(x.stack) - n
      c == x.ctx
      d == y.ctx
      s == d.stmts[c.fresh + 1]
  IN  /\ IsCtx(d) /\ d.env = c.env /\ d.fresh = c.fresh + 1
      /\ \A k \in 1..c.fresh : d.stmts[k] = c.stmts[k]
      /\ s.op = op /\ s.out = TmpIdent(c.fresh)
      /\ s.ins = [k \in 1..n |-> x.stack[rest + k].id]
      /\ s.ty = WireTyTokens(x.stack[rest + 1].ty)
      /\ Listed(y.stack) /\ Len(y.stack) = rest + 1
      /\ \A k \in 1..rest : y.stack[k] = x.stack[k]
      /\ y.stack[rest + 1] = Operand(TmpIdent(c.fresh), x.stack[rest + 1].ty)

Grown(c, s, n) == [c EXCEPT !.stmts = s, !.fresh = n]

LEMMA ContextGrows ==
  ASSUME NEW c, IsCtx(c), NEW s, NEW n
  PROVE  Grown(c, s, n) = [stmts |-> s, env |-> c.env, fresh |-> n]
  <1>1. PICK t, e, m : c = [stmts |-> t, env |-> e, fresh |-> m]
    BY DEF IsCtx
  <1>2. c.env = e
    BY <1>1
  <1>3. [c EXCEPT !.stmts = s] = [stmts |-> s, env |-> e, fresh |-> m]
    BY <1>1
  <1>4. Grown(c, s, n) = [[stmts |-> s, env |-> e, fresh |-> m] EXCEPT !.fresh = n]
    BY <1>3, Zenon DEF Grown
  <1> QED BY <1>2, <1>4

LEMMA EmitDoes ==
  ASSUME NEW x, IsCtx(x.ctx), Listed(x.stack), NEW op, NEW n \in 1..2, n <= Len(x.stack)
  PROVE  Emitted(x, op, n, Emit(x, op, n))
  <1> DEFINE rest == Len(x.stack) - n
             c == x.ctx
             ty == x.stack[rest + 1].ty
             out == TmpIdent(c.fresh)
             stmt == [op |-> op, ins |-> [k \in 1..n |-> x.stack[rest + k].id], out |-> out,
                      ty |-> WireTyTokens(ty)]
             front == SubSeq(x.stack, 1, rest)
             stack == Append(front, Operand(out, ty))
             stmts == Append(c.stmts, stmt)
             d == [c EXCEPT !.stmts = stmts, !.fresh = c.fresh + 1]
             y == Emit(x, op, n)
  <1>1. y = Compiling(d, stack)
    BY DEF Emit
  <1>2. rest \in Nat /\ rest <= Len(x.stack)
    BY DEF Listed
  <1>3. /\ Listed(front) /\ Len(front) = rest
        /\ \A k \in 1..rest : front[k] = x.stack[k]
    <2> HIDE DEF rest
    <2> QED BY <1>2, FrontOfList
  <1>4. Longer(stack, front, Operand(out, ty))
    <2> HIDE DEF front, out, ty
    <2> QED BY <1>3, AppendIsLonger
  <1>5. Longer(stmts, c.stmts, stmt)
    <2> HIDE DEF stmt
    <2> QED BY AppendIsLonger DEF IsCtx
  <1>6. d = [stmts |-> stmts, env |-> c.env, fresh |-> c.fresh + 1]
    <2>1. d = Grown(c, stmts, c.fresh + 1)
      BY DEF Grown
    <2> HIDE DEF d, stmts
    <2> QED BY <2>1, ContextGrows
  <1>7. y.ctx = d /\ y.stack = stack
    <2> HIDE DEF d, stack, y
    <2> QED BY <1>1 DEF Compiling
  <1>8. c.fresh = Len(c.stmts) /\ Listed(c.env)
    BY DEF IsCtx
  <1>9. /\ d.stmts = stmts /\ d.env = c.env /\ d.fresh = c.fresh + 1
        /\ d = [stmts |-> d.stmts, env |-> d.env, fresh |-> d.fresh]
    <2> HIDE DEF d, stmts
    <2> QED BY <1>6
  <1>10. IsCtx(d)
    <2> HIDE DEF d, stmts, stmt
    <2> QED BY <1>9, <1>5, <1>8 DEF IsCtx, Longer
  <1>11. /\ \A k \in 1..c.fresh : d.stmts[k] = c.stmts[k]
         /\ d.stmts[c.fresh + 1] = stmt
    <2> HIDE DEF d, stmts, stmt
    <2> QED BY <1>9, <1>5, <1>8 DEF Longer
  <1>12. /\ Listed(stack) /\ Len(stack) = rest + 1
         /\ \A k \in 1..rest : stack[k] = x.stack[k]
         /\ stack[rest + 1] = Operand(out, ty)
    <2> HIDE DEF stack, front, rest
    <2> QED BY <1>3, <1>4 DEF Longer
  <1>13. /\ stmt.op = op /\ stmt.out = out /\ stmt.ty = WireTyTokens(ty)
         /\ stmt.ins = [k \in 1..n |-> x.stack[rest + k].id]
    OBVIOUS
  <1>14. Emitted(x, op, n, y)
    <2> HIDE DEF d, stack, stmts, stmt, y
    <2> QED BY <1>7, <1>9, <1>10, <1>11, <1>12, <1>13 DEF Emitted
  <1> QED BY <1>14

LEMMA EmitInOrder ==
  ASSUME NEW ps, NEW env, NEW x, Halfway(ps, env, x), NEW op, NEW n \in 1..2,
         n <= Len(x.stack), NEW y, Emitted(x, op, n, y)
  PROVE  Halfway(ps, env, y)
  <1> DEFINE rest == Len(x.stack) - n
             c == x.ctx
             d == y.ctx
             m == c.fresh
  <1>1. /\ IsCtx(c) /\ c.env = env /\ Listed(x.stack)
        /\ \A k \in 1..m : StmtInOrder(ps, c, k)
        /\ \A k \in 1..Len(env) : Carries(ps, c, env[k].id, env[k].ty)
        /\ \A k \in 1..Len(x.stack) : Carries(ps, c, x.stack[k].id, x.stack[k].ty)
    BY DEF Halfway, InOrder, OperandsCarry
  <1>2. m \in Nat /\ Len(x.stack) \in Nat /\ rest \in Nat /\ rest + n = Len(x.stack)
    BY <1>1 DEF IsCtx, Listed
  <1>3. /\ IsCtx(d) /\ d.env = env /\ d.fresh = m + 1
        /\ \A k \in 1..m : d.stmts[k] = c.stmts[k]
        /\ d.stmts[m + 1].out = TmpIdent(m)
        /\ d.stmts[m + 1].ins = [k \in 1..n |-> x.stack[rest + k].id]
        /\ d.stmts[m + 1].ty = WireTyTokens(x.stack[rest + 1].ty)
    BY <1>1 DEF Emitted
  <1>4. /\ Listed(y.stack) /\ Len(y.stack) = rest + 1
        /\ \A k \in 1..rest : y.stack[k] = x.stack[k]
        /\ y.stack[rest + 1] = Operand(TmpIdent(m), x.stack[rest + 1].ty)
    BY DEF Emitted
  <1> HIDE DEF c, d, m, rest
  <1>5. ASSUME NEW id, NEW ty, Carries(ps, c, id, ty) PROVE Carries(ps, d, id, ty)
    <2>1. CASE \E k \in 1..Len(ps) : id = ps[k].id /\ ty = ps[k].ty
      BY <2>1 DEF Carries
    <2>2. CASE \E j \in 1..c.fresh : id = TmpIdent(j - 1) /\ c.stmts[j].ty = WireTyTokens(ty)
      <3>1. PICK j \in 1..m : id = TmpIdent(j - 1) /\ c.stmts[j].ty = WireTyTokens(ty)
        BY <2>2 DEF m
      <3>2. j \in 1..d.fresh /\ d.stmts[j].ty = WireTyTokens(ty)
        BY <3>1, <1>3, <1>2
      <3> QED BY <3>1, <3>2 DEF Carries
    <2> QED BY <1>5, <2>1, <2>2 DEF Carries
  <1>6. ASSUME NEW k \in 1..(m + 1) PROVE StmtInOrder(ps, d, k)
    <2>1. CASE k \in 1..m
      <3>1. StmtInOrder(ps, c, k) /\ d.stmts[k] = c.stmts[k]
        BY <2>1, <1>1, <1>3
      <3> QED BY <3>1 DEF StmtInOrder
    <2>2. CASE k = m + 1
      <3>1. ASSUME NEW i \in 1..n PROVE Named(ps, m, x.stack[rest + i].id)
        <4>1. rest + i \in 1..Len(x.stack)
          BY <1>2
        <4>2. Carries(ps, c, x.stack[rest + i].id, x.stack[rest + i].ty)
          BY <4>1, <1>1
        <4> QED BY <4>2, CarriedIsNamed DEF m
      <3>2. k - 1 = m /\ DOMAIN d.stmts[k].ins = 1..n
        BY <2>2, <1>2, <1>3
      <3>3. \A i \in 1..n : d.stmts[k].ins[i] = x.stack[rest + i].id
        BY <2>2, <1>3
      <3>4. d.stmts[k].out = TmpIdent(k - 1)
        BY <2>2, <3>2, <1>3
      <3> QED BY <3>1, <3>2, <3>3, <3>4 DEF StmtInOrder
    <2> QED BY <2>1, <2>2, <1>2
  <1>7. \A k \in 1..Len(env) : Carries(ps, d, env[k].id, env[k].ty)
    BY <1>1, <1>5
  <1>8. ASSUME NEW k \in 1..(rest + 1) PROVE Carries(ps, d, y.stack[k].id, y.stack[k].ty)
    <2>1. CASE k \in 1..rest
      <3>1. k \in 1..Len(x.stack) /\ y.stack[k] = x.stack[k]
        BY <2>1, <1>2, <1>4
      <3> QED BY <3>1, <1>1, <1>5
    <2>2. CASE k = rest + 1
      <3>1. y.stack[k].id = TmpIdent(m) /\ y.stack[k].ty = x.stack[rest + 1].ty
        BY <2>2, <1>4 DEF Operand
      <3>2. m + 1 \in 1..d.fresh /\ (m + 1) - 1 = m
        BY <1>2, <1>3
      <3>3. \E j \in 1..d.fresh : /\ y.stack[k].id = TmpIdent(j - 1)
                                  /\ d.stmts[j].ty = WireTyTokens(y.stack[k].ty)
        BY <3>1, <3>2, <1>3
      <3> QED BY <3>3 DEF Carries
    <2> QED BY <2>1, <2>2, <1>2
  <1>9. InOrder(ps, d)
    BY <1>3, <1>6, <1>7 DEF InOrder
  <1>10. OperandsCarry(ps, y)
    BY <1>4, <1>8 DEF OperandsCarry, d
  <1> QED BY <1>9, <1>10, <1>3 DEF Halfway, d

LEMMA NodeInOrder ==
  ASSUME NEW ps, NEW env, NEW x, Halfway(ps, env, x), NEW node \in Node,
         CompileNode(x, node).err = "none"
  PROVE  Halfway(ps, env, CompileNode(x, node).val)
  <1> DEFINE c == x.ctx
             y == CompileNode(x, node).val
             found == Lookup(c, node.name)
  <1>1. /\ IsCtx(c) /\ InOrder(ps, c) /\ c.env = env /\ Listed(env) /\ Listed(x.stack)
        /\ \A k \in 1..Len(env) : Carries(ps, c, env[k].id, env[k].ty)
        /\ \A k \in 1..Len(x.stack) : Carries(ps, c, x.stack[k].id, x.stack[k].ty)
    BY DEF Halfway, InOrder, OperandsCarry, IsCtx
  <1>2. CompileError.err # "none"
    BY DEF CompileError, Fail
  <1>3. CASE node.expr = "Path"
    <2>1. CompileNode(x, node) = CompilePath(x, node)
      BY <1>3 DEF CompileNode
    <2>2. found.err = "none" /\ y = Compiling(c, Append(x.stack, Operand(found.val.id, found.val.ty)))
      BY <2>1 DEF CompilePath, Ok
    <2>3. PICK k \in 1..Len(env) : found = Ok(env[k])
      <3> HIDE DEF found, c
      <3>1. found # CompileError
        BY <2>2, <1>2
      <3> QED BY <3>1, <1>1, LookupFinds DEF found
    <2>4. found.val = env[k]
      BY <2>3 DEF Ok
    <2> DEFINE new == Operand(env[k].id, env[k].ty)
    <2>5. y.ctx = c /\ y.stack = Append(x.stack, new)
      <3> HIDE DEF y, found
      <3> QED BY <2>2, <2>4 DEF Compiling
    <2>6. Longer(y.stack, x.stack, new)
      <3> HIDE DEF new, y
      <3> QED BY <2>5, <1>1, AppendIsLonger
    <2>7. Carries(ps, c, new.id, new.ty)
      BY <1>1 DEF Operand
    <2>8. OperandsCarry(ps, y)
      <3> HIDE DEF new, y, c
      <3> QED BY <2>5, <2>6, <2>7, <1>1 DEF OperandsCarry, Longer, Listed
    <2>9. Halfway(ps, env, y)
      <3> HIDE DEF y
      <3> QED BY <2>5, <2>8, <1>1 DEF Halfway
    <2> QED BY <2>9
  <1>4. CASE node.expr = "Binary"
    <2>1. CompileNode(x, node) = CompileBinary(x, node)
      BY <1>4 DEF CompileNode
    <2>2. Len(x.stack) >= 2 /\ y = Emit(x, BinOp(BinOpTokens[node.op]), 2)
      BY <2>1, <1>2 DEF CompileBinary, Ok
    <2>3. 2 \in 1..2 /\ 2 <= Len(x.stack)
      BY <2>2, <1>1 DEF Listed
    <2>4. Emitted(x, BinOp(BinOpTokens[node.op]), 2, y)
      <3> HIDE DEF y
      <3> QED BY <2>2, <2>3, <1>1, EmitDoes
    <2>5. Halfway(ps, env, y)
      <3> HIDE DEF y
      <3> QED BY <2>3, <2>4, EmitInOrder
    <2> QED BY <2>5
  <1>5. CASE node.expr = "Unary"
    <2>1. CompileNode(x, node) = CompileUnary(x, node)
      BY <1>5 DEF CompileNode
    <2>2. Len(x.stack) >= 1 /\ y = Emit(x, NotOp, 1)
      BY <2>1, <1>2 DEF CompileUnary, Ok
    <2>3. 1 \in 1..2 /\ 1 <= Len(x.stack)
      BY <2>2, <1>1 DEF Listed
    <2>4. Emitted(x, NotOp, 1, y)
      <3> HIDE DEF y
      <3> QED BY <2>2, <2>3, <1>1, EmitDoes
    <2>5. Halfway(ps, env, y)
      <3> HIDE DEF y
      <3> QED BY <2>3, <2>4, EmitInOrder
    <2> QED BY <2>5
  <1>6. CASE node.expr = "Other"
    <2>1. CompileNode(x, node) = CompileError
      BY <1>6 DEF CompileNode
    <2> QED BY <2>1, <1>2
  <1> QED BY <1>3, <1>4, <1>5, <1>6 DEF Node

---------------------------------------------------------------------------
(* A whole expression.  compile_expr's recursion is a function over the    *)
(* nodes: it exists, and so satisfies its own equation.                    *)

AfterNode(r, node) == IF r.err # "none" THEN r ELSE CompileNode(r.val, node)

IsCompiling(c, e, n, f) ==
  f = [k \in 0..n |-> IF k = 0 THEN Ok(Compiling(c, <<>>)) ELSE AfterNode(f[k - 1], e[k])]

\* One node more at a time.
LEMMA CompilingExists ==
  ASSUME NEW c, NEW e, NEW n \in Nat
  PROVE  \E f : IsCompiling(c, e, n, f)
  <1> DEFINE first == Ok(Compiling(c, <<>>))
             P == {m \in 0..n : \E f : IsCompiling(c, e, m, f)}
  <1>1. 0 \in P
    <2> DEFINE f == [k \in 0..0 |-> first]
    <2>1. IsCompiling(c, e, 0, f)
      BY DEF IsCompiling
    <2> QED BY <2>1
  <1>2. ASSUME NEW m \in 0..(n - 1), m \in P PROVE m + 1 \in P
    <2>1. PICK f : IsCompiling(c, e, m, f)
      BY <1>2
    <2> DEFINE h == [k \in 0..(m + 1) |-> IF k = m + 1 THEN AfterNode(f[m], e[m + 1]) ELSE f[k]]
    <2>2. ASSUME NEW k \in 0..(m + 1)
          PROVE  h[k] = IF k = 0 THEN first ELSE AfterNode(h[k - 1], e[k])
      <3>1. CASE k = m + 1
        <4>1. h[k] = AfterNode(f[m], e[k]) /\ h[k - 1] = f[m] /\ k # 0
          BY <3>1
        <4> QED BY <4>1
      <3>2. CASE k # m + 1
        <4>1. k \in 0..m /\ h[k] = f[k] /\ (k # 0 => h[k - 1] = f[k - 1])
          BY <3>2
        <4>2. f[k] = IF k = 0 THEN first ELSE AfterNode(f[k - 1], e[k])
          BY <2>1, <4>1 DEF IsCompiling
        <4> QED BY <4>1, <4>2
      <3> QED BY <3>1, <3>2
    <2>3. h = [k \in 0..(m + 1) |-> IF k = 0 THEN first ELSE AfterNode(h[k - 1], e[k])]
      BY <2>2
    <2>4. IsCompiling(c, e, m + 1, h)
      <3> HIDE DEF h
      <3> QED BY <2>3 DEF IsCompiling
    <2> QED BY <2>4
  <1>3. \A m \in 0..n : m \in P
    <2> HIDE DEF P
    <2> QED BY <1>1, <1>2, CountingUp
  <1> QED BY <1>3

\* r is what becomes of c and the outcome after the last node.
Outcome(end, r) ==
  r = IF end.err # "none" \/ Len(end.val.stack) # 1 THEN CompileError
      ELSE Ok([ctx |-> end.val.ctx, id |-> end.val.stack[1].id, ty |-> end.val.stack[1].ty])

CompiledBy(c, e, r, f) ==
  /\ f[0] = Ok(Compiling(c, <<>>))
  /\ \A k \in 1..Len(e) : f[k] = AfterNode(f[k - 1], e[k])
  /\ Outcome(f[Len(e)], r)

LEMMA CompileExprFolds ==
  ASSUME NEW c, NEW e, Len(e) \in Nat
  PROVE  \E f : CompiledBy(c, e, CompileExpr(c, e), f)
  <1> DEFINE n == Len(e)
             f == CHOOSE x : IsCompiling(c, e, n, x)
  <1>1. IsCompiling(c, e, n, f)
    BY CompilingExists
  <1>2. Outcome(f[n], CompileExpr(c, e))
    BY DEF CompileExpr, IsCompiling, AfterNode, Outcome
  <1>3. ASSUME NEW k \in 0..n
        PROVE  f[k] = IF k = 0 THEN Ok(Compiling(c, <<>>)) ELSE AfterNode(f[k - 1], e[k])
    <2> HIDE DEF f
    <2> QED BY <1>1 DEF IsCompiling
  <1>4. \A k \in 1..n : k \in 0..n /\ k # 0
    OBVIOUS
  <1>5. CompiledBy(c, e, CompileExpr(c, e), f)
    <2> HIDE DEF f
    <2> QED BY <1>2, <1>3, <1>4 DEF CompiledBy
  <1> QED BY <1>5

\* What an expression is compiled to is in order, and its result is there.
ResultCarries(ps, env, v) ==
  InOrder(ps, v.ctx) /\ v.ctx.env = env /\ Carries(ps, v.ctx, v.id, v.ty)

LEMMA ExprInOrder ==
  ASSUME NEW ps, NEW c, InOrder(ps, c), NEW e \in Seq(Node), CompileExpr(c, e).err = "none"
  PROVE  ResultCarries(ps, c.env, CompileExpr(c, e).val)
  <1> DEFINE n == Len(e)
             r == CompileExpr(c, e)
  <1>1. n \in Nat /\ \A k \in 1..n : e[k] \in Node
    BY LenProperties, ElementOfSeq
  <1>2. PICK f : CompiledBy(c, e, r, f)
    BY <1>1, CompileExprFolds
  <1> DEFINE P == {k \in 0..n : f[k].err = "none" => Halfway(ps, c.env, f[k].val)}
  <1>3. 0 \in P
    <2>1. f[0].val = Compiling(c, <<>>)
      BY <1>2 DEF CompiledBy, Ok
    <2>2. f[0].val.ctx = c /\ f[0].val.stack = <<>>
      BY <2>1 DEF Compiling
    <2>3. Halfway(ps, c.env, f[0].val)
      BY <2>2, NothingListed DEF Halfway, OperandsCarry
    <2> QED BY <2>3, <1>1
  <1>4. ASSUME NEW k \in 0..(n - 1), k \in P PROVE k + 1 \in P
    <2>1. k + 1 \in 1..n /\ k + 1 \in 0..n /\ (k + 1) - 1 = k
      BY <1>1
    <2>2. f[k + 1] = AfterNode(f[k], e[k + 1])
      BY <2>1, <1>2 DEF CompiledBy
    <2>3. ASSUME f[k + 1].err = "none" PROVE Halfway(ps, c.env, f[k + 1].val)
      <3>1. f[k].err = "none" /\ f[k + 1] = CompileNode(f[k].val, e[k + 1])
        BY <2>2, <2>3 DEF AfterNode
      <3>2. Halfway(ps, c.env, f[k].val)
        BY <3>1, <1>4
      <3> QED BY <3>1, <3>2, <2>1, <2>3, <1>1, NodeInOrder
    <2> QED BY <2>1, <2>3
  <1>5. \A k \in 0..n : k \in P
    <2> HIDE DEF P, n
    <2> QED BY <1>1, <1>3, <1>4, CountingUp
  <1> DEFINE end == f[n]
  <1>6. end.err = "none" /\ Len(end.val.stack) = 1
        /\ r = Ok([ctx |-> end.val.ctx, id |-> end.val.stack[1].id, ty |-> end.val.stack[1].ty])
    BY <1>2 DEF CompiledBy, Outcome, CompileError, Fail
  <1>7. Halfway(ps, c.env, end.val)
    BY <1>5, <1>6, <1>1
  <1>8. /\ r.val.ctx = end.val.ctx /\ r.val.id = end.val.stack[1].id
        /\ r.val.ty = end.val.stack[1].ty
    <2> HIDE DEF r, end
    <2> QED BY <1>6 DEF Ok
  <1>9. Carries(ps, end.val.ctx, end.val.stack[1].id, end.val.stack[1].ty)
    <2> HIDE DEF end
    <2> QED BY <1>6, <1>7 DEF Halfway, OperandsCarry
  <1>10. ResultCarries(ps, c.env, r.val)
    <2> HIDE DEF r, end
    <2> QED BY <1>7, <1>8, <1>9 DEF Halfway, ResultCarries
  <1> QED BY <1>10

---------------------------------------------------------------------------
(* Statements                                                              *)

\* d is c with name bound to id.
Bound(c, name, id, ty, d) ==
  /\ IsCtx(d) /\ d.stmts = c.stmts /\ d.fresh = c.fresh
  /\ Longer(d.env, c.env, [name |-> name, id |-> id, ty |-> ty])

LEMMA BindDoes ==
  ASSUME NEW c, IsCtx(c), NEW name, NEW id, NEW ty
  PROVE  Bound(c, name, id, ty, Bind(c, name, id, ty))
  <1> DEFINE new == [name |-> name, id |-> id, ty |-> ty]
             env == Append(c.env, new)
             d == Bind(c, name, id, ty)
  <1>1. Longer(env, c.env, new)
    <2> HIDE DEF new
    <2> QED BY AppendIsLonger DEF IsCtx
  <1>2. PICK t, e, m : c = [stmts |-> t, env |-> e, fresh |-> m]
    BY DEF IsCtx
  <1>3. d = [c EXCEPT !.env = env]
    BY DEF Bind
  <1>4. [c EXCEPT !.env = env] = [stmts |-> t, env |-> env, fresh |-> m]
    <2> HIDE DEF env
    <2> QED BY <1>2
  <1>5. d = [stmts |-> c.stmts, env |-> env, fresh |-> c.fresh]
    <2> HIDE DEF env, d
    <2> QED BY <1>2, <1>3, <1>4
  <1>6. Bound(c, name, id, ty, d)
    <2> HIDE DEF env, d
    <2>1. d.stmts = c.stmts /\ d.env = env /\ d.fresh = c.fresh
      BY <1>5
    <2>2. d = [stmts |-> d.stmts, env |-> d.env, fresh |-> d.fresh]
      BY <1>5, <2>1
    <2> HIDE DEF new
    <2>3. IsCtx(d)
      BY <2>1, <2>2, <1>1 DEF IsCtx, Longer
    <2> QED BY <2>1, <2>3, <1>1 DEF Bound, new
  <1> QED BY <1>6

LEMMA BindInOrder ==
  ASSUME NEW ps, NEW c, InOrder(ps, c), NEW name, NEW id, NEW ty, Carries(ps, c, id, ty),
         NEW d, Bound(c, name, id, ty, d)
  PROVE  InOrder(ps, d)
  <1>1. /\ IsCtx(d) /\ d.stmts = c.stmts /\ d.fresh = c.fresh
        /\ Len(d.env) = Len(c.env) + 1 /\ Len(c.env) \in Nat
        /\ \A k \in 1..Len(c.env) : d.env[k] = c.env[k]
        /\ d.env[Len(c.env) + 1].id = id /\ d.env[Len(c.env) + 1].ty = ty
    BY DEF Bound, Longer, InOrder, IsCtx, Listed
  <1>2. ASSUME NEW i, NEW t, Carries(ps, c, i, t) PROVE Carries(ps, d, i, t)
    BY <1>1, <1>2 DEF Carries
  <1>3. ASSUME NEW k \in 1..Len(d.env) PROVE Carries(ps, d, d.env[k].id, d.env[k].ty)
    <2>1. CASE k \in 1..Len(c.env)
      <3>1. Carries(ps, c, c.env[k].id, c.env[k].ty)
        BY <2>1 DEF InOrder
      <3> QED BY <3>1, <2>1, <1>1, <1>2
    <2>2. CASE k = Len(c.env) + 1
      BY <2>2, <1>1, <1>2
    <2> QED BY <2>1, <2>2, <1>1
  <1>4. ASSUME NEW k \in 1..d.fresh PROVE StmtInOrder(ps, d, k)
    <2>1. StmtInOrder(ps, c, k)
      BY <1>1 DEF InOrder
    <2> QED BY <2>1, <1>1 DEF StmtInOrder
  <1> QED BY <1>1, <1>3, <1>4 DEF InOrder

\* A let that compiles binds the result of its initialiser.
LetBinds(c, s, d) ==
  LET v == CompileExpr(c, s.init[1]).val
  IN  /\ s.stmt = "Local" /\ s.pat.kind = "Ident" /\ s.init # <<>>
      /\ CompileExpr(c, s.init[1]).err = "none"
      /\ d = Bind(v.ctx, s.pat.name, v.id, v.ty)

LEMMA LetDoes ==
  ASSUME NEW c, NEW s, CompileLetStmt(c, s).err = "none"
  PROVE  LetBinds(c, s, CompileLetStmt(c, s).val)
  <1>1. CompileError.err # "none"
    BY DEF CompileError, Fail
  <1> DEFINE rhs == CompileExpr(c, s.init[1])
  <1>2. CompileLetStmt(c, s) =
          IF s.stmt # "Local" \/ s.pat.kind # "Ident" \/ s.init = <<>> THEN CompileError
          ELSE IF rhs.err # "none" THEN rhs
          ELSE Ok(Bind(rhs.val.ctx, s.pat.name, rhs.val.id, rhs.val.ty))
    BY DEF CompileLetStmt
  <1> HIDE DEF rhs
  <1>3. /\ s.stmt = "Local" /\ s.pat.kind = "Ident" /\ s.init # <<>> /\ rhs.err = "none"
        /\ CompileLetStmt(c, s).val = Bind(rhs.val.ctx, s.pat.name, rhs.val.id, rhs.val.ty)
    BY <1>1, <1>2 DEF Ok
  <1> QED BY <1>3 DEF LetBinds, rhs

LEMMA InitIsExpr ==
  ASSUME NEW s \in LetStmts, s.stmt = "Local", s.init # <<>>
  PROVE  s.init[1] \in Seq(Node)
  <1>1. s.init \in Seq(Seq(Node))
    BY SyntaxAssumption
  <1>2. Len(s.init) \in Nat \ {0}
    BY <1>1, EmptySeq
  <1> QED BY <1>1, <1>2, ElementOfSeq

LEMMA LetInOrder ==
  ASSUME NEW ps, NEW c, InOrder(ps, c), NEW s \in LetStmts, NEW d, LetBinds(c, s, d)
  PROVE  InOrder(ps, d)
  <1> DEFINE v == CompileExpr(c, s.init[1]).val
  <1>1. s.init[1] \in Seq(Node)
    BY InitIsExpr DEF LetBinds
  <1>2. ResultCarries(ps, c.env, v)
    BY <1>1, ExprInOrder DEF LetBinds
  <1>3. d = Bind(v.ctx, s.pat.name, v.id, v.ty)
    BY DEF LetBinds
  <1> HIDE DEF v
  <1>4. InOrder(ps, v.ctx) /\ IsCtx(v.ctx) /\ Carries(ps, v.ctx, v.id, v.ty)
    BY <1>2 DEF ResultCarries, InOrder
  <1>5. Bound(v.ctx, s.pat.name, v.id, v.ty, d)
    BY <1>3, <1>4, BindDoes
  <1> QED BY <1>4, <1>5, BindInOrder

\* The scope the body starts in.
LEMMA ParamsInOrder ==
  ASSUME NEW ps, IsParams(ps), NEW c, c = [stmts |-> <<>>, env |-> ps, fresh |-> 0]
  PROVE  InOrder(ps, c)
  <1>1. c.stmts = <<>> /\ c.env = ps /\ c.fresh = 0
    OBVIOUS
  <1>2. IsCtx(c)
    BY <1>1, NothingListed DEF IsCtx, IsParams
  <1>3. \A k \in 1..Len(ps) : Carries(ps, c, ps[k].id, ps[k].ty)
    BY DEF Carries
  <1> QED BY <1>1, <1>2, <1>3 DEF InOrder

---------------------------------------------------------------------------
(* The generated function, statement by statement                          *)

LEMMA IdentsDiffer ==
  ASSUME NEW name, NEW i, NEW j
  PROVE  ArgIdent(name) # TmpIdent(i) /\ (TmpIdent(i) = TmpIdent(j) => i = j)
  BY DEF ArgIdent, TmpIdent

NothingBuilt == [graph |-> EmptyGraph, local |-> <<>>]

DeclareParam(b, p) == WithNamedWire(b, p.id, WireTyTokens(p.ty))

IsDeclaring(ps, n, f) ==
  f = [k \in 0..n |-> IF k = 0 THEN NothingBuilt ELSE DeclareParam(f[k - 1], ps[k])]

IsRunning(b, stmts, n, f) ==
  f = [k \in 0..n |-> IF k = 0 THEN b ELSE RunStmt(f[k - 1], stmts[k])]

\* The declarations, and then the statements of the body, one at a time.
LEMMA DeclaringExists ==
  ASSUME NEW ps, NEW n \in Nat
  PROVE  \E f : IsDeclaring(ps, n, f)
  <1> DEFINE first == NothingBuilt
             P == {m \in 0..n : \E f : IsDeclaring(ps, m, f)}
  <1>1. 0 \in P
    <2> DEFINE f == [k \in 0..0 |-> first]
    <2>1. IsDeclaring(ps, 0, f)
      BY DEF IsDeclaring
    <2> QED BY <2>1
  <1>2. ASSUME NEW m \in 0..(n - 1), m \in P PROVE m + 1 \in P
    <2>1. PICK f : IsDeclaring(ps, m, f)
      BY <1>2
    <2> DEFINE h == [k \in 0..(m + 1) |-> IF k = m + 1 THEN DeclareParam(f[m], ps[m + 1]) ELSE f[k]]
    <2>2. ASSUME NEW k \in 0..(m + 1)
          PROVE  h[k] = IF k = 0 THEN first ELSE DeclareParam(h[k - 1], ps[k])
      <3>1. CASE k = m + 1
        <4>1. h[k] = DeclareParam(f[m], ps[k]) /\ h[k - 1] = f[m] /\ k # 0
          BY <3>1
        <4> QED BY <4>1
      <3>2. CASE k # m + 1
        <4>1. k \in 0..m /\ h[k] = f[k] /\ (k # 0 => h[k - 1] = f[k - 1])
          BY <3>2
        <4>2. f[k] = IF k = 0 THEN first ELSE DeclareParam(f[k - 1], ps[k])
          BY <2>1, <4>1 DEF IsDeclaring
        <4> QED BY <4>1, <4>2
      <3> QED BY <3>1, <3>2
    <2>3. h = [k \in 0..(m + 1) |-> IF k = 0 THEN first ELSE DeclareParam(h[k - 1], ps[k])]
      BY <2>2
    <2>4. IsDeclaring(ps, m + 1, h)
      <3> HIDE DEF h
      <3> QED BY <2>3 DEF IsDeclaring
    <2> QED BY <2>4
  <1>3. \A m \in 0..n : m \in P
    <2> HIDE DEF P
    <2> QED BY <1>1, <1>2, CountingUp
  <1> QED BY <1>3

LEMMA RunningExists ==
  ASSUME NEW b, NEW stmts, NEW n \in Nat
  PROVE  \E f : IsRunning(b, stmts, n, f)
  <1> DEFINE first == b
             P == {m \in 0..n : \E f : IsRunning(b, stmts, m, f)}
  <1>1. 0 \in P
    <2> DEFINE f == [k \in 0..0 |-> first]
    <2>1. IsRunning(b, stmts, 0, f)
      BY DEF IsRunning
    <2> QED BY <2>1
  <1>2. ASSUME NEW m \in 0..(n - 1), m \in P PROVE m + 1 \in P
    <2>1. PICK f : IsRunning(b, stmts, m, f)
      BY <1>2
    <2> DEFINE h == [k \in 0..(m + 1) |-> IF k = m + 1 THEN RunStmt(f[m], stmts[m + 1]) ELSE f[k]]
    <2>2. ASSUME NEW k \in 0..(m + 1)
          PROVE  h[k] = IF k = 0 THEN first ELSE RunStmt(h[k - 1], stmts[k])
      <3>1. CASE k = m + 1
        <4>1. h[k] = RunStmt(f[m], stmts[k]) /\ h[k - 1] = f[m] /\ k # 0
          BY <3>1
        <4> QED BY <4>1
      <3>2. CASE k # m + 1
        <4>1. k \in 0..m /\ h[k] = f[k] /\ (k # 0 => h[k - 1] = f[k - 1])
          BY <3>2
        <4>2. f[k] = IF k = 0 THEN first ELSE RunStmt(f[k - 1], stmts[k])
          BY <2>1, <4>1 DEF IsRunning
        <4> QED BY <4>1, <4>2
      <3> QED BY <3>1, <3>2
    <2>3. h = [k \in 0..(m + 1) |-> IF k = 0 THEN first ELSE RunStmt(h[k - 1], stmts[k])]
      BY <2>2
    <2>4. IsRunning(b, stmts, m + 1, h)
      <3> HIDE DEF h
      <3> QED BY <2>3 DEF IsRunning
    <2> QED BY <2>4
  <1>3. \A m \in 0..n : m \in P
    <2> HIDE DEF P
    <2> QED BY <1>1, <1>2, CountingUp
  <1> QED BY <1>3

\* What the generated function has built after each declaration, and after each
\* statement.
BuiltBy(ps, stmts, f, h) ==
  /\ f[0] = NothingBuilt
  /\ \A k \in 1..Len(ps) : f[k] = DeclareParam(f[k - 1], ps[k])
  /\ h[0] = f[Len(ps)]
  /\ \A k \in 1..Len(stmts) : h[k] = RunStmt(h[k - 1], stmts[k])

Returns(ps, final, b, a) ==
  a = Arrow(b.graph, [k \in DOMAIN ps |-> b.local[ps[k].id]], <<b.local[final]>>)

LEMMA KernelBuilds ==
  ASSUME NEW ps, Len(ps) \in Nat, NEW stmts, Len(stmts) \in Nat, NEW final
  PROVE  \E f, h : /\ BuiltBy(ps, stmts, f, h)
                   /\ Returns(ps, final, h[Len(stmts)], Kernel(ps, stmts, final))
  <1> DEFINE n == Len(ps)
             m == Len(stmts)
             f == CHOOSE x : IsDeclaring(ps, n, x)
             h == CHOOSE x : IsRunning(f[n], stmts, m, x)
  <1>1. IsDeclaring(ps, n, f)
    BY DeclaringExists
  <1>2. IsRunning(f[n], stmts, m, h)
    <2> HIDE DEF f
    <2> QED BY RunningExists
  <1>3. Returns(ps, final, h[m], Kernel(ps, stmts, final))
    BY DEF Kernel, Returns, IsDeclaring, IsRunning, DeclareParam, NothingBuilt
  <1>4. ASSUME NEW k \in 0..n
        PROVE  f[k] = IF k = 0 THEN NothingBuilt ELSE DeclareParam(f[k - 1], ps[k])
    <2> HIDE DEF f
    <2> QED BY <1>1 DEF IsDeclaring
  <1>5. ASSUME NEW k \in 0..m
        PROVE  h[k] = IF k = 0 THEN f[n] ELSE RunStmt(h[k - 1], stmts[k])
    <2> HIDE DEF f, h
    <2> QED BY <1>2 DEF IsRunning
  <1>6. /\ \A k \in 1..n : k \in 0..n /\ k # 0
        /\ \A k \in 1..m : k \in 0..m /\ k # 0
        /\ 0 \in 0..n /\ 0 \in 0..m
    OBVIOUS
  <1>7. BuiltBy(ps, stmts, f, h)
    <2> HIDE DEF f, h
    <2>1. f[0] = NothingBuilt /\ h[0] = f[n]
      BY <1>4, <1>5, <1>6
    <2>2. \A k \in 1..n : f[k] = DeclareParam(f[k - 1], ps[k])
      BY <1>4, <1>6
    <2>3. \A k \in 1..m : h[k] = RunStmt(h[k - 1], stmts[k])
      BY <1>5, <1>6
    <2> QED BY <2>1, <2>2, <2>3 DEF BuiltBy
  <1> HIDE DEF f, h
  <1> QED BY <1>3, <1>7

IsGraph(g) ==
  /\ g = [wires |-> g.wires, instrs |-> g.instrs]
  /\ Listed(g.wires) /\ Listed(g.instrs)

\* w is b with a fresh wire of type ty, which id is bound to.
WireNamed(b, id, ty, w) ==
  LET new == Len(b.graph.wires) + 1
  IN  /\ w = [graph |-> w.graph, local |-> w.local]
      /\ IsGraph(w.graph) /\ w.graph.instrs = b.graph.instrs
      /\ Longer(w.graph.wires, b.graph.wires, ty)
      /\ DOMAIN w.local = DOMAIN b.local \cup {id}
      /\ w.local[id] = new
      /\ \A x \in DOMAIN b.local : x # id => w.local[x] = b.local[x]

LEMMA NamedWireDoes ==
  ASSUME NEW b, IsGraph(b.graph), NEW id, NEW ty
  PROVE  WireNamed(b, id, ty, WithNamedWire(b, id, ty))
  <1> DEFINE g == b.graph
             wires == Append(g.wires, ty)
             h == WithWire(g, ty)
             local == Shadowing(b.local, id, Len(g.wires) + 1)
             w == WithNamedWire(b, id, ty)
  <1>1. Longer(wires, g.wires, ty)
    BY AppendIsLonger DEF IsGraph
  <1>2. PICK t, i : g = [wires |-> t, instrs |-> i]
    BY DEF IsGraph
  <1>3. h = [g EXCEPT !.wires = wires]
    BY DEF WithWire
  <1>4. [g EXCEPT !.wires = wires] = [wires |-> wires, instrs |-> i]
    <2> HIDE DEF wires
    <2> QED BY <1>2
  <1>5. h = [wires |-> wires, instrs |-> g.instrs]
    <2> HIDE DEF wires, h
    <2> QED BY <1>2, <1>3, <1>4
  <1>6. /\ h.wires = wires /\ h.instrs = g.instrs
        /\ h = [wires |-> h.wires, instrs |-> h.instrs]
    <2> HIDE DEF wires, h
    <2> QED BY <1>5
  <1>7. IsGraph(h)
    <2> HIDE DEF wires, h
    <2> QED BY <1>6, <1>1 DEF IsGraph, Longer
  <1>8. w = [graph |-> h, local |-> local]
    BY DEF WithNamedWire, WireCount
  <1>9. /\ DOMAIN local = DOMAIN b.local \cup {id}
        /\ local[id] = Len(g.wires) + 1
        /\ \A x \in DOMAIN b.local : x # id => local[x] = b.local[x]
    BY DEF Shadowing
  <1>10. WireNamed(b, id, ty, w)
    <2> HIDE DEF wires, h, w, local
    <2>1. w.graph = h /\ w.local = local /\ w = [graph |-> w.graph, local |-> w.local]
      BY <1>8
    <2> QED BY <2>1, <1>1, <1>6, <1>7, <1>9 DEF WireNamed
  <1> QED BY <1>10

\* w is b after the statement s.
StmtRun(b, s, w) ==
  /\ IsGraph(w.graph)
  /\ Longer(w.graph.wires, b.graph.wires, s.ty)
  /\ Longer(w.graph.instrs, b.graph.instrs,
            Instr(s.op, [k \in DOMAIN s.ins |-> w.local[s.ins[k]]], Len(b.graph.wires) + 1))
  /\ DOMAIN w.local = DOMAIN b.local \cup {s.out}
  /\ w.local[s.out] = Len(b.graph.wires) + 1
  /\ \A x \in DOMAIN b.local : x # s.out => w.local[x] = b.local[x]

LEMMA RunStmtDoes ==
  ASSUME NEW b, IsGraph(b.graph), NEW s
  PROVE  StmtRun(b, s, RunStmt(b, s))
  <1> DEFINE u == WithNamedWire(b, s.out, s.ty)
             g == u.graph
             ins == [k \in DOMAIN s.ins |-> u.local[s.ins[k]]]
             new == Instr(s.op, ins, u.local[s.out])
             instrs == Append(g.instrs, new)
             h == WithInstruction(g, s.op, ins, u.local[s.out])
             w == RunStmt(b, s)
  <1>1. WireNamed(b, s.out, s.ty, u)
    BY NamedWireDoes
  <1>2. IsGraph(g) /\ g.instrs = b.graph.instrs
    <2> HIDE DEF u
    <2> QED BY <1>1 DEF WireNamed
  <1>3. Longer(instrs, g.instrs, new)
    <2> HIDE DEF g, new
    <2> QED BY <1>2, AppendIsLonger DEF IsGraph
  <1>4. PICK t, i : g = [wires |-> t, instrs |-> i]
    <2> HIDE DEF g
    <2> QED BY <1>2 DEF IsGraph
  <1>5. h = [g EXCEPT !.instrs = instrs]
    BY DEF WithInstruction
  <1>6. [g EXCEPT !.instrs = instrs] = [wires |-> t, instrs |-> instrs]
    <2> HIDE DEF instrs, g
    <2> QED BY <1>4
  <1>7. h = [wires |-> g.wires, instrs |-> instrs]
    <2> HIDE DEF instrs, g, h
    <2> QED BY <1>4, <1>5, <1>6
  <1>8. IsGraph(h) /\ h.wires = g.wires /\ h.instrs = instrs
    <2> HIDE DEF instrs, g, h
    <2>1. h.wires = g.wires /\ h.instrs = instrs /\ h = [wires |-> h.wires, instrs |-> h.instrs]
      BY <1>7
    <2> QED BY <2>1, <1>2, <1>3 DEF IsGraph, Longer
  <1>9. w = [u EXCEPT !.graph = h]
    BY DEF RunStmt
  <1>10. w.graph = h /\ w.local = u.local
    <2> HIDE DEF h, u, w
    <2>1. PICK x, y : u = [graph |-> x, local |-> y]
      BY <1>1 DEF WireNamed
    <2>2. [u EXCEPT !.graph = h] = [graph |-> h, local |-> y]
      BY <2>1
    <2> QED BY <1>9, <2>1, <2>2
  <1>11. StmtRun(b, s, w)
    <2> HIDE DEF u, h, w, instrs
    <2>1. /\ Longer(w.graph.wires, b.graph.wires, s.ty)
          /\ DOMAIN w.local = DOMAIN b.local \cup {s.out}
          /\ w.local[s.out] = Len(b.graph.wires) + 1
          /\ \A x \in DOMAIN b.local : x # s.out => w.local[x] = b.local[x]
      BY <1>1, <1>8, <1>10 DEF WireNamed
    <2>2. new = Instr(s.op, [k \in DOMAIN s.ins |-> w.local[s.ins[k]]], Len(b.graph.wires) + 1)
      BY <2>1, <1>10
    <2>3. Longer(w.graph.instrs, b.graph.instrs, new)
      BY <1>2, <1>3, <1>8, <1>10
    <2> HIDE DEF new
    <2> QED BY <2>1, <2>2, <2>3, <1>8, <1>10 DEF StmtRun
  <1> QED BY <1>11

---------------------------------------------------------------------------
(* The netlist of the generated function                                   *)

\* The first k parameters are declared: each on a wire of its own, unless a
\* later one of the same name took its identifier.
ParamLocals(ps, k, local) ==
  \A j \in 1..k :
    /\ ps[j].id \in DOMAIN local
    /\ \E i \in 1..k : ps[i].id = ps[j].id /\ local[ps[j].id] = i

ParamsDeclared(ps, k, b) ==
  /\ IsGraph(b.graph) /\ Len(b.graph.wires) = k /\ b.graph.instrs = <<>>
  /\ \A j \in 1..k : b.graph.wires[j] = WireTyTokens(ps[j].ty)
  /\ ParamLocals(ps, k, b.local)

\* The first k statements have run: the j-th result is on wire n + j.
ResultLocals(n, k, local) ==
  \A j \in 1..k : TmpIdent(j - 1) \in DOMAIN local /\ local[TmpIdent(j - 1)] = n + j

WiresBuilt(ps, stmts, k, wires) ==
  LET n == Len(ps)
  IN  /\ Len(wires) = n + k
      /\ \A j \in 1..n : wires[j] = WireTyTokens(ps[j].ty)
      /\ \A j \in 1..k : wires[n + j] = stmts[j].ty

InstrBuilt(n, s, j, local, instr) ==
  /\ instr.out = n + j /\ DOMAIN instr.ins = DOMAIN s.ins
  /\ \A i \in DOMAIN s.ins : instr.ins[i] = local[s.ins[i]]

StmtsRun(ps, stmts, k, b) ==
  /\ IsGraph(b.graph)
  /\ WiresBuilt(ps, stmts, k, b.graph.wires)
  /\ ParamLocals(ps, Len(ps), b.local)
  /\ ResultLocals(Len(ps), k, b.local)
  /\ Len(b.graph.instrs) = k
  /\ \A j \in 1..k : InstrBuilt(Len(ps), stmts[j], j, b.local, b.graph.instrs[j])

LEMMA DeclareStep ==
  ASSUME NEW ps, NEW k \in Nat, NEW b, ParamsDeclared(ps, k, b)
  PROVE  ParamsDeclared(ps, k + 1, DeclareParam(b, ps[k + 1]))
  <1> DEFINE p == ps[k + 1]
             w == DeclareParam(b, p)
  <1>1. WireNamed(b, p.id, WireTyTokens(p.ty), w)
    BY NamedWireDoes DEF ParamsDeclared, DeclareParam
  <1> HIDE DEF w
  <1>2. /\ IsGraph(w.graph) /\ w.graph.instrs = <<>>
        /\ Len(w.graph.wires) = k + 1
        /\ \A j \in 1..k : w.graph.wires[j] = b.graph.wires[j]
        /\ w.graph.wires[k + 1] = WireTyTokens(p.ty)
        /\ DOMAIN w.local = DOMAIN b.local \cup {p.id}
        /\ w.local[p.id] = k + 1
        /\ \A x \in DOMAIN b.local : x # p.id => w.local[x] = b.local[x]
    BY <1>1 DEF WireNamed, Longer, ParamsDeclared
  <1>3. ASSUME NEW j \in 1..(k + 1) PROVE w.graph.wires[j] = WireTyTokens(ps[j].ty)
    <2>1. j \in 1..k \/ j = k + 1
      OBVIOUS
    <2> QED BY <2>1, <1>2 DEF ParamsDeclared
  <1>4. ASSUME NEW j \in 1..(k + 1)
        PROVE  /\ ps[j].id \in DOMAIN w.local
               /\ \E i \in 1..(k + 1) : ps[i].id = ps[j].id /\ w.local[ps[j].id] = i
    <2>1. CASE ps[j].id = p.id
      BY <2>1, <1>2
    <2>2. CASE ps[j].id # p.id
      <3>1. j \in 1..k
        BY <2>2
      <3>2. PICK i \in 1..k : ps[i].id = ps[j].id /\ b.local[ps[j].id] = i
        BY <3>1 DEF ParamsDeclared, ParamLocals
      <3>3. ps[j].id \in DOMAIN b.local
        BY <3>1 DEF ParamsDeclared, ParamLocals
      <3> HIDE DEF p
      <3>4. w.local[ps[j].id] = i /\ i \in 1..(k + 1) /\ ps[j].id \in DOMAIN w.local
        BY <3>2, <3>3, <1>2, <2>2
      <3> QED BY <3>2, <3>4
    <2> QED BY <2>1, <2>2
  <1>5. ParamsDeclared(ps, k + 1, w)
    BY <1>2, <1>3, <1>4 DEF ParamsDeclared, ParamLocals
  <1> QED BY <1>5 DEF w

\* h is f, but for x.
AllBut(f, x, h) ==
  DOMAIN h = DOMAIN f \cup {x} /\ \A y \in DOMAIN f : y # x => h[y] = f[y]

\* An identifier in use keeps its wire when a statement adds one.
LEMMA NamedIsKept ==
  ASSUME NEW ps, IsParams(ps), NEW k \in Nat,
         NEW f, ParamLocals(ps, Len(ps), f), ResultLocals(Len(ps), k, f),
         NEW h, AllBut(f, TmpIdent(k), h), NEW id, Named(ps, k, id)
  PROVE  id \in DOMAIN f /\ id \in DOMAIN h /\ h[id] = f[id] /\ id # TmpIdent(k)
  <1>1. CASE \E j \in 1..Len(ps) : id = ps[j].id
    <2>1. PICK j \in 1..Len(ps) : id = ps[j].id
      BY <1>1
    <2>2. id \in DOMAIN f /\ id = ArgIdent(ps[j].name)
      BY <2>1 DEF ParamLocals, IsParams
    <2> QED BY <2>2, IdentsDiffer DEF AllBut
  <1>2. CASE \E j \in 1..k : id = TmpIdent(j - 1)
    <2>1. PICK j \in 1..k : id = TmpIdent(j - 1)
      BY <1>2
    <2>2. id \in DOMAIN f /\ j - 1 # k
      BY <2>1 DEF ResultLocals
    <2>3. id # TmpIdent(k)
      BY <2>1, <2>2, IdentsDiffer
    <2> QED BY <2>2, <2>3 DEF AllBut
  <1> QED BY <1>1, <1>2 DEF Named

LEMMA RunStep ==
  ASSUME NEW ps, IsParams(ps), NEW c, NEW k \in Nat,
         NEW b, StmtsRun(ps, c.stmts, k, b),
         \A j \in 1..(k + 1) : StmtInOrder(ps, c, j)
  PROVE  StmtsRun(ps, c.stmts, k + 1, RunStmt(b, c.stmts[k + 1]))
  <1> DEFINE n == Len(ps)
             s == c.stmts[k + 1]
             w == RunStmt(b, s)
  <1>1. StmtRun(b, s, w)
    BY RunStmtDoes DEF StmtsRun
  <1> HIDE DEF w
  <1>2. n \in Nat /\ s.out = TmpIdent(k) /\ \A i \in DOMAIN s.ins : Named(ps, k, s.ins[i])
    <2>1. k + 1 \in 1..(k + 1) /\ (k + 1) - 1 = k
      OBVIOUS
    <2> QED BY <2>1 DEF StmtInOrder, IsParams, Listed
  <1>3. /\ ParamLocals(ps, n, b.local) /\ ResultLocals(n, k, b.local)
        /\ WiresBuilt(ps, c.stmts, k, b.graph.wires)
        /\ Len(b.graph.wires) = n + k /\ Len(b.graph.instrs) = k
        /\ \A j \in 1..k : InstrBuilt(n, c.stmts[j], j, b.local, b.graph.instrs[j])
    BY DEF StmtsRun, WiresBuilt
  <1> DEFINE instr == Instr(s.op, [i \in DOMAIN s.ins |-> w.local[s.ins[i]]], n + k + 1)
  <1>4. /\ IsGraph(w.graph)
        /\ Longer(w.graph.wires, b.graph.wires, s.ty)
        /\ Longer(w.graph.instrs, b.graph.instrs, instr)
        /\ DOMAIN w.local = DOMAIN b.local \cup {TmpIdent(k)}
        /\ w.local[TmpIdent(k)] = n + k + 1
        /\ \A x \in DOMAIN b.local : x # TmpIdent(k) => w.local[x] = b.local[x]
    BY <1>1, <1>2, <1>3 DEF StmtRun
  <1>5. ASSUME NEW id, Named(ps, k, id)
        PROVE  id \in DOMAIN b.local /\ id \in DOMAIN w.local /\ w.local[id] = b.local[id]
    <2> DEFINE f == b.local
               h == w.local
    <2>1. /\ ParamLocals(ps, Len(ps), f) /\ ResultLocals(Len(ps), k, f)
          /\ AllBut(f, TmpIdent(k), h)
      BY <1>3, <1>4 DEF n, AllBut
    <2>2. id \in DOMAIN f /\ id \in DOMAIN h /\ h[id] = f[id]
      <3> HIDE DEF f, h
      <3> QED BY <2>1, <1>5, NamedIsKept
    <2> QED BY <2>2
  <1>6. instr.out = n + k + 1 /\ instr.ins = [i \in DOMAIN s.ins |-> w.local[s.ins[i]]]
    BY DEF Instr
  <1> HIDE DEF instr, s
  <1>7. WiresBuilt(ps, c.stmts, k + 1, w.graph.wires)
    <2>1. /\ Len(w.graph.wires) = n + (k + 1)
          /\ \A j \in 1..(n + k) : w.graph.wires[j] = b.graph.wires[j]
          /\ w.graph.wires[n + (k + 1)] = s.ty
      BY <1>2, <1>3, <1>4 DEF Longer
    <2>2. \A j \in 1..n : j \in 1..(n + k)
      BY <1>2
    <2>3. \A j \in 1..n : w.graph.wires[j] = WireTyTokens(ps[j].ty)
      BY <2>1, <2>2, <1>3 DEF WiresBuilt, n
    <2>4. ASSUME NEW j \in 1..(k + 1) PROVE w.graph.wires[n + j] = c.stmts[j].ty
      <3>1. CASE j \in 1..k
        <4>1. n + j \in 1..(n + k)
          BY <3>1, <1>2
        <4> QED BY <3>1, <4>1, <2>1, <1>3 DEF WiresBuilt, n
      <3>2. CASE j = k + 1
        BY <3>2, <2>1 DEF s
      <3> QED BY <3>1, <3>2
    <2> QED BY <2>1, <2>3, <2>4 DEF WiresBuilt, n
  <1>8. ParamLocals(ps, n, w.local)
    <2> SUFFICES ASSUME NEW j \in 1..n
                 PROVE  /\ ps[j].id \in DOMAIN w.local
                        /\ \E i \in 1..n : ps[i].id = ps[j].id /\ w.local[ps[j].id] = i
      BY DEF ParamLocals
    <2>1. Named(ps, k, ps[j].id)
      BY DEF Named, n
    <2>2. \E i \in 1..n : ps[i].id = ps[j].id /\ b.local[ps[j].id] = i
      BY <1>3 DEF ParamLocals
    <2> QED BY <2>1, <2>2, <1>5
  <1>9. ResultLocals(n, k + 1, w.local)
    <2> SUFFICES ASSUME NEW j \in 1..(k + 1)
                 PROVE  TmpIdent(j - 1) \in DOMAIN w.local /\ w.local[TmpIdent(j - 1)] = n + j
      BY DEF ResultLocals
    <2>1. CASE j \in 1..k
      <3>1. Named(ps, k, TmpIdent(j - 1))
        BY <2>1 DEF Named
      <3> QED BY <2>1, <3>1, <1>3, <1>5 DEF ResultLocals
    <2>2. CASE j = k + 1
      <3>1. j - 1 = k /\ n + j = n + k + 1
        BY <2>2, <1>2
      <3> QED BY <3>1, <1>4
    <2> QED BY <2>1, <2>2
  <1>10. ASSUME NEW j \in 1..(k + 1)
         PROVE  InstrBuilt(n, c.stmts[j], j, w.local, w.graph.instrs[j])
    <2>1. CASE j \in 1..k
      <3>1. InstrBuilt(n, c.stmts[j], j, b.local, w.graph.instrs[j])
        BY <2>1, <1>3, <1>4 DEF Longer
      <3>2. ASSUME NEW i \in DOMAIN c.stmts[j].ins
            PROVE  w.local[c.stmts[j].ins[i]] = b.local[c.stmts[j].ins[i]]
        <4>1. Named(ps, j - 1, c.stmts[j].ins[i])
          BY DEF StmtInOrder
        <4>2. \A l \in 1..(j - 1) : l \in 1..k
          BY <2>1
        <4>3. Named(ps, k, c.stmts[j].ins[i])
          BY <4>1, <4>2 DEF Named
        <4> QED BY <4>3, <1>5
      <3> QED BY <3>1, <3>2 DEF InstrBuilt
    <2>2. CASE j = k + 1
      <3>1. w.graph.instrs[j] = instr
        BY <2>2, <1>3, <1>4 DEF Longer
      <3>2. n + j = n + k + 1
        BY <2>2, <1>2
      <3> QED BY <2>2, <3>1, <3>2, <1>6 DEF InstrBuilt, s
    <2> QED BY <2>1, <2>2
  <1>11. Len(w.graph.instrs) = k + 1
    BY <1>3, <1>4 DEF Longer
  <1>12. StmtsRun(ps, c.stmts, k + 1, w)
    BY <1>4, <1>7, <1>8, <1>9, <1>10, <1>11 DEF StmtsRun, n
  <1> QED BY <1>12 DEF w, s

LEMMA KernelRuns ==
  ASSUME NEW ps, IsParams(ps), NEW c, InOrder(ps, c), NEW final
  PROVE  \E b : /\ StmtsRun(ps, c.stmts, c.fresh, b)
                /\ Returns(ps, final, b, Kernel(ps, c.stmts, final))
  <1> DEFINE n == Len(ps)
             stmts == c.stmts
             m == Len(stmts)
             a == Kernel(ps, stmts, final)
  <1>1. n \in Nat /\ m \in Nat /\ c.fresh = m /\ \A j \in 1..m : StmtInOrder(ps, c, j)
    BY DEF IsParams, InOrder, IsCtx, Listed
  <1>2. PICK f, h : BuiltBy(ps, stmts, f, h) /\ Returns(ps, final, h[m], a)
    <2> HIDE DEF stmts
    <2> QED BY <1>1, KernelBuilds
  <1>3. ParamsDeclared(ps, n, f[n])
    <2> DEFINE P == {k \in 0..n : ParamsDeclared(ps, k, f[k])}
    <2>1. 0 \in P
      <3>1. f[0].graph = EmptyGraph /\ f[0].graph.wires = <<>> /\ f[0].graph.instrs = <<>>
        BY <1>2 DEF BuiltBy, NothingBuilt, EmptyGraph
      <3>2. IsGraph(f[0].graph) /\ Len(f[0].graph.wires) = 0
        BY <3>1, NothingListed DEF IsGraph, EmptyGraph
      <3>3. ParamsDeclared(ps, 0, f[0])
        BY <3>1, <3>2 DEF ParamsDeclared, ParamLocals
      <3> QED BY <3>3, <1>1
    <2>2. ASSUME NEW k \in 0..(n - 1), k \in P PROVE k + 1 \in P
      <3>1. k + 1 \in 1..n /\ k + 1 \in 0..n /\ (k + 1) - 1 = k /\ k \in Nat
        BY <1>1
      <3>2. f[k + 1] = DeclareParam(f[k], ps[k + 1])
        BY <3>1, <1>2 DEF BuiltBy
      <3>3. ParamsDeclared(ps, k + 1, f[k + 1])
        BY <3>1, <3>2, <2>2, DeclareStep
      <3> QED BY <3>1, <3>3
    <2>3. \A k \in 0..n : k \in P
      <3> HIDE DEF P, n
      <3> QED BY <1>1, <2>1, <2>2, CountingUp
    <2> QED BY <2>3, <1>1
  <1>4. StmtsRun(ps, stmts, m, h[m])
    <2> DEFINE P == {k \in 0..m : StmtsRun(ps, stmts, k, h[k])}
    <2>1. 0 \in P
      <3>1. h[0] = f[n] /\ ParamsDeclared(ps, n, h[0])
        BY <1>2, <1>3 DEF BuiltBy
      <3>2. Len(h[0].graph.wires) = n + 0 /\ Len(h[0].graph.instrs) = 0
        BY <3>1, <1>1, NothingListed DEF ParamsDeclared
      <3>3. StmtsRun(ps, stmts, 0, h[0])
        BY <3>1, <3>2, <1>1 DEF ParamsDeclared, StmtsRun, WiresBuilt, ResultLocals
      <3> QED BY <3>3, <1>1
    <2>2. ASSUME NEW k \in 0..(m - 1), k \in P PROVE k + 1 \in P
      <3>1. k + 1 \in 1..m /\ k + 1 \in 0..m /\ (k + 1) - 1 = k /\ k \in Nat
        BY <1>1
      <3>2. h[k + 1] = RunStmt(h[k], stmts[k + 1])
        BY <3>1, <1>2 DEF BuiltBy
      <3>3. \A j \in 1..(k + 1) : StmtInOrder(ps, c, j)
        BY <3>1, <1>1
      <3>4. StmtsRun(ps, stmts, k + 1, h[k + 1])
        BY <3>1, <3>2, <3>3, <2>2, RunStep
      <3> QED BY <3>1, <3>4
    <2>3. \A k \in 0..m : k \in P
      <3> HIDE DEF P, m
      <3> QED BY <1>1, <2>1, <2>2, CountingUp
    <2> QED BY <2>3, <1>1
  <1> QED BY <1>1, <1>2, <1>4

\* What NetlistInOrder asks of an arrow.
ArrowInOrder(a) ==
  LET instrs == a.graph.instrs
      known(i) == Range(a.inputs) \cup {instrs[j].out : j \in 1..(i - 1)}
  IN  /\ \A i \in DOMAIN instrs : Range(instrs[i].ins) \subseteq known(i)
      /\ \A i \in DOMAIN instrs : instrs[i].out \notin known(i)
      /\ a.outputs[1] \in known(Len(instrs) + 1)

LEMMA KernelInOrder ==
  ASSUME NEW ps, IsParams(ps), NEW c, InOrder(ps, c),
         NEW final, Named(ps, c.fresh, final)
  PROVE  ArrowInOrder(Kernel(ps, c.stmts, final))
  <1> DEFINE n == Len(ps)
             m == c.fresh
             a == Kernel(ps, c.stmts, final)
  <1>1. n \in Nat /\ m \in Nat /\ DOMAIN ps = 1..n /\ \A j \in 1..m : StmtInOrder(ps, c, j)
    BY ListedDomain DEF IsParams, InOrder, IsCtx, Listed
  <1>2. PICK b : StmtsRun(ps, c.stmts, m, b) /\ Returns(ps, final, b, a)
    BY KernelRuns
  <1> DEFINE instrs == b.graph.instrs
             inputs == [k \in 1..n |-> b.local[ps[k].id]]
             known(i) == Range(inputs) \cup {instrs[j].out : j \in 1..(i - 1)}
  <1>3. a.graph = b.graph /\ a.inputs = inputs /\ a.outputs = <<b.local[final]>>
    BY <1>1, <1>2 DEF Returns, Arrow
  <1>4. DOMAIN instrs = 1..m /\ Len(instrs) = m
    BY <1>2, ListedDomain DEF StmtsRun, IsGraph
  <1>5. \A j \in 1..m : instrs[j].out = n + j
    BY <1>2 DEF StmtsRun, InstrBuilt
  <1>6. Range(inputs) = {inputs[k] : k \in 1..n}
    BY DEF Range
  <1>7. ASSUME NEW k \in 0..m, NEW id, Named(ps, k, id)
        PROVE  b.local[id] \in known(k + 1)
    <2>1. CASE \E j \in 1..n : id = ps[j].id
      <3>1. PICK j \in 1..n : id = ps[j].id
        BY <2>1
      <3>2. b.local[id] = inputs[j]
        BY <3>1
      <3> QED BY <3>2, <1>6
    <2>2. CASE \E j \in 1..k : id = TmpIdent(j - 1)
      <3>1. PICK j \in 1..k : id = TmpIdent(j - 1)
        BY <2>2
      <3>2. j \in 1..m /\ j \in 1..((k + 1) - 1)
        BY <1>1
      <3>3. b.local[id] = n + j
        BY <3>1, <3>2, <1>2 DEF StmtsRun, ResultLocals
      <3>4. b.local[id] = instrs[j].out
        BY <3>2, <3>3, <1>5
      <3> HIDE DEF instrs, inputs
      <3> QED BY <3>2, <3>4
    <2> QED BY <1>7, <2>1, <2>2 DEF Named
  <1>8. ASSUME NEW i \in 1..m PROVE Range(instrs[i].ins) \subseteq known(i)
    <2>1. InstrBuilt(n, c.stmts[i], i, b.local, instrs[i]) /\ StmtInOrder(ps, c, i)
      BY <1>1, <1>2 DEF StmtsRun
    <2>2. i - 1 \in 0..m /\ (i - 1) + 1 = i
      BY <1>1
    <2> HIDE DEF instrs, known
    <2>3. ASSUME NEW x \in DOMAIN instrs[i].ins PROVE instrs[i].ins[x] \in known(i)
      <3>1. /\ Named(ps, i - 1, c.stmts[i].ins[x])
            /\ instrs[i].ins[x] = b.local[c.stmts[i].ins[x]]
        BY <2>1, <2>3 DEF InstrBuilt, StmtInOrder
      <3>2. b.local[c.stmts[i].ins[x]] \in known((i - 1) + 1)
        BY <3>1, <2>2, <1>7
      <3> QED BY <3>1, <3>2, <2>2
    <2> QED BY <2>3 DEF Range
  <1>9. ASSUME NEW i \in 1..m PROVE instrs[i].out \notin known(i)
    <2>1. instrs[i].out = n + i
      BY <1>5
    <2>2. ASSUME NEW k \in 1..n PROVE inputs[k] \in 1..n
      <3>1. \E j \in 1..n : b.local[ps[k].id] = j
        BY <1>2 DEF StmtsRun, ParamLocals
      <3> QED BY <3>1
    <2>3. ASSUME NEW j \in 1..(i - 1) PROVE instrs[j].out # n + i
      <3>1. j \in 1..m /\ j # i
        BY <1>1
      <3>2. n + j # n + i
        BY <3>1, <1>1
      <3> QED BY <3>1, <3>2, <1>5
    <2>4. n + i \notin 1..n
      BY <1>1
    <2> HIDE DEF instrs, inputs
    <2>5. n + i \notin Range(inputs)
      BY <2>2, <2>4, <1>6
    <2> QED BY <2>1, <2>3, <2>5
  <1>10. b.local[final] \in known(m + 1)
    <2>1. m \in 0..m
      BY <1>1
    <2> QED BY <2>1, <1>7
  <1>11. ArrowInOrder(a)
    <2>1. a.outputs[1] = b.local[final] /\ a.graph.instrs = instrs
      BY <1>3
    <2> HIDE DEF a, instrs, inputs
    <2> QED BY <2>1, <1>3, <1>4, <1>8, <1>9, <1>10 DEF ArrowInOrder
  <1> QED BY <1>11

\* Parameters of different names.
Distinct(ps) == \A j, k \in 1..Len(ps) : ps[j].name = ps[k].name => j = k

\* What EndsMatchSignature asks of an arrow.
EndsMatch(ps, ty, a) ==
  LET tyOf(w) == a.graph.wires[w]
  IN  /\ [k \in DOMAIN a.inputs |-> tyOf(a.inputs[k])] = InputLayout(ps)
      /\ [k \in DOMAIN a.outputs |-> tyOf(a.outputs[k])] = OutputLayout(ty)

LEMMA TokensAreType ==
  ASSUME NEW ty, IsScalar(ty)
  PROVE  WireTyTokens(ty) = WireTyOf(ty)
  BY DEF IsScalar, WireTyTokens, WireTyOf

LEMMA KernelEndsMatch ==
  ASSUME NEW ps, IsParams(ps), Distinct(ps), \A k \in 1..Len(ps) : IsScalar(ps[k].ty),
         NEW c, InOrder(ps, c),
         NEW final, NEW ty, IsScalar(ty), Carries(ps, c, final, ty)
  PROVE  EndsMatch(ps, ty, Kernel(ps, c.stmts, final))
  <1> DEFINE n == Len(ps)
             m == c.fresh
             a == Kernel(ps, c.stmts, final)
  <1>1. n \in Nat /\ m \in Nat /\ DOMAIN ps = 1..n
    BY ListedDomain DEF IsParams, InOrder, IsCtx, Listed
  <1>2. PICK b : StmtsRun(ps, c.stmts, m, b) /\ Returns(ps, final, b, a)
    BY KernelRuns
  <1> DEFINE wires == b.graph.wires
             inputs == [k \in 1..n |-> b.local[ps[k].id]]
             out == b.local[final]
  <1>3. a.graph.wires = wires /\ a.inputs = inputs /\ a.outputs = <<out>>
    BY <1>1, <1>2 DEF Returns, Arrow
  <1>4. /\ \A j \in 1..n : wires[j] = WireTyTokens(ps[j].ty)
        /\ \A j \in 1..m : wires[n + j] = c.stmts[j].ty
    BY <1>2 DEF StmtsRun, WiresBuilt
  <1>5. ASSUME NEW k \in 1..n PROVE b.local[ps[k].id] = k
    <2>1. PICK i \in 1..n : ps[i].id = ps[k].id /\ b.local[ps[k].id] = i
      BY <1>2 DEF StmtsRun, ParamLocals
    <2>2. ps[i].name = ps[k].name
      BY <2>1 DEF IsParams, ArgIdent
    <2> QED BY <2>1, <2>2 DEF Distinct
  <1>6. ASSUME NEW k \in 1..n PROVE wires[inputs[k]] = WireTyOf(ps[k].ty)
    <2>1. inputs[k] = k
      BY <1>5
    <2> HIDE DEF inputs, wires
    <2> QED BY <2>1, <1>4, TokensAreType
  <1>7. wires[out] = WireTyTokens(ty)
    <2>1. CASE \E k \in 1..n : final = ps[k].id /\ ty = ps[k].ty
      <3>1. PICK k \in 1..n : final = ps[k].id /\ ty = ps[k].ty
        BY <2>1
      <3>2. out = k
        BY <3>1, <1>5
      <3> HIDE DEF wires, out
      <3> QED BY <3>1, <3>2, <1>4
    <2>2. CASE \E j \in 1..m : final = TmpIdent(j - 1) /\ c.stmts[j].ty = WireTyTokens(ty)
      <3>1. PICK j \in 1..m : final = TmpIdent(j - 1) /\ c.stmts[j].ty = WireTyTokens(ty)
        BY <2>2
      <3>2. out = n + j
        BY <3>1, <1>2 DEF StmtsRun, ResultLocals
      <3> HIDE DEF wires, out
      <3> QED BY <3>1, <3>2, <1>4
    <2> QED BY <2>1, <2>2 DEF Carries
  <1>8. wires[out] = WireTyOf(ty)
    BY <1>7, TokensAreType
  <1>9. EndsMatch(ps, ty, a)
    <2> HIDE DEF a, wires, out
    <2>1. DOMAIN a.inputs = 1..n /\ \A k \in 1..n : a.inputs[k] = inputs[k]
      BY <1>3
    <2> HIDE DEF inputs
    <2>2. [k \in DOMAIN a.inputs |-> a.graph.wires[a.inputs[k]]] = InputLayout(ps)
      BY <2>1, <1>1, <1>3, <1>6 DEF InputLayout
    <2>3. DOMAIN a.outputs = 1..1 /\ a.outputs[1] = out
      BY <1>3
    <2>4. [k \in DOMAIN a.outputs |-> a.graph.wires[a.outputs[k]]] = OutputLayout(ty)
      BY <2>3, <1>3, <1>8 DEF OutputLayout
    <2> QED BY <2>2, <2>4 DEF EndsMatch
  <1> QED BY <1>9

---------------------------------------------------------------------------
(* Rust's types beside the macro's                                         *)

\* The types of the operands that wait, after each node.
IsTyping(e, scope, n, f) ==
  f = [k \in 0..n |-> IF k = 0 THEN <<>> ELSE RustTyNode(f[k - 1], e[k], scope)]

\* Typed one node at a time.
LEMMA TypingExists ==
  ASSUME NEW e, NEW scope, NEW n \in Nat
  PROVE  \E f : IsTyping(e, scope, n, f)
  <1> DEFINE first == <<>>
             P == {m \in 0..n : \E f : IsTyping(e, scope, m, f)}
  <1>1. 0 \in P
    <2> DEFINE f == [k \in 0..0 |-> first]
    <2>1. IsTyping(e, scope, 0, f)
      BY DEF IsTyping
    <2> QED BY <2>1
  <1>2. ASSUME NEW m \in 0..(n - 1), m \in P PROVE m + 1 \in P
    <2>1. PICK f : IsTyping(e, scope, m, f)
      BY <1>2
    <2> DEFINE h == [k \in 0..(m + 1) |-> IF k = m + 1 THEN RustTyNode(f[m], e[m + 1], scope) ELSE f[k]]
    <2>2. ASSUME NEW k \in 0..(m + 1)
          PROVE  h[k] = IF k = 0 THEN first ELSE RustTyNode(h[k - 1], e[k], scope)
      <3>1. CASE k = m + 1
        <4>1. h[k] = RustTyNode(f[m], e[k], scope) /\ h[k - 1] = f[m] /\ k # 0
          BY <3>1
        <4> QED BY <4>1
      <3>2. CASE k # m + 1
        <4>1. k \in 0..m /\ h[k] = f[k] /\ (k # 0 => h[k - 1] = f[k - 1])
          BY <3>2
        <4>2. f[k] = IF k = 0 THEN first ELSE RustTyNode(f[k - 1], e[k], scope)
          BY <2>1, <4>1 DEF IsTyping
        <4> QED BY <4>1, <4>2
      <3> QED BY <3>1, <3>2
    <2>3. h = [k \in 0..(m + 1) |-> IF k = 0 THEN first ELSE RustTyNode(h[k - 1], e[k], scope)]
      BY <2>2
    <2>4. IsTyping(e, scope, m + 1, h)
      <3> HIDE DEF h
      <3> QED BY <2>3 DEF IsTyping
    <2> QED BY <2>4
  <1>3. \A m \in 0..n : m \in P
    <2> HIDE DEF P
    <2> QED BY <1>1, <1>2, CountingUp
  <1> QED BY <1>3

TypedBy(e, scope, t, f) ==
  /\ f[0] = <<>>
  /\ \A k \in 1..Len(e) : f[k] = RustTyNode(f[k - 1], e[k], scope)
  /\ t = IF Len(f[Len(e)]) = 1 THEN f[Len(e)][1] ELSE IllTyped

LEMMA RustTyFolds ==
  ASSUME NEW e, Len(e) \in Nat, NEW scope
  PROVE  \E f : TypedBy(e, scope, RustTy(e, scope), f)
  <1> DEFINE n == Len(e)
             f == CHOOSE x : IsTyping(e, scope, n, x)
  <1>1. IsTyping(e, scope, n, f)
    BY TypingExists
  <1>2. RustTy(e, scope) = IF Len(f[n]) = 1 THEN f[n][1] ELSE IllTyped
    BY DEF RustTy, IsTyping
  <1>3. ASSUME NEW k \in 0..n
        PROVE  f[k] = IF k = 0 THEN <<>> ELSE RustTyNode(f[k - 1], e[k], scope)
    <2> HIDE DEF f
    <2> QED BY <1>1 DEF IsTyping
  <1>4. \A k \in 1..n : k \in 0..n /\ k # 0
    OBVIOUS
  <1>5. TypedBy(e, scope, RustTy(e, scope), f)
    <2> HIDE DEF f
    <2> QED BY <1>2, <1>3, <1>4 DEF TypedBy
  <1> QED BY <1>5

IsScoping(t, ls, n, f) ==
  f = [k \in 0..n |-> IF k = 0 THEN t
                      ELSE AfterLet(f[k - 1], ls[k], RustLetTy(ls[k], f[k - 1]))]

\* The scope, one let at a time.
LEMMA ScopingExists ==
  ASSUME NEW t, NEW ls, NEW n \in Nat
  PROVE  \E f : IsScoping(t, ls, n, f)
  <1> DEFINE first == t
             P == {m \in 0..n : \E f : IsScoping(t, ls, m, f)}
  <1>1. 0 \in P
    <2> DEFINE f == [k \in 0..0 |-> first]
    <2>1. IsScoping(t, ls, 0, f)
      BY DEF IsScoping
    <2> QED BY <2>1
  <1>2. ASSUME NEW m \in 0..(n - 1), m \in P PROVE m + 1 \in P
    <2>1. PICK f : IsScoping(t, ls, m, f)
      BY <1>2
    <2> DEFINE h == [k \in 0..(m + 1) |-> IF k = m + 1 THEN AfterLet(f[m], ls[m + 1], RustLetTy(ls[m + 1], f[m])) ELSE f[k]]
    <2>2. ASSUME NEW k \in 0..(m + 1)
          PROVE  h[k] = IF k = 0 THEN first ELSE AfterLet(h[k - 1], ls[k], RustLetTy(ls[k], h[k - 1]))
      <3>1. CASE k = m + 1
        <4>1. h[k] = AfterLet(f[m], ls[k], RustLetTy(ls[k], f[m])) /\ h[k - 1] = f[m] /\ k # 0
          BY <3>1
        <4> QED BY <4>1
      <3>2. CASE k # m + 1
        <4>1. k \in 0..m /\ h[k] = f[k] /\ (k # 0 => h[k - 1] = f[k - 1])
          BY <3>2
        <4>2. f[k] = IF k = 0 THEN first ELSE AfterLet(f[k - 1], ls[k], RustLetTy(ls[k], f[k - 1]))
          BY <2>1, <4>1 DEF IsScoping
        <4> QED BY <4>1, <4>2
      <3> QED BY <3>1, <3>2
    <2>3. h = [k \in 0..(m + 1) |-> IF k = 0 THEN first ELSE AfterLet(h[k - 1], ls[k], RustLetTy(ls[k], h[k - 1]))]
      BY <2>2
    <2>4. IsScoping(t, ls, m + 1, h)
      <3> HIDE DEF h
      <3> QED BY <2>3 DEF IsScoping
    <2> QED BY <2>4
  <1>3. \A m \in 0..n : m \in P
    <2> HIDE DEF P
    <2> QED BY <1>1, <1>2, CountingUp
  <1> QED BY <1>3

ScopedBy(t, ls, f) ==
  /\ f[0] = t
  /\ \A k \in 1..Len(ls) :
       f[k] = AfterLet(f[k - 1], ls[k], RustLetTy(ls[k], f[k - 1]))

LEMMA ScopesFold ==
  ASSUME NEW t, NEW ls, Len(ls) \in Nat
  PROVE  ScopedBy(t, ls, Scopes(t, ls))
  <1> DEFINE n == Len(ls)
             f == CHOOSE x : IsScoping(t, ls, n, x)
  <1>1. IsScoping(t, ls, n, f)
    BY ScopingExists
  <1>2. Scopes(t, ls) = f
    BY DEF Scopes, IsScoping
  <1>3. ASSUME NEW k \in 0..n
        PROVE  f[k] = IF k = 0 THEN t
                      ELSE AfterLet(f[k - 1], ls[k], RustLetTy(ls[k], f[k - 1]))
    <2> HIDE DEF f
    <2> QED BY <1>1 DEF IsScoping
  <1>4. \A k \in 1..n : k \in 0..n /\ k # 0
    OBVIOUS
  <1>5. ScopedBy(t, ls, f)
    <2> HIDE DEF f
    <2> QED BY <1>3, <1>4 DEF ScopedBy
  <1> HIDE DEF f
  <1> QED BY <1>2, <1>5

\* A let leaves the scopes before it as they were.
LEMMA ScopesOfLonger ==
  ASSUME NEW t, NEW ls, Listed(ls), NEW s, NEW longer, Longer(longer, ls, s)
  PROVE  /\ \A k \in 0..Len(ls) : Scopes(t, longer)[k] = Scopes(t, ls)[k]
         /\ LET before == Scopes(t, ls)[Len(ls)]
            IN  Scopes(t, longer)[Len(ls) + 1] =
                  AfterLet(before, s, RustLetTy(s, before))
  <1> DEFINE n == Len(ls)
             f == Scopes(t, ls)
             g == Scopes(t, longer)
  <1>1. /\ n \in Nat /\ Len(longer) = n + 1
        /\ \A k \in 1..n : longer[k] = ls[k]
        /\ longer[n + 1] = s
    BY DEF Listed, Longer
  <1>2. ScopedBy(t, ls, f) /\ ScopedBy(t, longer, g)
    BY <1>1, ScopesFold
  <1> DEFINE P == {k \in 0..n : g[k] = f[k]}
  <1> HIDE DEF f, g
  <1>3. 0 \in P
    BY <1>1, <1>2 DEF ScopedBy
  <1>4. ASSUME NEW k \in 0..(n - 1), k \in P PROVE k + 1 \in P
    <2>1. /\ k + 1 \in 1..n /\ k + 1 \in 1..(n + 1) /\ k + 1 \in 0..n
          /\ (k + 1) - 1 = k
      BY <1>1
    <2>2. /\ f[k + 1] = AfterLet(f[k], ls[k + 1], RustLetTy(ls[k + 1], f[k]))
          /\ g[k + 1] = AfterLet(g[k], ls[k + 1], RustLetTy(ls[k + 1], g[k]))
      BY <2>1, <1>1, <1>2 DEF ScopedBy
    <2> QED BY <2>1, <2>2, <1>4
  <1>5. \A k \in 0..n : k \in P
    <2> HIDE DEF P, n
    <2> QED BY <1>1, <1>3, <1>4, CountingUp
  <1>6. g[n + 1] = AfterLet(f[n], s, RustLetTy(s, f[n]))
    <2>1. n + 1 \in 1..(n + 1) /\ (n + 1) - 1 = n /\ n \in 0..n
      BY <1>1
    <2>2. g[n + 1] = AfterLet(g[n], s, RustLetTy(s, g[n]))
      BY <2>1, <1>1, <1>2 DEF ScopedBy
    <2> QED BY <2>1, <2>2, <1>5
  <1> QED BY <1>5, <1>6 DEF f, g

\* Some operand is ill-typed.
SomeIll(types) == \E k \in 1..Len(types) : types[k] = IllTyped

LEMMA RustOpTypes ==
  ASSUME NEW op, NEW l, NEW r
  PROVE  /\ l = IllTyped \/ r = IllTyped => RustBinTy(op, l, r) = IllTyped
         /\ (op \in {"+", "-", "*", "&", "|", "^"} /\ RustBinTy(op, l, r) # IllTyped)
              => RustBinTy(op, l, r) = l
         /\ l = IllTyped => RustUnTy(op, l) = IllTyped
         /\ RustUnTy(op, l) # IllTyped => RustUnTy(op, l) = l
  <1>1. l = IllTyped => RustUnTy(op, l) = IllTyped
    BY DEF RustUnTy, IllTyped
  <1> QED BY <1>1 DEF RustBinTy, RustUnTy

\* The last n operands of types replaced by one, t.
Reduced(types, n, t, w) ==
  LET rest == Len(types) - n
  IN  /\ Listed(w) /\ Len(w) = rest + 1
      /\ \A k \in 1..rest : w[k] = types[k]
      /\ w[rest + 1] = t

LEMMA ReducedIs ==
  ASSUME NEW types, Listed(types), NEW n \in 0..2, n <= Len(types), NEW t
  PROVE  Reduced(types, n, t, Append(SubSeq(types, 1, Len(types) - n), t))
  <1> DEFINE rest == Len(types) - n
             front == SubSeq(types, 1, rest)
             w == Append(front, t)
  <1>1. rest \in Nat /\ rest <= Len(types)
    BY DEF Listed
  <1>2. Listed(front) /\ Len(front) = rest /\ \A k \in 1..rest : front[k] = types[k]
    <2> HIDE DEF rest
    <2> QED BY <1>1, FrontOfList
  <1>3. Longer(w, front, t)
    <2> HIDE DEF front
    <2> QED BY <1>2, AppendIsLonger
  <1>4. Reduced(types, n, t, w)
    <2> HIDE DEF w, front
    <2> QED BY <1>2, <1>3 DEF Reduced, Longer
  <1> QED BY <1>4

\* After a node: one type more, or an operator's result for its operands.
NodeTyped(types, node, scope, w) ==
  \/ /\ node.expr = "Path" /\ node.name \in DOMAIN scope
     /\ Longer(w, types, scope[node.name])
  \/ LET n == Len(types)
     IN  /\ node.expr = "Binary" /\ n >= 2
         /\ Reduced(types, 2, RustBinTy(node.op, types[n - 1], types[n]), w)
  \/ LET n == Len(types)
     IN  /\ node.expr = "Unary" /\ n >= 1
         /\ Reduced(types, 1, RustUnTy(node.op, types[n]), w)
  \/ Longer(w, types, IllTyped)

LEMMA NodeHasType ==
  ASSUME NEW types, Listed(types), NEW node \in Node, NEW scope
  PROVE  NodeTyped(types, node, scope, RustTyNode(types, node, scope))
  <1> DEFINE n == Len(types)
             w == RustTyNode(types, node, scope)
  <1>1. n \in Nat
    BY DEF Listed
  <1>2. CASE node.expr = "Path"
    <2> DEFINE t == IF node.name \in DOMAIN scope THEN scope[node.name] ELSE IllTyped
    <2>1. w = Append(types, t)
      BY <1>2 DEF RustTyNode
    <2>2. Longer(w, types, t)
      <3> HIDE DEF t, w
      <3> QED BY <2>1, AppendIsLonger
    <2>3. NodeTyped(types, node, scope, w)
      <3> HIDE DEF w
      <3>1. CASE node.name \in DOMAIN scope
        BY <1>2, <2>2, <3>1 DEF NodeTyped
      <3>2. CASE node.name \notin DOMAIN scope
        BY <2>2, <3>2 DEF NodeTyped
      <3> QED BY <3>1, <3>2
    <2> QED BY <2>3
  <1>3. CASE node.expr = "Binary" /\ n >= 2
    <2> DEFINE t == RustBinTy(node.op, types[n - 1], types[n])
    <2>1. w = Append(SubSeq(types, 1, n - 2), t)
      BY <1>3 DEF RustTyNode
    <2>2. Reduced(types, 2, t, w)
      <3> HIDE DEF t, w
      <3>1. 2 \in 0..2 /\ 2 <= Len(types)
        BY <1>1, <1>3
      <3> QED BY <2>1, <3>1, ReducedIs
    <2>3. NodeTyped(types, node, scope, w)
      <3> HIDE DEF w
      <3> QED BY <1>3, <2>2 DEF NodeTyped
    <2> QED BY <2>3
  <1>4. CASE node.expr = "Unary" /\ n >= 1
    <2> DEFINE t == RustUnTy(node.op, types[n])
    <2>1. w = Append(SubSeq(types, 1, n - 1), t)
      BY <1>4 DEF RustTyNode
    <2>2. Reduced(types, 1, t, w)
      <3> HIDE DEF t, w
      <3>1. 1 \in 0..2 /\ 1 <= Len(types)
        BY <1>1, <1>4
      <3> QED BY <2>1, <3>1, ReducedIs
    <2>3. NodeTyped(types, node, scope, w)
      <3> HIDE DEF w
      <3> QED BY <1>4, <2>2 DEF NodeTyped
    <2> QED BY <2>3
  <1>5. CASE /\ node.expr # "Path"
             /\ ~(node.expr = "Binary" /\ n >= 2) /\ ~(node.expr = "Unary" /\ n >= 1)
    <2>1. w = Append(types, IllTyped)
      BY <1>5 DEF RustTyNode
    <2>2. Longer(w, types, IllTyped)
      <3> HIDE DEF w
      <3> QED BY <2>1, AppendIsLonger
    <2>3. NodeTyped(types, node, scope, w)
      <3> HIDE DEF w
      <3> QED BY <2>2 DEF NodeTyped
    <2> QED BY <2>3
  <1> QED BY <1>2, <1>3, <1>4, <1>5

\* What is ill-typed stays ill-typed.
LEMMA IllStays ==
  ASSUME NEW types, Listed(types), SomeIll(types), NEW node, NEW scope,
         NEW w, NodeTyped(types, node, scope, w)
  PROVE  SomeIll(w)
  <1> DEFINE n == Len(types)
  <1>1. n \in Nat
    BY DEF Listed
  <1>2. PICK k \in 1..n : types[k] = IllTyped
    BY DEF SomeIll
  <1>3. ASSUME NEW x, Longer(w, types, x) PROVE SomeIll(w)
    <2>1. k \in 1..Len(w) /\ w[k] = IllTyped
      BY <1>1, <1>2, <1>3 DEF Longer
    <2> QED BY <2>1 DEF SomeIll
  <1>4. ASSUME NEW m \in 1..2, m <= n, NEW t, Reduced(types, m, t, w),
               k > n - m => t = IllTyped
        PROVE  SomeIll(w)
    <2>1. Len(w) = n - m + 1 /\ (\A j \in 1..(n - m) : w[j] = types[j]) /\ w[n - m + 1] = t
      BY <1>4 DEF Reduced
    <2>2. CASE k > n - m
      <3>1. n - m + 1 \in 1..Len(w) /\ w[n - m + 1] = IllTyped
        BY <1>1, <1>4, <2>1, <2>2
      <3> QED BY <3>1 DEF SomeIll
    <2>3. CASE ~(k > n - m)
      <3>1. k \in 1..(n - m) /\ k \in 1..Len(w)
        BY <1>1, <1>4, <2>1, <2>3
      <3>2. w[k] = IllTyped
        BY <3>1, <2>1, <1>2
      <3> QED BY <3>1, <3>2 DEF SomeIll
    <2> QED BY <2>2, <2>3
  <1>5. CASE n >= 2 /\ Reduced(types, 2, RustBinTy(node.op, types[n - 1], types[n]), w)
    <2>1. k > n - 2 => k = n - 1 \/ k = n
      BY <1>1
    <2>2. k > n - 2 => RustBinTy(node.op, types[n - 1], types[n]) = IllTyped
      BY <1>2, <2>1, RustOpTypes
    <2>3. 2 \in 1..2 /\ 2 <= n
      BY <1>1, <1>5
    <2> HIDE DEF n
    <2> QED BY <1>4, <1>5, <2>2, <2>3
  <1>6. CASE n >= 1 /\ Reduced(types, 1, RustUnTy(node.op, types[n]), w)
    <2>1. k > n - 1 => k = n
      BY <1>1
    <2>2. k > n - 1 => RustUnTy(node.op, types[n]) = IllTyped
      BY <1>2, <2>1, RustOpTypes
    <2>3. 1 \in 1..2 /\ 1 <= n
      BY <1>1, <1>6
    <2> HIDE DEF n
    <2> QED BY <1>4, <1>6, <2>2, <2>3
  <1> QED BY <1>3, <1>5, <1>6 DEF NodeTyped

\* The scope in which an expression is typed and the one it is compiled in.
EnvAgrees(scope, env) ==
  \A name \in DOMAIN scope :
    /\ scope[name] # IllTyped
    /\ \E k \in 1..Len(env) :
         /\ env[k].name = name /\ env[k].ty = scope[name]
         /\ \A j \in 1..Len(env) : env[j].name = name => j <= k

\* The operands that wait, in Rust and in the macro, and none of them ill-typed.
InStep(types, env, x) ==
  /\ IsCtx(x.ctx) /\ x.ctx.env = env
  /\ Listed(x.stack) /\ Len(x.stack) = Len(types)
  /\ \A k \in 1..Len(types) : x.stack[k].ty = types[k]

SupportedNode(node) ==
  \/ node.expr = "Path"
  \/ node.expr = "Binary" /\ node.op \in {"+", "-", "*", "&", "|", "^"}
  \/ node.expr = "Unary" /\ node.op = "!"

LEMMA EmitInStep ==
  ASSUME NEW types, Listed(types), NEW env, NEW x, InStep(types, env, x),
         NEW n \in 1..2, n <= Len(types), NEW w, NEW t, Reduced(types, n, t, w),
         t = types[Len(types) - n + 1], NEW op
  PROVE  InStep(w, env, Emit(x, op, n))
  <1> DEFINE y == Emit(x, op, n)
             rest == Len(types) - n
  <1>1. IsCtx(x.ctx) /\ x.ctx.env = env /\ Listed(x.stack) /\ Len(x.stack) = Len(types)
    BY DEF InStep
  <1>2. Emitted(x, op, n, y)
    BY <1>1, EmitDoes
  <1> HIDE DEF y
  <1>3. rest \in Nat /\ rest + 1 \in 1..Len(types) /\ \A k \in 1..rest : k \in 1..Len(types)
    BY DEF Listed
  <1>4. /\ IsCtx(y.ctx) /\ y.ctx.env = env /\ Listed(y.stack) /\ Len(y.stack) = rest + 1
        /\ \A k \in 1..rest : y.stack[k] = x.stack[k]
        /\ y.stack[rest + 1].ty = x.stack[rest + 1].ty
    BY <1>1, <1>2 DEF Emitted, Operand
  <1>5. /\ Len(w) = rest + 1 /\ w[rest + 1] = types[rest + 1]
        /\ \A k \in 1..rest : w[k] = types[k]
    BY DEF Reduced
  <1>6. \A k \in 1..Len(types) : x.stack[k].ty = types[k]
    BY DEF InStep
  <1> HIDE DEF rest
  <1>7. ASSUME NEW k \in 1..(rest + 1) PROVE y.stack[k].ty = w[k]
    <2>1. k \in 1..rest \/ k = rest + 1
      BY <1>3
    <2> QED BY <2>1, <1>3, <1>4, <1>5, <1>6
  <1>8. InStep(w, env, y)
    BY <1>4, <1>5, <1>7 DEF InStep
  <1> QED BY <1>8 DEF y

LEMMA NodeInStep ==
  ASSUME NEW types, Listed(types), NEW scope, NEW env, EnvAgrees(scope, env),
         NEW x, InStep(types, env, x), NEW node \in Node, SupportedNode(node),
         NEW w, NodeTyped(types, node, scope, w)
  PROVE  \/ SomeIll(w)
         \/ CompileNode(x, node).err = "none" /\ InStep(w, env, CompileNode(x, node).val)
  <1> DEFINE n == Len(types)
             r == CompileNode(x, node)
             c == x.ctx
  <1>1. /\ n \in Nat /\ IsCtx(c) /\ c.env = env /\ Listed(x.stack) /\ Len(x.stack) = n
        /\ \A k \in 1..n : x.stack[k].ty = types[k]
    BY DEF InStep, Listed
  <1>2. SUFFICES ASSUME ~SomeIll(w) PROVE r.err = "none" /\ InStep(w, env, r.val)
    OBVIOUS
  <1>3. CASE node.expr = "Path" /\ node.name \in DOMAIN scope
             /\ Longer(w, types, scope[node.name])
    <2> DEFINE name == node.name
               t == scope[name]
    <2>1. PICK k \in 1..Len(env) : /\ env[k].name = name /\ env[k].ty = t
                                   /\ \A j \in 1..Len(env) : env[j].name = name => j <= k
      BY <1>3 DEF EnvAgrees
    <2>2. Lookup(c, name) = Ok(env[k])
      <3> HIDE DEF name
      <3>1. PICK i \in 1..Len(env) : /\ Lookup(c, name) = Ok(env[i]) /\ env[i].name = name
                                     /\ \A j \in 1..Len(env) : env[j].name = name => j <= i
        BY <1>1, <2>1, LookupFinds DEF IsCtx
      <3>2. i = k
        BY <2>1, <3>1
      <3> QED BY <3>1, <3>2
    <2> DEFINE new == Operand(env[k].id, env[k].ty)
    <2>3. r = Ok(Compiling(c, Append(x.stack, new)))
      BY <1>3, <2>2 DEF CompileNode, CompilePath, Ok
    <2>4. r.err = "none" /\ r.val.ctx = c /\ r.val.stack = Append(x.stack, new)
      <3> HIDE DEF r, new
      <3> QED BY <2>3 DEF Ok, Compiling
    <2>5. Longer(r.val.stack, x.stack, new)
      <3> HIDE DEF r, new
      <3> QED BY <2>4, <1>1, AppendIsLonger
    <2>6. new.ty = t
      BY <2>1 DEF Operand
    <2>7. InStep(w, env, r.val)
      <3> HIDE DEF r, new, t
      <3>1. ASSUME NEW j \in 1..(n + 1) PROVE r.val.stack[j].ty = w[j]
        <4>1. j \in 1..n \/ j = n + 1
          BY <1>1
        <4> QED BY <4>1, <1>1, <1>3, <2>5, <2>6 DEF Longer, t
      <3>2. /\ Len(w) = n + 1 /\ Listed(r.val.stack)
            /\ Len(r.val.stack) = n + 1
        BY <1>1, <1>3, <2>5 DEF Longer
      <3> QED BY <3>1, <3>2, <2>4, <1>1 DEF InStep
    <2> QED BY <2>4, <2>7
  <1>4. CASE node.expr = "Binary" /\ n >= 2
             /\ Reduced(types, 2, RustBinTy(node.op, types[n - 1], types[n]), w)
    <2> DEFINE t == RustBinTy(node.op, types[n - 1], types[n])
    <2>1. node.op \in {"+", "-", "*", "&", "|", "^"}
      BY <1>4 DEF SupportedNode
    <2>2. t # IllTyped
      <3>1. Len(w) = n - 2 + 1 /\ w[n - 2 + 1] = t
        BY <1>4 DEF Reduced
      <3>2. n - 2 + 1 \in 1..Len(w)
        BY <3>1, <1>1, <1>4
      <3> HIDE DEF t
      <3> QED BY <3>1, <3>2, <1>2 DEF SomeIll
    <2>3. t = types[n - 1]
      BY <2>1, <2>2, RustOpTypes
    <2>4. node.op \in DOMAIN BinOpTokens
      BY <2>1 DEF BinOpTokens
    <2>5. r = Ok(Emit(x, BinOp(BinOpTokens[node.op]), 2))
      BY <1>1, <1>4, <2>4 DEF CompileNode, CompileBinary
    <2>6. r.err = "none" /\ r.val = Emit(x, BinOp(BinOpTokens[node.op]), 2)
      <3> HIDE DEF r
      <3> QED BY <2>5 DEF Ok
    <2>7. 2 \in 1..2 /\ 2 <= n /\ n - 2 + 1 = n - 1
      BY <1>1, <1>4
    <2>8. InStep(w, env, r.val)
      <3> HIDE DEF r, t
      <3>1. Reduced(types, 2, t, w) /\ t = types[Len(types) - 2 + 1]
        BY <1>4, <2>3, <2>7 DEF t
      <3> QED BY <3>1, <2>6, <2>7, EmitInStep
    <2> QED BY <2>6, <2>8
  <1>5. CASE node.expr = "Unary" /\ n >= 1
             /\ Reduced(types, 1, RustUnTy(node.op, types[n]), w)
    <2> DEFINE t == RustUnTy(node.op, types[n])
    <2>1. t # IllTyped
      <3>1. Len(w) = n - 1 + 1 /\ w[n - 1 + 1] = t
        BY <1>5 DEF Reduced
      <3>2. n - 1 + 1 \in 1..Len(w)
        BY <3>1, <1>1, <1>5
      <3> HIDE DEF t
      <3> QED BY <3>1, <3>2, <1>2 DEF SomeIll
    <2>2. t = types[n] /\ node.op = "!"
      <3>1. node.op = "!"
        BY <1>5 DEF SupportedNode
      <3> QED BY <2>1, <3>1, RustOpTypes
    <2>3. r = Ok(Emit(x, NotOp, 1))
      BY <1>1, <1>5, <2>2 DEF CompileNode, CompileUnary
    <2>4. r.err = "none" /\ r.val = Emit(x, NotOp, 1)
      <3> HIDE DEF r
      <3> QED BY <2>3 DEF Ok
    <2>5. 1 \in 1..2 /\ 1 <= n /\ n - 1 + 1 = n
      BY <1>1, <1>5
    <2>6. InStep(w, env, r.val)
      <3> HIDE DEF r, t
      <3>1. Reduced(types, 1, t, w) /\ t = types[Len(types) - 1 + 1]
        BY <1>5, <2>2, <2>5 DEF t
      <3> QED BY <3>1, <2>4, <2>5, EmitInStep
    <2> QED BY <2>4, <2>6
  <1>6. CASE Longer(w, types, IllTyped)
    <2>1. n + 1 \in 1..Len(w) /\ w[n + 1] = IllTyped
      BY <1>1, <1>6 DEF Longer
    <2> QED BY <2>1, <1>2 DEF SomeIll
  <1> QED BY <1>3, <1>4, <1>5, <1>6 DEF NodeTyped

\* A supported expression that Rust gives a type is compiled, to a result of
\* that type.
Lifted(e, scope, c, r) ==
  /\ r.err = "none" /\ r.val.ctx.env = c.env
  /\ r.val.ty = RustTy(e, scope)

LEMMA NodesHaveTypes ==
  ASSUME NEW e \in Seq(Node), NEW scope, NEW t, NEW f, TypedBy(e, scope, t, f)
  PROVE  \A k \in 0..Len(e) : Listed(f[k])
  <1> DEFINE n == Len(e)
             P == {k \in 0..n : Listed(f[k])}
  <1>1. n \in Nat /\ \A k \in 1..n : e[k] \in Node
    BY LenProperties, ElementOfSeq
  <1>2. 0 \in P
    BY <1>1, NothingListed DEF TypedBy
  <1>3. ASSUME NEW k \in 0..(n - 1), k \in P PROVE k + 1 \in P
    <2>1. k + 1 \in 1..n /\ k + 1 \in 0..n /\ (k + 1) - 1 = k
      BY <1>1
    <2>2. f[k + 1] = RustTyNode(f[k], e[k + 1], scope)
      BY <2>1 DEF TypedBy
    <2>3. NodeTyped(f[k], e[k + 1], scope, f[k + 1])
      BY <2>1, <2>2, <1>1, <1>3, NodeHasType
    <2>4. Listed(f[k + 1])
      BY <2>3 DEF NodeTyped, Longer, Reduced
    <2> QED BY <2>1, <2>4
  <1>4. \A k \in 0..n : k \in P
    <2> HIDE DEF P, n
    <2> QED BY <1>1, <1>2, <1>3, CountingUp
  <1> QED BY <1>4

LEMMA TypedIsLifted ==
  ASSUME NEW c, IsCtx(c), NEW scope, EnvAgrees(scope, c.env),
         NEW e \in Seq(Node), Supported(e), RustTy(e, scope) # IllTyped
  PROVE  Lifted(e, scope, c, CompileExpr(c, e))
  <1> DEFINE n == Len(e)
             env == c.env
             r == CompileExpr(c, e)
             t == RustTy(e, scope)
  <1>1. /\ n \in Nat /\ DOMAIN e = 1..n
        /\ \A k \in 1..n : e[k] \in Node /\ SupportedNode(e[k])
    BY LenProperties, ElementOfSeq DEF Supported, SupportedNode
  <1>2. PICK g : CompiledBy(c, e, r, g)
    BY <1>1, CompileExprFolds
  <1>3. PICK f : TypedBy(e, scope, t, f)
    BY <1>1, RustTyFolds
  <1>4. \A k \in 0..n : Listed(f[k])
    <2> HIDE DEF t
    <2> QED BY <1>3, NodesHaveTypes
  <1> DEFINE both(k) == g[k].err = "none" /\ InStep(f[k], env, g[k].val)
             P == {k \in 0..n : SomeIll(f[k]) \/ both(k)}
  <1> HIDE DEF r, t
  <1>5. 0 \in P
    <2>1. f[0] = <<>> /\ g[0] = Ok(Compiling(c, <<>>))
      BY <1>2, <1>3 DEF CompiledBy, TypedBy
    <2>2. g[0].err = "none" /\ g[0].val = Compiling(c, <<>>)
      BY <2>1 DEF Ok
    <2>3. g[0].val.ctx = c /\ g[0].val.stack = <<>>
      BY <2>2 DEF Compiling
    <2>4. InStep(f[0], env, g[0].val)
      BY <2>1, <2>3, NothingListed DEF InStep
    <2> QED BY <2>2, <2>4, <1>1
  <1>6. ASSUME NEW k \in 0..(n - 1), k \in P PROVE k + 1 \in P
    <2>1. k + 1 \in 1..n /\ k + 1 \in 0..n /\ (k + 1) - 1 = k /\ k \in 0..n
      BY <1>1
    <2>2. /\ f[k + 1] = RustTyNode(f[k], e[k + 1], scope)
          /\ g[k + 1] = AfterNode(g[k], e[k + 1])
      BY <2>1, <1>2, <1>3 DEF TypedBy, CompiledBy
    <2>3. Listed(f[k]) /\ e[k + 1] \in Node /\ SupportedNode(e[k + 1])
      BY <2>1, <1>1, <1>4
    <2>4. NodeTyped(f[k], e[k + 1], scope, f[k + 1])
      BY <2>2, <2>3, NodeHasType
    <2>5. CASE SomeIll(f[k])
      <3>1. SomeIll(f[k + 1])
        BY <2>3, <2>4, <2>5, IllStays
      <3> QED BY <3>1, <2>1
    <2>6. CASE both(k)
      <3>1. g[k + 1] = CompileNode(g[k].val, e[k + 1])
        BY <2>2, <2>6 DEF AfterNode
      <3>2. InStep(f[k], env, g[k].val)
        BY <2>6
      <3> HIDE DEF env
      <3>3. SomeIll(f[k + 1]) \/ both(k + 1)
        BY <3>1, <3>2, <2>3, <2>4, NodeInStep DEF env
      <3> QED BY <3>3, <2>1
    <2> QED BY <1>6, <2>5, <2>6
  <1>7. \A k \in 0..n : k \in P
    <2> HIDE DEF P, n
    <2> QED BY <1>1, <1>5, <1>6, CountingUp
  <1>8. Len(f[n]) = 1 /\ t = f[n][1] /\ t # IllTyped
    BY <1>3 DEF TypedBy, t
  <1>9. ~SomeIll(f[n])
    BY <1>8 DEF SomeIll
  <1>10. g[n].err = "none" /\ InStep(f[n], env, g[n].val)
    BY <1>1, <1>7, <1>9
  <1> DEFINE end == g[n]
  <1>11. /\ Len(end.val.stack) = 1 /\ end.val.ctx.env = env /\ end.val.stack[1].ty = t
    BY <1>8, <1>10 DEF InStep
  <1>12. r = Ok([ctx |-> end.val.ctx, id |-> end.val.stack[1].id, ty |-> end.val.stack[1].ty])
    BY <1>2, <1>10, <1>11 DEF CompiledBy, Outcome
  <1>13. r.err = "none" /\ r.val.ctx = end.val.ctx /\ r.val.ty = end.val.stack[1].ty
    <2> HIDE DEF end
    <2> QED BY <1>12 DEF Ok
  <1>14. r.err = "none" /\ r.val.ctx.env = env /\ r.val.ty = t
    BY <1>11, <1>13
  <1> QED BY <1>14 DEF Lifted, r, t

\* The name a let binds.
LEMMA EnvAgreesAfterBind ==
  ASSUME NEW scope, NEW env, Listed(env), EnvAgrees(scope, env), NEW name, NEW id,
         NEW ty, ty # IllTyped,
         NEW env2, Longer(env2, env, [name |-> name, id |-> id, ty |-> ty])
  PROVE  EnvAgrees(Shadowing(scope, name, ty), env2)
  <1> DEFINE n == Len(env)
             scope2 == Shadowing(scope, name, ty)
  <1>1. /\ n \in Nat /\ Len(env2) = n + 1
        /\ \A k \in 1..n : env2[k] = env[k]
        /\ env2[n + 1].name = name /\ env2[n + 1].ty = ty
    BY DEF Longer, Listed
  <1>2. DOMAIN scope2 = DOMAIN scope \cup {name}
        /\ \A x \in DOMAIN scope2 : scope2[x] = IF x = name THEN ty ELSE scope[x]
    BY DEF Shadowing
  <1> HIDE DEF scope2
  <1>3. SUFFICES ASSUME NEW x \in DOMAIN scope2
                 PROVE  /\ scope2[x] # IllTyped
                        /\ \E k \in 1..(n + 1) :
                             /\ env2[k].name = x /\ env2[k].ty = scope2[x]
                             /\ \A j \in 1..(n + 1) : env2[j].name = x => j <= k
    BY <1>1 DEF EnvAgrees, scope2
  <1>4. CASE x = name
    <2>1. /\ n + 1 \in 1..(n + 1) /\ \A j \in 1..(n + 1) : j <= n + 1
      BY <1>1
    <2> QED BY <2>1, <1>1, <1>2, <1>4
  <1>5. CASE x # name
    <2>1. x \in DOMAIN scope /\ scope2[x] = scope[x]
      BY <1>2, <1>5
    <2>2. PICK k \in 1..n : /\ env[k].name = x /\ env[k].ty = scope[x]
                            /\ \A j \in 1..n : env[j].name = x => j <= k
      BY <2>1 DEF EnvAgrees
    <2>3. scope[x] # IllTyped
      BY <2>1 DEF EnvAgrees
    <2>4. ASSUME NEW j \in 1..(n + 1), env2[j].name = x PROVE j <= k
      <3>1. j \in 1..n
        BY <2>4, <1>1, <1>5
      <3> QED BY <3>1, <2>2, <2>4, <1>1
    <2>5. k \in 1..(n + 1) /\ env2[k].name = x /\ env2[k].ty = scope2[x]
      BY <2>1, <2>2, <1>1
    <2> QED BY <2>1, <2>3, <2>4, <2>5
  <1> QED BY <1>4, <1>5

\* A let of a name asks nothing of the type, and binds the name.
LEMMA NameLet ==
  ASSUME NEW s, s.pat.kind = "Ident", NEW scope
  PROVE  /\ RustLetTy(s, scope) = RustTy(s.init[1], scope)
         /\ \A v : AfterLet(scope, s, v) = Shadowing(scope, s.pat.name, v)
  BY DEF RustLetTy, AfterLet

LEMMA LetIsLifted ==
  ASSUME NEW c, IsCtx(c), NEW scope, EnvAgrees(scope, c.env),
         NEW s \in LetStmts, IsLet(s), s.pat.kind = "Ident",
         Supported(s.init[1]), RustTy(s.init[1], scope) # IllTyped
  PROVE  CompileLetStmt(c, s).err = "none"
  <1> DEFINE rhs == CompileExpr(c, s.init[1])
  <1>1. s.stmt = "Local" /\ s.pat.kind = "Ident" /\ s.init # <<>>
    BY NothingListed DEF IsLet
  <1>2. s.init[1] \in Seq(Node)
    BY <1>1, InitIsExpr
  <1>3. rhs.err = "none"
    BY <1>2, TypedIsLifted DEF Lifted
  <1>4. CompileLetStmt(c, s) = Ok(Bind(rhs.val.ctx, s.pat.name, rhs.val.id, rhs.val.ty))
    BY <1>1, <1>3 DEF CompileLetStmt
  <1> QED BY <1>4 DEF Ok

LEMMA EnvAgreesAfterLet ==
  ASSUME NEW ps, NEW c, InOrder(ps, c), NEW scope, EnvAgrees(scope, c.env),
         NEW s \in LetStmts, Supported(s.init[1]), RustTy(s.init[1], scope) # IllTyped,
         NEW d, LetBinds(c, s, d)
  PROVE  EnvAgrees(Shadowing(scope, s.pat.name, RustTy(s.init[1], scope)), d.env)
  <1> DEFINE v == CompileExpr(c, s.init[1]).val
             t == RustTy(s.init[1], scope)
  <1>1. s.init[1] \in Seq(Node)
    BY InitIsExpr DEF LetBinds
  <1>2. v.ctx.env = c.env /\ v.ty = t
    BY <1>1, TypedIsLifted DEF Lifted, InOrder
  <1>3. InOrder(ps, v.ctx) /\ IsCtx(v.ctx)
    BY <1>1, ExprInOrder DEF LetBinds, ResultCarries, InOrder
  <1>4. d = Bind(v.ctx, s.pat.name, v.id, v.ty)
    BY DEF LetBinds
  <1> HIDE DEF v, t
  <1>5. Longer(d.env, c.env, [name |-> s.pat.name, id |-> v.id, ty |-> t])
    BY <1>2, <1>3, <1>4, BindDoes DEF Bound
  <1>6. Listed(c.env) /\ t # IllTyped
    BY DEF InOrder, IsCtx, t
  <1>7. EnvAgrees(Shadowing(scope, s.pat.name, t), d.env)
    BY <1>5, <1>6, EnvAgreesAfterBind
  <1> QED BY <1>7 DEF t

---------------------------------------------------------------------------
(* The invariants                                                          *)

\* What is read so far, and the context it was compiled to.
SourceInOrder ==
  /\ IsParams(args) /\ \A k \in 1..Len(args) : IsScalar(args[k].ty)
  /\ IsScalar(ret)
  /\ Listed(lets)
  /\ status = "args" => lets = <<>>
  /\ status \in {"args", "body"} => tail = <<>>
  /\ status = "body" => args # <<>> /\ InOrder(args, ctx)
  /\ ~OnlyNames(lets) => status = "CompileError"

\* As long as Rust accepts what is read, its scope agrees with the macro's.
ScopeInStep == (status = "body" /\ RustAccepts /\ InSubset) => EnvAgrees(ScopeTypes, ctx.env)

PromiseKept == SourceInOrder /\ ScopeInStep /\ OnlyPatternsRefused

LEMMA NamesOneMore ==
  ASSUME NEW ls, Listed(ls), NEW s, NEW longer, Longer(longer, ls, s)
  PROVE  OnlyNames(longer) <=> OnlyNames(ls) /\ s.pat.kind = "Ident"
  <1> DEFINE n == Len(ls)
  <1>1. /\ n \in Nat /\ Len(longer) = n + 1 /\ longer[n + 1] = s
        /\ \A k \in 1..n : longer[k] = ls[k]
        /\ DOMAIN ls = 1..n /\ DOMAIN longer = 1..(n + 1)
    BY ListedDomain DEF Longer, Listed
  <1> HIDE DEF n
  <1>2. ASSUME NEW k \in 1..(n + 1) PROVE k \in 1..n \/ k = n + 1
    BY <1>1
  <1>3. 1..n \subseteq 1..(n + 1) /\ n + 1 \in 1..(n + 1)
    BY <1>1
  <1> QED BY <1>1, <1>2, <1>3 DEF OnlyNames

LEMMA ParsedIsScalar ==
  ASSUME NEW t
  PROVE  \/ ParseScalarTy(t).err = "none" /\ IsScalar(ParseScalarTy(t).val)
         \/ ParseScalarTy(t).err = "CompileError"
  <1> DEFINE r == ParseScalarTy(t)
  <1>1. r \in {Ok(BoolT), Ok(BitsT(t.width[1])), Ok(SignedT(t.width[1])), CompileError}
    BY DEF ParseScalarTy
  <1>2. /\ Ok(BoolT).err = "none" /\ Ok(BoolT).val = BoolT
        /\ Ok(BitsT(t.width[1])).err = "none" /\ Ok(BitsT(t.width[1])).val = BitsT(t.width[1])
        /\ Ok(SignedT(t.width[1])).err = "none"
        /\ Ok(SignedT(t.width[1])).val = SignedT(t.width[1])
        /\ CompileError.err = "CompileError"
    BY DEF Ok, CompileError, Fail
  <1>3. IsScalar(BoolT) /\ IsScalar(BitsT(t.width[1])) /\ IsScalar(SignedT(t.width[1]))
    BY DEF IsScalar, BoolT, BitsT, SignedT
  <1>4. (r.err = "none" /\ IsScalar(r.val)) \/ r.err = "CompileError"
    <2> HIDE DEF r
    <2> QED BY <1>1, <1>2, <1>3
  <1> QED BY <1>4

\* The only error the macro reports.
LEMMA OneError ==
  /\ \A c, e : CompileExpr(c, e).err \in {"none", "CompileError"}
  /\ \A c, s : CompileLetStmt(c, s).err \in {"none", "CompileError"}
  /\ \A c, s : CompileTail(c, s).err \in {"none", "CompileError"}
  <1>1. CompileError.err = "CompileError" /\ \A v : Ok(v).err = "none"
    BY DEF Ok, CompileError, Fail
  <1>2. ASSUME NEW c, NEW e PROVE CompileExpr(c, e).err \in {"none", "CompileError"}
    BY DEF CompileExpr, Ok, CompileError, Fail
  <1>3. ASSUME NEW c, NEW s PROVE CompileLetStmt(c, s).err \in {"none", "CompileError"}
    BY <1>1, <1>2 DEF CompileLetStmt
  <1>4. ASSUME NEW c, NEW s PROVE CompileTail(c, s).err \in {"none", "CompileError"}
    BY <1>1, <1>2 DEF CompileTail
  <1> QED BY <1>2, <1>3, <1>4

LEMMA InitSource == Init => SourceInOrder
  <1> SUFFICES ASSUME Init PROVE SourceInOrder
    OBVIOUS
  <1>1. args = <<>> /\ ret = BoolT /\ lets = <<>> /\ tail = <<>> /\ status = "args"
    BY DEF Init
  <1>2. IsParams(args)
    BY <1>1, NothingListed DEF IsParams
  <1>3. IsScalar(ret) /\ \A k \in 1..Len(args) : IsScalar(args[k].ty)
    BY <1>1, NothingListed DEF IsScalar, BoolT
  <1>4. OnlyNames(lets)
    BY <1>1 DEF OnlyNames
  <1> QED BY <1>1, <1>2, <1>3, <1>4, NothingListed DEF SourceInOrder

LEMMA ArgSource ==
  ASSUME SourceInOrder, NEW decl, Arg(decl)
  PROVE  SourceInOrder'
  <1> DEFINE ty == ParseScalarTy(decl.ty)
             new == [name |-> decl.pat.name, ty |-> ty.val, id |-> ArgIdent(decl.pat.name)]
  <1>1. status = "args" /\ UNCHANGED <<ret, lets, tail, ctx, arrow>>
    BY DEF Arg
  <1>2. CASE decl.pat.kind = "Ident" /\ ty.err = "none"
    <2>1. args' = Append(args, new) /\ status' = status
      BY <1>2 DEF Arg
    <2>2. Longer(args', args, new)
      <3> HIDE DEF new
      <3> QED BY <2>1, AppendIsLonger DEF SourceInOrder, IsParams
    <2>3. new.id = ArgIdent(new.name) /\ IsScalar(new.ty)
      BY <1>2, ParsedIsScalar
    <2>4. ASSUME NEW k \in 1..Len(args')
          PROVE  args'[k].id = ArgIdent(args'[k].name) /\ IsScalar(args'[k].ty)
      <3> HIDE DEF new
      <3>1. Len(args) \in Nat
        BY DEF SourceInOrder, IsParams, Listed
      <3>2. k \in 1..Len(args) \/ k = Len(args) + 1
        BY <3>1, <2>2 DEF Longer
      <3> QED BY <3>2, <2>2, <2>3 DEF Longer, SourceInOrder, IsParams
    <2>5. IsParams(args)' /\ (\A k \in 1..Len(args) : IsScalar(args[k].ty))'
      BY <2>2, <2>4 DEF IsParams, Longer
    <2> QED BY <1>1, <2>1, <2>5 DEF SourceInOrder
  <1>3. CASE ~(decl.pat.kind = "Ident" /\ ty.err = "none")
    <2>1. args' = args /\ status' = "CompileError"
      BY <1>3 DEF Arg
    <2> QED BY <1>1, <2>1 DEF SourceInOrder
  <1> QED BY <1>2, <1>3

LEMMA SignatureSource ==
  ASSUME SourceInOrder, NEW t, Signature(t)
  PROVE  SourceInOrder'
  <1> DEFINE ty == ParseScalarTy(t)
  <1>1. status = "args" /\ UNCHANGED <<args, lets, tail, arrow>>
    BY DEF Signature
  <1>2. CASE args # <<>> /\ ty.err = "none"
    <2>1. ret' = ty.val /\ status' = "body" /\ ctx' = [NewCtx EXCEPT !.env = args]
      BY <1>2 DEF Signature
    <2>2. IsScalar(ret')
      BY <1>2, <2>1, ParsedIsScalar
    <2>3. ctx' = [stmts |-> <<>>, env |-> args, fresh |-> 0]
      BY <2>1 DEF NewCtx
    <2>4. InOrder(args, ctx')
      BY <2>3, ParamsInOrder DEF SourceInOrder
    <2> QED BY <1>1, <1>2, <2>1, <2>2, <2>4 DEF SourceInOrder
  <1>3. CASE ~(args # <<>> /\ ty.err = "none")
    <2>1. status' = "CompileError" /\ ret' = ret
      BY <1>3 DEF Signature
    <2> QED BY <1>1, <2>1 DEF SourceInOrder
  <1> QED BY <1>2, <1>3

LEMMA LetSource ==
  ASSUME SourceInOrder, NEW s \in LetStmts, Let(s)
  PROVE  SourceInOrder'
  <1> DEFINE r == CompileLetStmt(ctx, s)
  <1>1. status = "body" /\ lets' = Append(lets, s) /\ UNCHANGED <<args, ret, tail, arrow>>
    BY DEF Let
  <1>2. Longer(lets', lets, s)
    BY <1>1, AppendIsLonger DEF SourceInOrder
  <1>3. Listed(lets')
    BY <1>2 DEF Longer
  <1>4. CASE r.err = "none"
    <2>1. ctx' = r.val /\ status' = "body"
      BY <1>1, <1>4 DEF Let
    <2>2. LetBinds(ctx, s, ctx')
      BY <1>4, <2>1, LetDoes
    <2>3. InOrder(args, ctx')
      BY <1>1, <2>2, LetInOrder DEF SourceInOrder
    <2>4. OnlyNames(lets')
      BY <1>1, <1>2, <2>2, NamesOneMore DEF SourceInOrder, LetBinds
    <2> QED BY <1>1, <1>3, <2>1, <2>3, <2>4 DEF SourceInOrder
  <1>5. CASE r.err # "none"
    <2>1. status' = "CompileError"
      BY <1>5, OneError DEF Let
    <2> QED BY <1>1, <1>3, <2>1 DEF SourceInOrder
  <1> QED BY <1>4, <1>5

LEMMA TailStatus ==
  ASSUME NEW s, TailExpr(s)
  PROVE  \/ /\ CompileTail(ctx, s).err = "none" /\ status' = "expanded"
            /\ ctx' = CompileTail(ctx, s).val.ctx
            /\ arrow' = Kernel(args, CompileTail(ctx, s).val.ctx.stmts,
                               CompileTail(ctx, s).val.id)
         \/ CompileTail(ctx, s).err = "CompileError" /\ status' = "CompileError"
  BY OneError DEF TailExpr

LEMMA TailSource ==
  ASSUME SourceInOrder, NEW s, TailExpr(s)
  PROVE  SourceInOrder'
  <1>1. /\ status = "body" /\ UNCHANGED <<args, ret, lets>>
        /\ status' \notin {"args", "body"}
    BY TailStatus DEF TailExpr
  <1> QED BY <1>1 DEF SourceInOrder

\* SourceInOrder is inductive.
LEMMA NextSource == SourceInOrder /\ [Next]_vars => SourceInOrder'
  <1> SUFFICES ASSUME SourceInOrder, [Next]_vars PROVE SourceInOrder'
    OBVIOUS
  <1>1. CASE \E decl \in ArgDecls : Arg(decl)
    BY <1>1, ArgSource
  <1>2. CASE \E t \in RetTypes : Signature(t)
    BY <1>2, SignatureSource
  <1>3. CASE \E s \in LetStmts : Let(s)
    BY <1>3, LetSource
  <1>4. CASE \E s \in TailStmts : TailExpr(s)
    BY <1>4, TailSource
  <1>5. CASE EmptyBody
    BY <1>5 DEF EmptyBody, SourceInOrder
  <1>6. CASE UNCHANGED vars
    BY <1>6 DEF vars, SourceInOrder
  <1> QED BY <1>1, <1>2, <1>3, <1>4, <1>5, <1>6 DEF Next

\* The result of a last expression that compiles.
LEMMA TailCarries ==
  ASSUME SourceInOrder, NEW s \in TailStmts, TailExpr(s), CompileTail(ctx, s).err = "none"
  PROVE  /\ s.stmt = "Expr" /\ s.expr \in Seq(Node)
         /\ CompileTail(ctx, s) = CompileExpr(ctx, s.expr)
         /\ ResultCarries(args, ctx.env, CompileTail(ctx, s).val)
  <1>1. status = "body" /\ InOrder(args, ctx)
    BY DEF TailExpr, SourceInOrder
  <1>2. s.stmt = "Expr" /\ CompileTail(ctx, s) = CompileExpr(ctx, s.expr)
    BY DEF CompileTail, CompileError, Fail
  <1>3. s.expr \in Seq(Node)
    BY <1>2, SyntaxAssumption
  <1> QED BY <1>1, <1>2, <1>3, ExprInOrder

\* Only a last expression that compiles expands the function.
LEMMA ExpandedBy ==
  ASSUME SourceInOrder, [Next]_vars, status' = "expanded"
  PROVE  \/ \E s \in TailStmts : TailExpr(s) /\ CompileTail(ctx, s).err = "none"
         \/ UNCHANGED vars
  <1>1. ASSUME NEW decl, Arg(decl) PROVE FALSE
    BY <1>1, ParsedIsScalar DEF Arg
  <1>2. ASSUME NEW t, Signature(t) PROVE FALSE
    BY <1>2 DEF Signature
  <1>3. ASSUME NEW s, Let(s) PROVE FALSE
    BY <1>3, OneError DEF Let
  <1>4. ASSUME NEW s, TailExpr(s) PROVE CompileTail(ctx, s).err = "none"
    BY <1>4, TailStatus
  <1>5. ~EmptyBody
    BY DEF EmptyBody
  <1> QED BY <1>1, <1>2, <1>3, <1>4, <1>5 DEF Next

LEMMA NetlistStep ==
  ASSUME SourceInOrder, NetlistInOrder, [Next]_vars
  PROVE  NetlistInOrder'
  <1>1. SUFFICES ASSUME status' = "expanded" PROVE ArrowInOrder(arrow')
    BY DEF NetlistInOrder, ArrowInOrder
  <1>2. CASE UNCHANGED vars
    <2>1. status = "expanded" /\ arrow' = arrow
      BY <1>1, <1>2 DEF vars
    <2> QED BY <2>1 DEF NetlistInOrder, ArrowInOrder
  <1>3. ASSUME NEW s \in TailStmts, TailExpr(s), CompileTail(ctx, s).err = "none"
        PROVE  ArrowInOrder(arrow')
    <2> DEFINE v == CompileTail(ctx, s).val
    <2>1. ResultCarries(args, ctx.env, v)
      BY <1>3, TailCarries
    <2>2. arrow' = Kernel(args, v.ctx.stmts, v.id)
      BY <1>3, TailStatus
    <2> HIDE DEF v
    <2>3. Named(args, v.ctx.fresh, v.id) /\ InOrder(args, v.ctx)
      BY <2>1, CarriedIsNamed DEF ResultCarries
    <2> QED BY <2>2, <2>3, KernelInOrder DEF SourceInOrder
  <1> QED BY <1>1, <1>2, <1>3, ExpandedBy

\* Whatever function the macro accepts, the netlist it expands to is in order:
\* every instruction reads parameters and earlier results only, and drives a
\* wire nothing else drives (NetlistInOrder).
THEOREM NetlistAlwaysInOrder == Spec => []NetlistInOrder
  <1>1. Init => SourceInOrder /\ NetlistInOrder
    BY InitSource DEF Init, NetlistInOrder
  <1>2. SourceInOrder /\ NetlistInOrder /\ [Next]_vars => (SourceInOrder /\ NetlistInOrder)'
    BY NextSource, NetlistStep
  <1> QED BY <1>1, <1>2, PTL DEF Spec

---------------------------------------------------------------------------
(* The promise, of the parameters ps, the lets ls and the last statement   *)

TypesOf(ps) ==
  [n \in {ps[k].name : k \in DOMAIN ps} |-> ps[CHOOSE k \in DOMAIN ps : ps[k].name = n].ty]

ScopeOf(ps, ls) == Scopes(TypesOf(ps), ls)[Len(ls)]

AcceptsLets(ps, ls) ==
  /\ Distinct(ps)
  /\ \A k \in 1..Len(ls) : IsLet(ls[k]) /\ Supported(ls[k].init[1])
  /\ \A k \in 1..Len(ls) : RustLetTy(ls[k], Scopes(TypesOf(ps), ls)[k - 1]) # IllTyped

AcceptsTail(ps, r, ls, s) ==
  s.stmt = "Expr" /\ RustTy(s.expr, ScopeOf(ps, ls)) = r /\ Supported(s.expr)

\* After a step.
LEMMA PromiseOfParts ==
  ASSUME SourceInOrder', RustAccepts', InSubset'
  PROVE  /\ AcceptsLets(args', lets')
         /\ \A k \in DOMAIN tail' : AcceptsTail(args', ret', lets', tail'[k])
         /\ ScopeTypes' = ScopeOf(args', lets')
  <1>1. DOMAIN args' = 1..Len(args') /\ DOMAIN lets' = 1..Len(lets')
    BY ListedDomain DEF SourceInOrder, IsParams
  <1>2. ParamTypes' = TypesOf(args')
    BY DEF ParamTypes, TypesOf
  <1>3. AcceptsLets(args', lets')
    BY <1>1, <1>2 DEF RustAccepts, InSubset, AcceptsLets, Distinct
  <1>4. ScopeTypes' = ScopeOf(args', lets')
    BY <1>2 DEF ScopeTypes, ScopeOf
  <1>5. \A k \in DOMAIN tail' : AcceptsTail(args', ret', lets', tail'[k])
    BY <1>4 DEF RustAccepts, InSubset, AcceptsTail
  <1> QED BY <1>3, <1>4, <1>5

\* Before any last statement, what is accepted is the lets.
LEMMA PartsAreAccepted ==
  ASSUME SourceInOrder, tail = <<>>, args # <<>>, AcceptsLets(args, lets)
  PROVE  RustAccepts /\ InSubset
  <1>1. DOMAIN args = 1..Len(args) /\ DOMAIN lets = 1..Len(lets)
    BY ListedDomain DEF SourceInOrder, IsParams
  <1>2. ParamTypes = TypesOf(args)
    BY DEF ParamTypes, TypesOf
  <1>3. DOMAIN tail = {}
    OBVIOUS
  <1> QED BY <1>1, <1>2, <1>3 DEF RustAccepts, InSubset, AcceptsLets, Distinct

LEMMA AcceptsOneMore ==
  ASSUME NEW ps, NEW ls, Listed(ls), NEW s, NEW longer, Longer(longer, ls, s),
         AcceptsLets(ps, longer)
  PROVE  /\ AcceptsLets(ps, ls)
         /\ IsLet(s) /\ Supported(s.init[1])
         /\ RustLetTy(s, ScopeOf(ps, ls)) # IllTyped
         /\ ScopeOf(ps, longer) =
              AfterLet(ScopeOf(ps, ls), s, RustLetTy(s, ScopeOf(ps, ls)))
  <1> DEFINE n == Len(ls)
             f == Scopes(TypesOf(ps), ls)
             g == Scopes(TypesOf(ps), longer)
  <1>1. /\ n \in Nat /\ Len(longer) = n + 1 /\ longer[n + 1] = s
        /\ \A k \in 1..n : longer[k] = ls[k]
    BY DEF Longer, Listed
  <1>2. /\ \A k \in 0..n : g[k] = f[k]
        /\ g[n + 1] = AfterLet(f[n], s, RustLetTy(s, f[n]))
    BY ScopesOfLonger
  <1>3. /\ Distinct(ps)
        /\ \A k \in 1..(n + 1) : IsLet(longer[k]) /\ Supported(longer[k].init[1])
        /\ \A k \in 1..(n + 1) : RustLetTy(longer[k], g[k - 1]) # IllTyped
    BY <1>1 DEF AcceptsLets
  <1>4. f[n] = ScopeOf(ps, ls) /\ g[n + 1] = ScopeOf(ps, longer)
    BY <1>1 DEF ScopeOf
  <1> HIDE DEF f, g
  <1>5. ASSUME NEW k \in 1..n
        PROVE  IsLet(ls[k]) /\ Supported(ls[k].init[1]) /\ RustLetTy(ls[k], f[k - 1]) # IllTyped
    <2>1. k \in 1..(n + 1) /\ k - 1 \in 0..n /\ longer[k] = ls[k]
      BY <1>1
    <2> QED BY <2>1, <1>2, <1>3
  <1>6. AcceptsLets(ps, ls)
    BY <1>3, <1>5 DEF AcceptsLets, f
  <1>7. IsLet(s) /\ Supported(s.init[1]) /\ RustLetTy(s, f[n]) # IllTyped
    <2>1. n + 1 \in 1..(n + 1) /\ (n + 1) - 1 = n /\ n \in 0..n
      BY <1>1
    <2> QED BY <2>1, <1>1, <1>2, <1>3
  <1> QED BY <1>2, <1>4, <1>6, <1>7

\* The scope of the parameters.
LEMMA ParamScope ==
  ASSUME NEW ps, IsParams(ps), Distinct(ps), \A k \in 1..Len(ps) : IsScalar(ps[k].ty)
  PROVE  EnvAgrees(ScopeOf(ps, <<>>), ps)
  <1> DEFINE n == Len(ps)
             t == TypesOf(ps)
  <1>1. n \in Nat /\ DOMAIN ps = 1..n
    BY ListedDomain DEF IsParams
  <1>2. ScopeOf(ps, <<>>) = t
    <2> HIDE DEF t
    <2>1. ScopedBy(t, <<>>, Scopes(t, <<>>))
      BY ScopesFold, NothingListed
    <2> QED BY <2>1, NothingListed DEF ScopedBy, ScopeOf, t
  <1>3. ASSUME NEW name \in DOMAIN t
        PROVE  /\ t[name] # IllTyped
               /\ \E k \in 1..n : /\ ps[k].name = name /\ ps[k].ty = t[name]
                                  /\ \A j \in 1..n : ps[j].name = name => j <= k
    <2> DEFINE k == CHOOSE i \in 1..n : ps[i].name = name
    <2>1. (\E i \in 1..n : ps[i].name = name) /\ t[name] = ps[k].ty
      BY <1>1 DEF TypesOf
    <2>2. k \in 1..n /\ ps[k].name = name
      BY <2>1
    <2> HIDE DEF k, t
    <2>3. \A j \in 1..n : ps[j].name = name => j <= k
      BY <2>2, <1>1 DEF Distinct
    <2>4. t[name] # IllTyped
      BY <2>1, <2>2 DEF IsScalar, IllTyped
    <2> QED BY <2>1, <2>2, <2>3, <2>4
  <1>4. EnvAgrees(t, ps)
    <2> HIDE DEF t
    <2> QED BY <1>3 DEF EnvAgrees
  <1> QED BY <1>2, <1>4

\* A last expression that Rust accepts is compiled, to the type it returns.
LEMMA TailIsLifted ==
  ASSUME SourceInOrder, ScopeInStep, status = "body", AcceptsLets(args, lets),
         NEW s \in TailStmts, AcceptsTail(args, ret, lets, s)
  PROVE  /\ CompileTail(ctx, s).err = "none"
         /\ CompileTail(ctx, s).val.ty = ret
  <1>1. tail = <<>> /\ args # <<>> /\ InOrder(args, ctx) /\ IsScalar(ret)
    BY DEF SourceInOrder
  <1>2. EnvAgrees(ScopeOf(args, lets), ctx.env)
    <2>1. ScopeTypes = ScopeOf(args, lets)
      BY DEF ScopeTypes, ScopeOf, ParamTypes, TypesOf
    <2> QED BY <1>1, <2>1, PartsAreAccepted DEF ScopeInStep
  <1>3. /\ CompileTail(ctx, s) = CompileExpr(ctx, s.expr) /\ s.expr \in Seq(Node)
        /\ Supported(s.expr) /\ RustTy(s.expr, ScopeOf(args, lets)) = ret
    BY SyntaxAssumption DEF AcceptsTail, CompileTail
  <1>4. ret # IllTyped
    BY <1>1 DEF IsScalar, IllTyped
  <1>5. Lifted(s.expr, ScopeOf(args, lets), ctx, CompileExpr(ctx, s.expr))
    BY <1>1, <1>2, <1>3, <1>4, TypedIsLifted DEF InOrder
  <1> QED BY <1>3, <1>5 DEF Lifted

\* A let of a name that Rust accepts is compiled, and its scope is the macro's.
LEMMA LetKeepsPromise ==
  ASSUME SourceInOrder, ScopeInStep, SourceInOrder', NEW s \in LetStmts, Let(s),
         RustAccepts', InSubset', OnlyNames(lets')
  PROVE  status' = "body" /\ EnvAgrees(ScopeTypes', ctx.env')
  <1> DEFINE scope == ScopeOf(args, lets)
             r == CompileLetStmt(ctx, s)
  <1>1. /\ status = "body" /\ tail = <<>> /\ args # <<>> /\ InOrder(args, ctx) /\ Listed(lets)
        /\ lets' = Append(lets, s) /\ args' = args
    BY DEF Let, SourceInOrder
  <1>2. Longer(lets', lets, s)
    BY <1>1, AppendIsLonger
  <1>3. AcceptsLets(args, lets') /\ ScopeTypes' = ScopeOf(args, lets')
    BY <1>1, PromiseOfParts
  <1>4. /\ AcceptsLets(args, lets)
        /\ s.pat.kind = "Ident"
        /\ IsLet(s) /\ Supported(s.init[1]) /\ RustTy(s.init[1], scope) # IllTyped
        /\ ScopeOf(args, lets') = Shadowing(scope, s.pat.name, RustTy(s.init[1], scope))
    <2>1. s.pat.kind = "Ident"
      BY <1>1, <1>2, NamesOneMore
    <2>2. /\ AcceptsLets(args, lets)
          /\ IsLet(s) /\ Supported(s.init[1]) /\ RustLetTy(s, scope) # IllTyped
          /\ ScopeOf(args, lets') = AfterLet(scope, s, RustLetTy(s, scope))
      BY <1>1, <1>2, <1>3, AcceptsOneMore
    <2> HIDE DEF scope
    <2> QED BY <2>1, <2>2, NameLet
  <1>5. EnvAgrees(scope, ctx.env)
    <2>1. ScopeTypes = scope
      BY DEF ScopeTypes, ScopeOf, ParamTypes, TypesOf
    <2> QED BY <1>1, <1>4, <2>1, PartsAreAccepted DEF ScopeInStep
  <1> HIDE DEF scope
  <1>6. r.err = "none"
    BY <1>1, <1>4, <1>5, LetIsLifted DEF InOrder
  <1>7. status' = "body" /\ ctx' = r.val
    BY <1>1, <1>6 DEF Let
  <1>8. LetBinds(ctx, s, ctx')
    BY <1>6, <1>7, LetDoes
  <1>9. EnvAgrees(Shadowing(scope, s.pat.name, RustTy(s.init[1], scope)), (ctx').env)
    <2> DEFINE d == ctx'
    <2> HIDE DEF d
    <2>1. LetBinds(ctx, s, d)
      BY <1>8 DEF d
    <2>2. EnvAgrees(Shadowing(scope, s.pat.name, RustTy(s.init[1], scope)), d.env)
      BY <1>1, <1>4, <1>5, <2>1, EnvAgreesAfterLet
    <2> QED BY <2>2 DEF d
  <1> QED BY <1>3, <1>4, <1>7, <1>9

LEMMA TailKeepsPromise ==
  ASSUME SourceInOrder, ScopeInStep, SourceInOrder', NEW s \in TailStmts, TailExpr(s),
         RustAccepts', InSubset'
  PROVE  /\ status' = "expanded"
         /\ EndsMatch(args', ret', arrow')
  <1> DEFINE v == CompileTail(ctx, s).val
  <1>1. status = "body" /\ tail' = <<s>> /\ UNCHANGED <<args, ret, lets>>
    BY DEF TailExpr
  <1>2. AcceptsLets(args, lets) /\ AcceptsTail(args, ret, lets, s)
    <2>1. 1 \in DOMAIN tail' /\ tail'[1] = s
      BY <1>1
    <2> QED BY <1>1, <2>1, PromiseOfParts
  <1>3. CompileTail(ctx, s).err = "none" /\ v.ty = ret
    BY <1>1, <1>2, TailIsLifted
  <1>4. ResultCarries(args, ctx.env, v)
    BY <1>3, TailCarries
  <1>5. status' = "expanded" /\ arrow' = Kernel(args, v.ctx.stmts, v.id)
    BY <1>3, TailStatus
  <1> HIDE DEF v
  <1>6. InOrder(args, v.ctx) /\ Carries(args, v.ctx, v.id, ret)
    BY <1>3, <1>4 DEF ResultCarries
  <1>7. /\ IsParams(args) /\ Distinct(args) /\ IsScalar(ret)
        /\ \A k \in 1..Len(args) : IsScalar(args[k].ty)
    BY <1>2 DEF SourceInOrder, AcceptsLets
  <1>8. EndsMatch(args, ret, Kernel(args, v.ctx.stmts, v.id))
    BY <1>6, <1>7, KernelEndsMatch
  <1> QED BY <1>1, <1>5, <1>8

LEMMA SignatureKeepsPromise ==
  ASSUME SourceInOrder, SourceInOrder', NEW t, Signature(t), RustAccepts', InSubset',
         status' = "body"
  PROVE  EnvAgrees(ScopeTypes', ctx.env')
  <1>1. lets' = <<>> /\ args' = args /\ ctx' = [NewCtx EXCEPT !.env = args]
    BY DEF Signature, SourceInOrder
  <1>2. (ctx').env = args
    BY <1>1 DEF NewCtx
  <1>3. AcceptsLets(args, <<>>) /\ ScopeTypes' = ScopeOf(args, <<>>)
    BY <1>1, PromiseOfParts
  <1>4. EnvAgrees(ScopeOf(args, <<>>), args)
    BY <1>3, ParamScope DEF SourceInOrder, AcceptsLets
  <1> QED BY <1>2, <1>3, <1>4

LEMMA InitPromise == Init => PromiseKept
  <1> SUFFICES ASSUME Init PROVE PromiseKept
    OBVIOUS
  <1>1. status = "args"
    BY DEF Init
  <1>2. ~Promised
    BY DEF Init, Promised
  <1> QED BY <1>1, <1>2, InitSource DEF PromiseKept, ScopeInStep, OnlyPatternsRefused

LEMMA NextPromise == PromiseKept /\ [Next]_vars => PromiseKept'
  <1> SUFFICES ASSUME PromiseKept, [Next]_vars PROVE PromiseKept'
    OBVIOUS
  <1>1. SourceInOrder /\ SourceInOrder' /\ ScopeInStep /\ OnlyPatternsRefused
    BY NextSource DEF PromiseKept
  <1>2. SUFFICES ASSUME RustAccepts', InSubset'
                 PROVE  /\ status' = "body" => EnvAgrees(ScopeTypes', ctx.env')
                        /\ (status' = "CompileError" /\ OnlyNames(lets')) => ~Promised'
    BY <1>1 DEF PromiseKept, ScopeInStep, OnlyPatternsRefused, Promised, SourceInOrder
  <1>3. ASSUME status = "args", lets' = lets, tail' = tail
        PROVE  ~Promised'
    <2>1. lets' = <<>> /\ tail' = <<>>
      BY <1>1, <1>3 DEF SourceInOrder
    <2> QED BY <2>1 DEF Promised
  <1>4. CASE \E decl \in ArgDecls : Arg(decl)
    <2>1. status = "args" /\ lets' = lets /\ tail' = tail /\ status' # "body"
      BY <1>4, ParsedIsScalar DEF Arg
    <2> QED BY <2>1, <1>3
  <1>5. CASE \E t \in RetTypes : Signature(t)
    <2>1. status = "args" /\ lets' = lets /\ tail' = tail
      BY <1>5 DEF Signature
    <2> QED BY <2>1, <1>1, <1>2, <1>3, <1>5, SignatureKeepsPromise
  <1>6. CASE \E s \in LetStmts : Let(s)
    <2>1. ASSUME OnlyNames(lets') PROVE status' = "body" /\ EnvAgrees(ScopeTypes', ctx.env')
      BY <1>1, <1>2, <1>6, <2>1, LetKeepsPromise
    <2>2. status' = "body" => OnlyNames(lets')
      BY <1>1 DEF SourceInOrder
    <2> QED BY <2>1, <2>2
  <1>7. CASE \E s \in TailStmts : TailExpr(s)
    <2>1. status' = "expanded"
      BY <1>1, <1>2, <1>7, TailKeepsPromise
    <2> QED BY <2>1
  <1>8. CASE EmptyBody
    <2>1. status' = "CompileError" /\ lets' = <<>> /\ tail' = <<>>
      BY <1>1, <1>8 DEF EmptyBody, SourceInOrder
    <2> QED BY <2>1 DEF Promised
  <1>9. CASE UNCHANGED vars
    <2>1. (RustAccepts' <=> RustAccepts) /\ (InSubset' <=> InSubset)
          /\ ScopeTypes' = ScopeTypes /\ ctx' = ctx /\ status' = status
          /\ lets' = lets /\ tail' = tail
      BY <1>9 DEF vars, RustAccepts, InSubset, ScopeTypes, ParamTypes
    <2> QED BY <2>1, <1>1, <1>2 DEF ScopeInStep, OnlyPatternsRefused, Promised
  <1> QED BY <1>4, <1>5, <1>6, <1>7, <1>8, <1>9 DEF Next

\* What the documentation promises to lift is refused for the pattern of a let
\* and for nothing else (OnlyPatternsRefused): whatever else Rust accepts, of the
\* operators listed, finds its names in the macro's scope and compiles.
THEOREM OnlyPatternsAreRefused == Spec => []OnlyPatternsRefused
  <1>1. PromiseKept => OnlyPatternsRefused
    BY DEF PromiseKept
  <1> QED BY <1>1, InitPromise, NextPromise, PTL DEF Spec

LEMMA EndsStep ==
  ASSUME PromiseKept, EndsMatchSignature, [Next]_vars
  PROVE  EndsMatchSignature'
  <1>1. SUFFICES ASSUME status' = "expanded", Promised' PROVE EndsMatch(args', ret', arrow')
    BY DEF EndsMatchSignature, EndsMatch
  <1>2. SourceInOrder /\ SourceInOrder' /\ ScopeInStep /\ RustAccepts' /\ InSubset'
    BY <1>1, NextSource DEF PromiseKept, Promised
  <1>3. CASE \E s \in TailStmts : TailExpr(s)
    BY <1>2, <1>3, TailKeepsPromise
  <1>4. CASE UNCHANGED vars
    <2>1. (RustAccepts' <=> RustAccepts) /\ (InSubset' <=> InSubset)
          /\ lets' = lets /\ tail' = tail /\ status' = status
          /\ args' = args /\ ret' = ret /\ arrow' = arrow
      BY <1>4 DEF vars, RustAccepts, InSubset, ScopeTypes, ParamTypes
    <2>2. status = "expanded" /\ Promised
      BY <2>1, <1>1 DEF Promised
    <2>3. EndsMatch(args, ret, arrow)
      BY <2>2 DEF EndsMatchSignature, EndsMatch
    <2> QED BY <2>1, <2>3
  <1> QED BY <1>1, <1>2, <1>3, <1>4, ExpandedBy

\* The arrow of a promised kernel has the wires its signature names
\* (EndsMatchSignature), on which from_raw_parts relies.
THEOREM EndsAlwaysMatch == Spec => []EndsMatchSignature
  <1>1. Init => PromiseKept /\ EndsMatchSignature
    BY InitPromise DEF Init, EndsMatchSignature
  <1>2. PromiseKept /\ EndsMatchSignature /\ [Next]_vars => (PromiseKept /\ EndsMatchSignature)'
    BY NextPromise, EndsStep
  <1> QED BY <1>1, <1>2, PTL DEF Spec
=============================================================================
