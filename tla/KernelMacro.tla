----------------------------- MODULE KernelMacro ----------------------------
(***************************************************************************)
(* hdl-cat-macros: the #[kernel] attribute.  It reads the syntax of a Rust *)
(* function and replaces the function by one that builds a circuit arrow;  *)
(* rustc never looks at the original.  The source is given item by item,   *)
(* in the order the macro folds over it.  The generated function is the    *)
(* list of its statements; Kernel runs it.                                 *)
(***************************************************************************)
EXTENDS Circuits

CONSTANTS
  ArgDecls,    \* parameters a function may declare: pattern and type syntax
  RetTypes,    \* type syntax after the arrow
  LetStmts,    \* statements before the last one
  TailStmts,   \* last statements
  MaxArgs, MaxLets, MaxOps   \* bounds: size of the function

ASSUME BoundsAssumption == {MaxArgs, MaxLets, MaxOps} \subseteq Nat

---------------------------------------------------------------------------
(* The syntax, as far as the macro distinguishes it.  An expression is the *)
(* sequence of its nodes, each after its operands: the order in which the  *)
(* recursion of compile_expr returns from them.  A parenthesis is compiled *)
(* as what it encloses, and adds no node.                                  *)

Path(name) == <<[expr |-> "Path", name |-> name]>>
Binary(op, l, r) == l \o r \o <<[expr |-> "Binary", op |-> op]>>
Unary(op, e) == e \o <<[expr |-> "Unary", op |-> op]>>
Paren(e) == e
OtherExpr == <<[expr |-> "Other"]>>   \* a literal, a call, a block, ...

Node ==
  [expr : {"Path"}, name : STRING] \cup [expr : {"Binary", "Unary"}, op : STRING]
    \cup [expr : {"Other"}]

\* A type: its last path segment and its literal width argument, if any.
TypeSyntax(path, width) == [path |-> path, width |-> width]

\* A pattern: a name, a name with its type written out, the wildcard, or
\* anything else (a tuple, a reference, a literal, ...).
Ident(name) == [kind |-> "Ident", name |-> name]
Typed(name, t) == [kind |-> "Type", name |-> name, ty |-> t]
Wild == [kind |-> "Wild"]
OtherPat == [kind |-> "Other"]

\* init is a sequence of at most one expression.
LetStmt(pat, init) == [stmt |-> "Local", pat |-> pat, init |-> init]
ExprStmt(e) == [stmt |-> "Expr", expr |-> e, semi |-> FALSE]
SemiStmt(e) == [stmt |-> "Expr", expr |-> e, semi |-> TRUE]
ItemStmt == [stmt |-> "Item"]

ASSUME SyntaxAssumption ==
  \A s \in LetStmts \cup TailStmts :
    /\ s.stmt = "Local" => s.init \in Seq(Seq(Node))
    /\ s.stmt = "Expr" => s.expr \in Seq(Node)

---------------------------------------------------------------------------
(* Types *)

CompileError == Fail("CompileError")

\* parse_scalar_ty
ParseScalarTy(t) ==
  CASE t.path = "bool"                            -> Ok(BoolT)
    [] t.path = "Bits" /\ Len(t.width) = 1        -> Ok(BitsT(t.width[1]))
    [] t.path = "SignedBits" /\ Len(t.width) = 1  -> Ok(SignedT(t.width[1]))
    [] OTHER                                      -> CompileError

\* Tokens that forget the sign.
WireTyTokensUnsigned(ty) ==
  CASE ty.desc = "Bool" -> BitTy
    [] OTHER            -> BitsTy(ty.n)

\* ScalarTy::wire_ty_tokens
WireTyTokens(ty) ==
  CASE ty.desc = "Bool"   -> BitTy
    [] ty.desc = "Bits"   -> BitsTy(ty.n)
    [] ty.desc = "Signed" -> SignedTy(ty.n)

\* The wire layout of the object the generated signature names: Obj of each
\* parameter, tensored from the left.
InputLayout(args) == [k \in DOMAIN args |-> WireTyOf(args[k].ty)]

OutputLayout(ty) == <<WireTyOf(ty)>>

---------------------------------------------------------------------------
(* BodyCtx: the statements generated so far, the scope, a counter.  An     *)
(* identifier of the generated function is a prefix and what follows it.   *)

ArgIdent(name) == <<"__k_arg_", name>>

TmpIdent(k) == <<"__k_tmp_", k>>

NewCtx == [stmts |-> <<>>, env |-> <<>>, fresh |-> 0]

Bind(ctx, name, id, ty) ==
  [ctx EXCEPT !.env = Append(@, [name |-> name, id |-> id, ty |-> ty])]

\* A lookup that finds the oldest binding.
LookupOldest(ctx, name) ==
  LET at == {k \in DOMAIN ctx.env : ctx.env[k].name = name}
  IN  IF at = {} THEN CompileError ELSE Ok(ctx.env[Min(at)])

\* The youngest binding of a name shadows the others.
Lookup(ctx, name) ==
  LET at == {k \in DOMAIN ctx.env : ctx.env[k].name = name}
  IN  IF at = {} THEN CompileError ELSE Ok(ctx.env[Max(at)])

---------------------------------------------------------------------------
(* Expressions.  Half way through one, stack holds the results of the      *)
(* operands whose operator is still to come, the youngest last.            *)

Operand(id, ty) == [id |-> id, ty |-> ty]

Compiling(ctx, stack) == [ctx |-> ctx, stack |-> stack]

\* An emission that forgets to count the identifier it used.
EmitUncounted(c, op, n) ==
  LET rest == Len(c.stack) - n
      ty   == c.stack[rest + 1].ty
      out  == TmpIdent(c.ctx.fresh)
      stmt == [op |-> op, ins |-> [k \in 1..n |-> c.stack[rest + k].id], out |-> out,
               ty |-> WireTyTokens(ty)]
  IN  Compiling([c.ctx EXCEPT !.stmts = Append(@, stmt)],
                Append(SubSeq(c.stack, 1, rest), Operand(out, ty)))

\* fresh_wire_ident and push_stmt: one more wire, driven by one more
\* instruction on the last n operands.  The result has the type of the first.
Emit(c, op, n) ==
  LET rest == Len(c.stack) - n
      ty   == c.stack[rest + 1].ty
      out  == TmpIdent(c.ctx.fresh)
      stmt == [op |-> op, ins |-> [k \in 1..n |-> c.stack[rest + k].id], out |-> out,
               ty |-> WireTyTokens(ty)]
  IN  Compiling([c.ctx EXCEPT !.stmts = Append(@, stmt), !.fresh = @ + 1],
                Append(SubSeq(c.stack, 1, rest), Operand(out, ty)))

\* A table without exclusive or.
BinOpTokensFewer ==
  [op \in {"+", "-", "*", "&", "|", "==", "<"} |->
     CASE op = "+" -> "Add" [] op = "-" -> "Sub" [] op = "*" -> "Mul" [] op = "&" -> "And"
       [] op = "|" -> "Or" [] op = "==" -> "Eq" [] op = "<" -> "Lt"]

BinOpTokens ==
  [op \in {"+", "-", "*", "&", "|", "^", "==", "<"} |->
     CASE op = "+" -> "Add" [] op = "-" -> "Sub" [] op = "*" -> "Mul" [] op = "&" -> "And"
       [] op = "|" -> "Or" [] op = "^" -> "Xor" [] op = "==" -> "Eq" [] op = "<" -> "Lt"]

CompilePath(c, node) ==
  LET found == Lookup(c.ctx, node.name)
  IN  IF found.err # "none" THEN found
      ELSE Ok(Compiling(c.ctx, Append(c.stack, Operand(found.val.id, found.val.ty))))

CompileBinary(c, node) ==
  IF Len(c.stack) >= 2 /\ node.op \in DOMAIN BinOpTokens
  THEN Ok(Emit(c, BinOp(BinOpTokens[node.op]), 2))
  ELSE CompileError

CompileUnary(c, node) ==
  IF Len(c.stack) >= 1 /\ node.op = "!" THEN Ok(Emit(c, NotOp, 1)) ELSE CompileError

CompileNode(c, node) ==
  CASE node.expr = "Path"   -> CompilePath(c, node)
    [] node.expr = "Binary" -> CompileBinary(c, node)
    [] node.expr = "Unary"  -> CompileUnary(c, node)
    [] node.expr = "Other"  -> CompileError

\* The first error is the outcome.  Of an expression nothing but its result is
\* left on the stack.
CompileExpr(ctx, e) ==
  LET run[k \in 0..Len(e)] ==
        IF k = 0 THEN Ok(Compiling(ctx, <<>>))
        ELSE LET before == run[k - 1]
             IN  IF before.err # "none" THEN before ELSE CompileNode(before.val, e[k])
      end == run[Len(e)]
  IN  IF end.err # "none" \/ Len(end.val.stack) # 1 THEN CompileError
      ELSE Ok([ctx |-> end.val.ctx, id |-> end.val.stack[1].id, ty |-> end.val.stack[1].ty])

---------------------------------------------------------------------------
(* Statements *)

\* The name is bound after its initialiser is compiled.  Any other pattern is
\* refused, a name with a type as well.
CompileLetStmt(ctx, s) ==
  LET rhs == CompileExpr(ctx, s.init[1])
  IN  IF s.stmt # "Local" \/ s.pat.kind # "Ident" \/ s.init = <<>> THEN CompileError
      ELSE IF rhs.err # "none" THEN rhs
      ELSE Ok(Bind(rhs.val.ctx, s.pat.name, rhs.val.id, rhs.val.ty))

\* A semicolon after the last expression is not looked at.
CompileTail(ctx, s) ==
  IF s.stmt = "Expr" THEN CompileExpr(ctx, s.expr) ELSE CompileError

---------------------------------------------------------------------------
(* The generated function.  local is what its identifiers are bound to;    *)
(* a second let of an identifier shadows the first.                        *)

\* x is bound to v, whatever it was bound to before.
Shadowing(f, x, v) == [y \in DOMAIN f \cup {x} |-> IF y = x THEN v ELSE f[y]]

WithNamedWire(b, id, ty) ==
  [graph |-> WithWire(b.graph, ty), local |-> Shadowing(b.local, id, WireCount(b.graph) + 1)]

\* The generated instructions have as many operands as with_instruction asks.
RunStmt(b, s) ==
  LET w == WithNamedWire(b, s.out, s.ty)
  IN  [w EXCEPT !.graph = WithInstruction(@, s.op, [k \in DOMAIN s.ins |-> w.local[s.ins[k]]],
                                          w.local[s.out])]

Kernel(params, stmts, final) ==
  LET declared[k \in 0..Len(params)] ==
        IF k = 0 THEN [graph |-> EmptyGraph, local |-> <<>>]
        ELSE WithNamedWire(declared[k - 1], params[k].id, WireTyTokens(params[k].ty))
      run[k \in 0..Len(stmts)] ==
        IF k = 0 THEN declared[Len(params)] ELSE RunStmt(run[k - 1], stmts[k])
      b == run[Len(stmts)]
  IN  Arrow(b.graph, [k \in DOMAIN params |-> b.local[params[k].id]], <<b.local[final]>>)

---------------------------------------------------------------------------
(* One expansion *)

VARIABLES
  args,     \* the parameters parsed so far
  ret,      \* the return type, once it is parsed
  lets,     \* the statements before the last, as far as they are read
  tail,     \* the last statement, once it is read: at most one
  ctx,      \* the context they were compiled to
  status,   \* "args", "body", "expanded" or the error
  arrow     \* what the generated function returns, once expanded

vars == <<args, ret, lets, tail, ctx, status, arrow>>

Init ==
  /\ args = <<>>
  /\ ret = BoolT
  /\ lets = <<>>
  /\ tail = <<>>
  /\ ctx = NewCtx
  /\ status = "args"
  /\ arrow = Arrow(EmptyGraph, <<>>, <<>>)

\* parse_kernel_arg
Arg(decl) ==
  LET ty == ParseScalarTy(decl.ty)
  IN  /\ status = "args"
      /\ Len(args) < MaxArgs
      /\ IF decl.pat.kind = "Ident" /\ ty.err = "none"
         THEN /\ args' = Append(args, [name |-> decl.pat.name, ty |-> ty.val,
                                       id   |-> ArgIdent(decl.pat.name)])
              /\ UNCHANGED status
         ELSE /\ status' = "CompileError"
              /\ UNCHANGED args
      /\ UNCHANGED <<ret, lets, tail, ctx, arrow>>

\* The end of the signature: at least one parameter, a scalar result, and a
\* scope in which the parameters, bound in order, are all there is.
Signature(t) ==
  LET ty == ParseScalarTy(t)
  IN  /\ status = "args"
      /\ IF args # <<>> /\ ty.err = "none"
         THEN /\ ret' = ty.val
              /\ ctx' = [NewCtx EXCEPT !.env = args]
              /\ status' = "body"
         ELSE /\ status' = "CompileError"
              /\ UNCHANGED <<ret, ctx>>
      /\ UNCHANGED <<args, lets, tail, arrow>>

Let(s) ==
  LET r == CompileLetStmt(ctx, s)
  IN  /\ status = "body"
      /\ Len(lets) < MaxLets
      /\ lets' = Append(lets, s)
      /\ IF r.err = "none"
         THEN /\ r.val.fresh <= MaxOps
              /\ ctx' = r.val
              /\ UNCHANGED status
         ELSE /\ status' = r.err
              /\ UNCHANGED ctx
      /\ UNCHANGED <<args, ret, tail, arrow>>

TailExpr(s) ==
  LET r == CompileTail(ctx, s)
  IN  /\ status = "body"
      /\ tail' = <<s>>
      /\ IF r.err = "none"
         THEN /\ r.val.ctx.fresh <= MaxOps
              /\ ctx' = r.val.ctx
              /\ arrow' = Kernel(args, r.val.ctx.stmts, r.val.id)
              /\ status' = "expanded"
         ELSE /\ status' = r.err
              /\ UNCHANGED <<ctx, arrow>>
      /\ UNCHANGED <<args, ret, lets>>

\* A body without any statement is refused before anything is compiled.
EmptyBody ==
  /\ status = "body"
  /\ lets = <<>>
  /\ status' = "CompileError"
  /\ UNCHANGED <<args, ret, lets, tail, ctx, arrow>>

Next ==
  \/ \E decl \in ArgDecls : Arg(decl)
  \/ \E t \in RetTypes : Signature(t)
  \/ \E s \in LetStmts : Let(s)
  \/ \E s \in TailStmts : TailExpr(s)
  \/ EmptyBody

Spec == Init /\ [][Next]_vars
=============================================================================
