----------------------------- MODULE KernelTypes ----------------------------
(***************************************************************************)
(* The kernel macro against Rust, as far as types and names go: which      *)
(* source functions rustc would compile as they stand and the macro's      *)
(* documentation promises to lift, and the arrow they are owed.            *)
(***************************************************************************)
EXTENDS KernelMacro

---------------------------------------------------------------------------
(* Rust's reading of the source *)

IllTyped == [desc |-> "ill"]

\* The operators implemented for each type, and their results.
RustBinTy(op, l, r) ==
  IF l # r \/ l = IllTyped THEN IllTyped
  ELSE CASE op \in {"==", "<"}                                        -> BoolT
         [] op \in {"&", "|", "^"} /\ l.desc \in {"Bool", "Bits"}     -> l
         [] op \in {"+", "-", "*"} /\ l.desc \in {"Bits", "Signed"}   -> l
         [] OTHER                                                     -> IllTyped

RustUnTy(op, t) ==
  IF \/ op = "!" /\ t.desc \in {"Bool", "Bits"}
     \/ op = "-" /\ t.desc = "Signed"
  THEN t
  ELSE IllTyped

\* The types of the operands that wait for their operator, after one more
\* node.  What has the type IllTyped stays, or makes its result ill-typed.
RustTyNode(stack, node, scope) ==
  LET n == Len(stack)
  IN  CASE node.expr = "Path" ->
             Append(stack, IF node.name \in DOMAIN scope THEN scope[node.name] ELSE IllTyped)
        [] node.expr = "Binary" /\ n >= 2 ->
             Append(SubSeq(stack, 1, n - 2), RustBinTy(node.op, stack[n - 1], stack[n]))
        [] node.expr = "Unary" /\ n >= 1 ->
             Append(SubSeq(stack, 1, n - 1), RustUnTy(node.op, stack[n]))
        [] OTHER -> Append(stack, IllTyped)

\* The type of an expression; scope maps the visible names to their types.
RustTy(e, scope) ==
  LET types[k \in 0..Len(e)] ==
        IF k = 0 THEN <<>> ELSE LET before == types[k - 1] IN RustTyNode(before, e[k], scope)
      end == types[Len(e)]
  IN  IF Len(end) = 1 THEN end[1] ELSE IllTyped

\* A let that binds a scalar; a declaration without a value is none.
IsLet(s) == s.stmt = "Local" /\ s.pat.kind \in {"Ident", "Type", "Wild"} /\ Len(s.init) = 1

\* A type that is written out has to be the initialiser's.
RustLetTy(s, scope) ==
  LET t == RustTy(s.init[1], scope)
  IN  IF s.pat.kind = "Type" /\ ParseScalarTy(s.pat.ty) # Ok(t) THEN IllTyped ELSE t

ParamTypes ==
  [n \in {args[k].name : k \in DOMAIN args} |->
     args[CHOOSE k \in DOMAIN args : args[k].name = n].ty]

\* What the visible names are bound to after one more let: a wildcard binds none.
AfterLet(scope, s, v) ==
  IF s.pat.kind = "Wild" THEN scope ELSE Shadowing(scope, s.pat.name, v)

\* The scope after each of the lets ls, before which it is types.
Scopes(types, ls) ==
  LET scope[k \in 0..Len(ls)] ==
        IF k = 0 THEN types
        ELSE LET before == scope[k - 1]
             IN  AfterLet(before, ls[k], RustLetTy(ls[k], before))
  IN  scope

ScopeTypes == Scopes(ParamTypes, lets)[Len(lets)]

\* rustc would compile the source, as far as it is read, as it stands.  No name
\* but its own is in scope: constants of the module around it are not modelled.
RustAccepts ==
  /\ args # <<>>
  /\ \A j, k \in DOMAIN args : args[j].name = args[k].name => j = k
  /\ \A k \in DOMAIN lets : IsLet(lets[k])
  /\ \A k \in DOMAIN lets :
       RustLetTy(lets[k], Scopes(ParamTypes, lets)[k - 1]) # IllTyped
  /\ \A k \in DOMAIN tail :
       /\ tail[k].stmt = "Expr" /\ ~tail[k].semi
       /\ RustTy(tail[k].expr, ScopeTypes) = ret

\* The supported subset (lib.rs:9-15): every operator of e is one of those
\* listed there.
Supported(e) ==
  \A k \in DOMAIN e :
    \/ e[k].expr = "Path"
    \/ e[k].expr = "Binary" /\ e[k].op \in {"+", "-", "*", "&", "|", "^"}
    \/ e[k].expr = "Unary" /\ e[k].op = "!"

InSubset ==
  /\ \A k \in DOMAIN lets : IsLet(lets[k]) => Supported(lets[k].init[1])
  /\ \A k \in DOMAIN tail : tail[k].stmt = "Expr" => Supported(tail[k].expr)

\* Every let binds a bare name.
OnlyNames(ls) == \A k \in DOMAIN ls : ls[k].pat.kind = "Ident"

\* A kernel, as far as it is read, that the documentation promises to lift.
Promised == lets \o tail # <<>> /\ RustAccepts /\ InSubset

---------------------------------------------------------------------------
(* Properties *)

\* The arrow of a promised kernel fits the signature the macro gives it, which
\* from_raw_parts leaves to its caller: composing it is sound (arrow.rs:72-75).
EndsMatchSignature ==
  (status = "expanded" /\ Promised) =>
    LET ty(w) == arrow.graph.wires[w]
    IN  /\ [k \in DOMAIN arrow.inputs |-> ty(arrow.inputs[k])] = InputLayout(args)
        /\ [k \in DOMAIN arrow.outputs |-> ty(arrow.outputs[k])] = OutputLayout(ret)

\* Of any function the macro accepts, well typed or not, the arrow is a
\* netlist in order: each instruction reads parameters and earlier results
\* and drives a wire of its own.
NetlistInOrder ==
  status = "expanded" =>
    LET instrs == arrow.graph.instrs
        known(i) == Range(arrow.inputs) \cup {instrs[j].out : j \in 1..(i - 1)}
    IN  /\ \A i \in DOMAIN instrs : Range(instrs[i].ins) \subseteq known(i)
        /\ \A i \in DOMAIN instrs : instrs[i].out \notin known(i)
        /\ arrow.outputs[1] \in known(Len(instrs) + 1)

\* Of what the documentation promises to lift, exactly the functions with a let
\* of more than a name are refused: let x: Bits<8> = a, which it does not exclude
\* (lib.rs:12-13), ends in "expected a simple identifier" (lib.rs:385-390), and
\* nothing else does: names, operators and nesting are lifted as promised.
OnlyPatternsRefused ==
  Promised => (status = "CompileError" <=> ~OnlyNames(lets))
=============================================================================
