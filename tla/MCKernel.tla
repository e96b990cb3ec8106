------------------------------ MODULE MCKernel ------------------------------
(***************************************************************************)
(* Instances of KernelChecked: functions of at most two parameters, one    *)
(* let and two operators, over a bool, a number narrower than the machine  *)
(* word and a signed one as wide as the word.                              *)
(***************************************************************************)
EXTENDS KernelChecked

SomeTypes == {TypeSyntax("bool", <<>>), TypeSyntax("Bits", <<2>>), TypeSyntax("SignedBits", <<3>>)}

BadTypes == {TypeSyntax("u8", <<>>), TypeSyntax("Bits", <<>>)}

SomeArgs ==
  {[pat |-> Ident(n), ty |-> t] : n \in {"a", "b"}, t \in SomeTypes}
    \cup {[pat |-> Ident("c"), ty |-> t] : t \in BadTypes}
    \cup {[pat |-> OtherPat, ty |-> TypeSyntax("bool", <<>>)]}

Atoms == {Path("a"), Path("b"), Path("x")}

\* One operator; every operator the table knows, and one it does not.
Flat(ops) ==
  {Binary(op, l, r) : op \in ops, l \in Atoms, r \in Atoms} \cup {Unary("!", e) : e \in Atoms}

Nested ==
  {Binary("-", Paren(Binary("*", l, r)), l) : l \in Atoms, r \in Atoms}
    \cup {Binary("-", l, Paren(Binary("^", l, r))) : l \in Atoms, r \in Atoms}

Odd == {Unary("-", Path("a")), Binary("<<", Path("a"), Path("b")), OtherExpr, Path("z")}

SomeLets ==
  {LetStmt(Ident(n), <<e>>) : n \in {"a", "x"}, e \in Atoms \cup Flat({"+", "&"}) \cup Odd}
    \cup {LetStmt(Typed("x", t), <<e>>) : t \in SomeTypes \cup BadTypes, e \in {Path("a"), Path("z")}}
    \cup {LetStmt(p, <<Path("a")>>) : p \in {Wild, OtherPat}}
    \cup {LetStmt(Ident("x"), <<>>), ItemStmt, ExprStmt(Path("a"))}

SomeTails ==
  {ExprStmt(e) : e \in Atoms \cup Flat({"+", "-", "*", "&", "|", "^", "==", "<"}) \cup Nested \cup Odd}
    \cup {ItemStmt, LetStmt(Ident("x"), <<Path("a")>>), SemiStmt(Path("a"))}

---------------------------------------------------------------------------
(* The rest of hdl-cat-bits against plain arithmetic, for every width and  *)
(* every word                                                              *)

AllWidths == 0..WordBits

Words == 0..(WordSize - 1)

ASSUME BitsAreModular ==
  \A n \in AllWidths : \A a \in Words :
    /\ BitsNewWrapping(n, a) = a % 2^n
    /\ BitsFits(n, a) <=> a <= BitsMax(n)
    /\ a <= BitsMax(n) =>
         /\ FromBoolArray(AsBits(n, a)) = a
         /\ \A r \in 0..(WordBits + 1) :
              /\ BitsShl(n, a, r) = (a * 2^r) % 2^n
              /\ BitsShr(n, a, r) = a \div 2^r

ASSUME SignedAreModular ==
  \A n \in AllWidths : \A a \in {AsSigned(w) : w \in Words} :
    /\ SignedFits(n, SignedNewWrapping(n, a))
    /\ (SignedNewWrapping(n, a) - a) % 2^n = 0
    /\ SignedFits(n, a) => /\ FromBits(n, ToBits(n, a)) = a
                           /\ (SignedNeg(n, a) + a) % 2^n = 0
=============================================================================
