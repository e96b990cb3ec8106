------------------------------ MODULE MCCircom ------------------------------
(***************************************************************************)
(* Instances of CircomProver: plain templates of one operation, and sample *)
(* machines unrolled over up to three or four cycles.  The scale is small: *)
(* literals of 4 bits stand for the 128 of the code, a field of 53         *)
(* elements and a budget of 5 bits for BN254 and its 252.                  *)
(***************************************************************************)
EXTENDS CircomProver, SampleMachines

Unrolled(term, n) == [emitter |-> "unrolled", term |-> term, cycles |-> n]

Plain(op, tys, ty, publics) ==
  [emitter |-> "plain", op |-> op, tys |-> tys, ty |-> ty, publics |-> publics]

Operation(c) ==
  LET n == Len(c.tys)
      ins == [j \in 1..n |-> j]
  IN  FromRaw(WithInstruction(WithWires(EmptyGraph, Append(c.tys, c.ty)), c.op, ins, n + 1),
              ins, <<n + 1>>, <<>>, 0)

Built == [t \in WellBuilt |-> Build(t)]

CaseMachine(c) == IF c.emitter = "plain" THEN Operation(c) ELSE Built[c.term]

---------------------------------------------------------------------------

Twice(ty) == <<ty, ty>>

Operations ==
  {Plain(BinOp(b), Twice(BitsTy(n)), BitsTy(n), <<>>) : b \in {"Add", "Sub", "Xor", "Or"}, n \in 1..3}
    \cup {Plain(BinOp(b), Twice(BitsTy(n)), BitsTy(n), <<1>>) : b \in {"Mul", "And"}, n \in 1..2}
    \cup {Plain(BinOp(b), Twice(BitsTy(n)), BitTy, <<2, 1>>) : b \in {"Eq", "Lt"}, n \in 1..3}
    \cup {Plain(MuxOp, <<BitTy, SignedTy(2), SignedTy(2)>>, SignedTy(2), <<>>),
          Plain(ConcatOp(1, 2), <<BitTy, BitsTy(2)>>, BitsTy(3), <<>>),
          Plain(SliceOp(1, 3), <<BitsTy(3)>>, BitsTy(2), <<>>),
          Plain(ConstOp(<<1, 0, 1>>, BitsTy(3)), <<>>, BitsTy(3), <<>>)}

\* Refused: a register, and a public wire that is no input.
Refused ==
  {Plain(RegOp(<<0>>, BitTy), <<BitTy>>, BitTy, <<>>),
   Plain(NotOp, <<BitTy>>, BitTy, <<2>>),
   Unrolled(Lib("toggle", 1), 0)}

HandsInputThrough(t) == ToSet(DataIn(Built[t])) \cap ToSet(DataOut(Built[t])) # {}

\* Four cycles are what it takes to see an input leave an array of three.
Machines ==
  {Unrolled(t, n) : t \in {u \in WellBuilt : ~HandsInputThrough(u)}, n \in 1..3}
    \cup {Unrolled(t, 4) : t \in {u \in WellBuilt : u.t = "delay" /\ u.ew = 1}}

AllCases == Operations \cup Refused \cup Machines

\* A product of three bits by three needs six, one more than the budget.
WideCases == {Plain(BinOp("Mul"), Twice(BitsTy(3)), BitsTy(3), <<>>)}

SomeGuesses == 0..2
=============================================================================
