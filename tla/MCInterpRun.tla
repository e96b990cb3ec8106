---------------------------- MODULE MCInterpRun ----------------------------
(***************************************************************************)
(* Instances of InterpRun: graphs of at most MaxWires wires and MaxInstrs  *)
(* instructions over a pool of operations.                                 *)
(***************************************************************************)
EXTENDS InterpRun

\* Few enough for all graphs of two instructions: one operation of each
\* number of operands, and one that fails on the data.
FewOps == {NotOp, BinOp("Add"), ConstOp(<<1>>, BitTy), TailOp(1, 0)}

SomeCalls ==
  {[ws |-> <<>>,     vs |-> <<>>],
   [ws |-> <<1>>,    vs |-> <<<<0>>>>],
   [ws |-> <<1>>,    vs |-> <<<<1, 0>>>>],
   [ws |-> <<1>>,    vs |-> <<<<>>>>],
   [ws |-> <<1, 2>>, vs |-> <<<<1>>, <<0>>>>],
   [ws |-> <<1, 2>>, vs |-> <<<<0, 1>>, <<1>>>>],
   [ws |-> <<2, 2>>, vs |-> <<<<1>>, <<0>>>>],
   [ws |-> <<1, 2>>, vs |-> <<<<1>>>>]}
=============================================================================
