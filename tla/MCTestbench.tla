---------------------------- MODULE MCTestbench ----------------------------
(***************************************************************************)
(* Instances of TestbenchChecked, with the tracer beside the testbench: the *)
(* sample machines, an input that fits none of them, and two compositions   *)
(* the code gets wrong.                                                     *)
(***************************************************************************)
EXTENDS TestbenchChecked, VcdTrace, SampleMachines

\* Sequential compositions whose second machine hands its input through, to
\* its output or to its next state: a chain of two registers.
PassThroughs ==
  {Seq2(Lib("accumulator", 2), Lift("wire", 2)),
   Seq2(Register(2, <<0, 0>>), Register(2, <<0, 0>>))}

\* Array state, which the tracer cannot thread.
ArrayMachines == {Delay(1, 2, <<0, 0>>)}

SomeMisfits == {<<1, 0, 1, 1, 0, 1, 1>>}
=============================================================================
