--------------------------- MODULE SampleMachines --------------------------
(***************************************************************************)
(* Terms the runs assemble: the library's machines at width 2 or 3, array  *)
(* delay lines of depth 2 and 3, and compositions up to three deep.        *)
(***************************************************************************)
EXTENDS SyncTerms

Leaves ==
  {Lib("counter", 2), Lib("down_counter", 2), Lib("accumulator", 2),
   Lib("shift_left", 3), Lib("toggle", 1), Register(2, <<0, 1>>), Delay(1, 3, <<0, 0>>), Delay(2, 2, <<1, 0, 0, 1>>),
   Lift("not", 2), Lift("half", 1), Lift("braid", 1)}

Pipelines ==
  {Seq2(Lib("counter", 2), Lib("accumulator", 2)),
   Seq2(Lib("accumulator", 2), Lib("accumulator", 2)),
   Seq2(Seq2(Lib("down_counter", 2), Lift("not", 2)), Lib("accumulator", 2)),
   Seq2(Lib("toggle", 1), Lib("shift_left", 2)),
   Seq2(Delay(1, 2, <<1, 0>>), Delay(1, 2, <<0, 1>>)),
   Seq2(Lift("wire", 1), Delay(1, 3, <<1, 1>>)),
   Seq2(Lift("Add", 2), Lib("accumulator", 2)),
   Seq2(Lift("braid", 2), Lift("Sub", 2)),
   Seq2(Register(2, <<1, 1>>), Lib("accumulator", 2))}

Parallels ==
  {Beside(Lib("accumulator", 2), Lib("toggle", 1)),
   Beside(Delay(1, 2, <<1, 0>>), Lib("counter", 2)),
   Seq2(Beside(Lib("counter", 2), Lib("down_counter", 2)), Lift("lt", 2)),
   Seq2(Beside(Lib("accumulator", 2), Lib("counter", 2)), Lift("Add", 2))}

Loops ==
  {Loop(Lift("Add", 2), <<0, 0>>),
   Loop(Lift("Sub", 2), <<1, 0>>),
   Loop(Seq2(Lift("Sub", 2), Lib("accumulator", 2)), <<0, 1>>)}

WellBuilt == Leaves \cup Pipelines \cup Parallels \cup Loops
=============================================================================
