---------------------------- MODULE SyncMachine ----------------------------
(***************************************************************************)
(* hdl-cat-sync: synchronous machines and their composition, and the       *)
(* machines of hdl-cat-std.  A machine is an arrow whose first sc inputs   *)
(* carry the state and whose first sc outputs carry the next state, with   *)
(* the initial state as one flat bit sequence.                             *)
(***************************************************************************)
EXTENDS Circuits

\* from_raw checks nothing.
FromRaw(g, ins, outs, init, sc) ==
  [graph |-> g, inputs |-> ins, outputs |-> outs, init |-> init, sc |-> sc]

LiftComb(arrow) == FromRaw(arrow.graph, arrow.inputs, arrow.outputs, <<>>, 0)

\* from_arrow: an arrow of type state (x) input -> state (x) output, each a
\* layout; the wires are counted, and the initial state's bits.
FromArrow(arrow, state, ins, outs, init) ==
  When(/\ Len(arrow.inputs) = Len(state) + Len(ins)
       /\ Len(arrow.outputs) = Len(state) + Len(outs)
       /\ Len(init) = Total([k \in DOMAIN state |-> Width(state[k])]),
       FromRaw(arrow.graph, arrow.inputs, arrow.outputs, init, Len(state)))

StateIn(m)   == SubSeq(m.inputs, 1, m.sc)
DataIn(m)    == SubSeq(m.inputs, m.sc + 1, Len(m.inputs))
\* The next state taken from the end of the outputs.
NextStateLast(m) == SubSeq(m.outputs, Len(m.outputs) - m.sc + 1, Len(m.outputs))

NextState(m) == SubSeq(m.outputs, 1, m.sc)
DataOut(m)   == SubSeq(m.outputs, m.sc + 1, Len(m.outputs))

\* wire_ty(..).map_or(0, ..): a wire outside the graph has width 0.
WireWidth(g, w) == IF w \in Wires(g) THEN Width(g.wires[w]) ELSE 0

WireStorage(g, w) == IF w \in Wires(g) THEN StorageBits(g.wires[w]) ELSE 0

Widths(g, ws) == [k \in DOMAIN ws |-> WireWidth(g, ws[k])]

StorageWidths(g, ws) == [k \in DOMAIN ws |-> WireStorage(g, ws[k])]

\* compose_sync with the two initial states in the wrong order.
ComposeSyncSwappedInit(f, g) ==
  LET offset == WireCount(f.graph)
  IN  FromRaw(MergeGraphs(f.graph, g.graph, DataIn(g), DataOut(f)),
              StateIn(f) \o ShiftWires(StateIn(g), offset) \o DataIn(f),
              NextState(f) \o ShiftWires(NextState(g), offset)
                \o ShiftWires(DataOut(g), offset),
              g.init \o f.init, f.sc + g.sc)

\* compose_sync: f, then g on f's data output.  The instructions of g are
\* renamed by the substitution, the lists of its outputs only shifted.
ComposeSync(f, g) ==
  LET offset == WireCount(f.graph)
  IN  FromRaw(MergeGraphs(f.graph, g.graph, DataIn(g), DataOut(f)),
              StateIn(f) \o ShiftWires(StateIn(g), offset) \o DataIn(f),
              NextState(f) \o ShiftWires(NextState(g), offset)
                \o ShiftWires(DataOut(g), offset),
              f.init \o g.init, f.sc + g.sc)

\* par_sync: f beside g, states first.
ParSync(f, g) ==
  LET offset == WireCount(f.graph)
  IN  FromRaw(MergeGraphs(f.graph, g.graph, <<>>, <<>>),
              StateIn(f) \o ShiftWires(StateIn(g), offset)
                \o DataIn(f) \o ShiftWires(DataIn(g), offset),
              NextState(f) \o ShiftWires(NextState(g), offset)
                \o DataOut(f) \o ShiftWires(DataOut(g), offset),
              f.init \o g.init, f.sc + g.sc)

\* The last inputs of f, as many as f has data outputs, are fed back.
FeedbackWires(f) ==
  LET o == Len(DataOut(f))
      d == Len(DataIn(f))
  IN  IF d < o THEN DataIn(f) ELSE SubSeq(DataIn(f), d - o + 1, d)

\* feedback_sync: the fed-back inputs become state wires after f's own.
FeedbackSync(f, initial) ==
  LET back == FeedbackWires(f)
      external == SubSeq(DataIn(f), 1, Len(DataIn(f)) - Len(back))
  IN  When(Len(initial) = Total(Widths(f.graph, back)),
           FromRaw(f.graph,
                   StateIn(f) \o back \o external,
                   NextState(f) \o DataOut(f) \o DataOut(f),
                   f.init \o initial, f.sc + Len(DataOut(f))))

---------------------------------------------------------------------------
(* hdl-cat-std *)

\* counter and down_counter: wires 1 state, 2 one, 3 next_state.
Stepper(bin, n, init) ==
  FromRaw(WithInstructions(WithWires(EmptyGraph, <<BitsTy(n), BitsTy(n), BitsTy(n)>>),
            <<Instr(ConstOp(One(n), BitsTy(n)), <<>>, 2), Instr(BinOp(bin), <<1, 2>>, 3)>>),
          <<1>>, <<3, 1>>, init, 1)

Counter(n) == Stepper("Add", n, Zeros(n))

DownCounter(n) == Stepper("Sub", n, Ones(n))

\* Wires: 1 state, 2 input, 3 next_state.
Accumulator(n) ==
  FromRaw(WithInstruction(WithWires(EmptyGraph, <<BitsTy(n), BitsTy(n), BitsTy(n)>>),
            BinOp("Add"), <<1, 2>>, 3),
          <<1, 2>>, <<3, 3>>, Zeros(n), 1)

\* Wires: 1 state, 2 new_bit, 3 low_part, 4 next_state; n >= 2.
ShiftRegisterLeft(n) ==
  FromRaw(WithInstructions(WithWires(EmptyGraph, <<BitsTy(n), BitTy, BitsTy(n - 1), BitsTy(n)>>),
            <<Instr(SliceOp(0, n - 1), <<1>>, 3), Instr(ConcatOp(1, n - 1), <<2, 3>>, 4)>>),
          <<1, 2>>, <<4, 1>>, Zeros(n), 1)

Toggle ==
  FromRaw(WithInstruction(WithWires(EmptyGraph, <<BitTy, BitTy>>), NotOp, <<1>>, 2),
          <<1>>, <<2, 1>>, <<0>>, 1)

\* The machine with an array state that the emitter's tests build: a delay
\* line of d elements beside an inverting register.  Wires: 1 arr_state,
\* 2 ctr, 3 data_in, 4 next_arr, 5 next_ctr, 6 tail_out.
DelayAndFlip(ew, d, init) ==
  FromRaw(WithInstructions(WithWires(EmptyGraph,
              <<ArrayTy(ew, d), BitsTy(ew), BitsTy(ew), ArrayTy(ew, d), BitsTy(ew), BitsTy(ew)>>),
            <<Instr(ShiftInOp(ew, d), <<1, 3>>, 4), Instr(TailOp(ew, d), <<1>>, 6),
              Instr(NotOp, <<2>>, 5)>>),
          <<1, 2, 3>>, <<4, 5, 6>>, init, 2)
=============================================================================
