------------------------------ MODULE VcdTrace -----------------------------
(***************************************************************************)
(* hdl-cat-sim/src/vcd.rs, trace_to_string, next to the testbench: both    *)
(* are given the same machine and the same input vector.  The tracer has a *)
(* loop of its own that threads the compact state and keeps the whole      *)
(* environment of every cycle, to be dumped at the end.  The environments  *)
(* are output only, so no variable collects them: a frame is what one step *)
(* adds, per wire the digits, most significant first, or Unknown.          *)
(***************************************************************************)
EXTENDS Testbench

VARIABLES
  traceBits,    \* the state accumulator of the tracer's fold
  traceStatus   \* "new", "running" or the error returned

traceVars == <<traceBits, traceStatus>>

allVars == <<vars, traceVars>>

\* Leading zeros left out, as the format allows a writer to do.
RenderShort(bits) ==
  LET ones == {i \in DOMAIN bits : bits[i] = 1}
  IN  IF ones = {} THEN <<0>> ELSE Reverse(SubSeq(bits, 1, Max(ones)))

\* The digits in the order of the bit sequence, least significant first.
RenderUnreversed(bits) == IF Len(bits) = 0 THEN <<0>> ELSE bits

\* render_wire_value: a digit for at most one bit, else the bits reversed.
Render(bits) == IF Len(bits) = 0 THEN <<0>> ELSE Reverse(bits)

\* A wire without a value, dumped as a single x.
Unknown == <<>>

Frame(g, env) == [w \in Wires(g) |-> IF w \in DOMAIN env THEN Render(env[w]) ELSE Unknown]

\* $var declares each wire with the width of one element.
DeclaredWidth(g, w) == Width(g.wires[w])

TraceBegin ==
  /\ traceBits' = M.init
  /\ traceStatus' = IF Len(M.init) = Total(CompactWidths(M)) THEN "running" ELSE "WidthMismatch"

\* One iteration of the tracer's fold; only the next-state wires are read.
TraceStep(m, bits, input) ==
  LET state == SplitByWidths(bits, CompactWidths(m))
      data  == SplitByWidths(input, InputWidths(m))
      r     == Interpret(m.graph, m.inputs, state.val \o data.val)
      next  == ReadAll(r.val, NextState(m))
  IN  IF state.err # "none" THEN state
      ELSE IF data.err # "none" THEN data
      ELSE IF r.err # "none" THEN r
      ELSE IF next.err # "none" THEN next
      ELSE Ok([next |-> FlattenSeq(next.val), frame |-> Frame(m.graph, r.val)])

TraceCycle(input) ==
  LET r == TraceStep(M, traceBits, input)
  IN  IF traceStatus = "running" /\ r.err = "none"
      THEN /\ traceBits' = r.val.next
           /\ UNCHANGED traceStatus
      ELSE /\ traceStatus' = IF traceStatus = "running" THEN r.err ELSE traceStatus
           /\ UNCHANGED traceBits

TraceInit ==
  /\ Init
  /\ traceBits = <<>>
  /\ traceStatus = "new"

TraceNext ==
  \/ Begin /\ TraceBegin
  \/ \E input \in Elements : Cycle(input) /\ TraceCycle(input)
  \/ End /\ UNCHANGED traceVars

TraceSpec == TraceInit /\ [][TraceNext]_allVars

---------------------------------------------------------------------------
(* Properties *)

\* What the testbench can run, the tracer can: trace_to_string runs the same
\* simulation.
TraceRunsToo == status \in {"running", "done"} => traceStatus = "running"

ScalarState == \A k \in 1..Len(StateIn(M)) : ~IsArray(M.graph.wires[StateIn(M)[k]])

\* So it is for machines without an array among their state (for the others
\* it is not), and the tracer threads the same state: a value it rounds off
\* or drops would show cycles later.
ScalarTraceRuns ==
  ScalarState =>
    /\ TraceRunsToo
    /\ status = "running" => traceBits = stateBits

\* In every state the tracer can reach, on every input, the frame of the next
\* cycle shows on the machine's output wires the bits of the testbench's next
\* sample.
FramesShowSamples ==
  (status = "running" /\ traceStatus = "running") =>
    \A input \in BitSeq(Total(InputWidths(M))) :
      LET t == TraceStep(M, traceBits, input)
          r == RunCycle(M, stateBits, input)
      IN  (t.err = "none" /\ r.err = "none") =>
            FlattenSeq([j \in DOMAIN DataOut(M) |-> Reverse(t.val.frame[DataOut(M)[j]])])
              = r.val.sample

\* Every dumped value has as many digits as the header declares for the wire.
FramesFitHeader ==
  traceStatus = "running" =>
    \A input \in BitSeq(Total(InputWidths(M))) :
      LET t == TraceStep(M, traceBits, input)
      IN  t.err = "none" =>
            \A w \in Wires(M.graph) :
              t.val.frame[w] # Unknown => Len(t.val.frame[w]) = DeclaredWidth(M.graph, w)
=============================================================================
