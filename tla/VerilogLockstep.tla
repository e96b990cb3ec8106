-------------------------- MODULE VerilogLockstep --------------------------
(***************************************************************************)
(* A machine in the simulator of hdl-cat-sim beside the Verilog            *)
(* hdl-cat-verilog emits for it, on the same inputs, edge by edge.  The    *)
(* behaviour starts with the first edge that has rst high: that edge       *)
(* assigns every register, so what they held at power-on does not matter.  *)
(* Later resets restart the simulation.  Nothing bounds the length of a    *)
(* behaviour: the states are finitely many.                                *)
(***************************************************************************)
EXTENDS RunCycles, VerilogRtl

\* The machines that are emitted, each with the arrays its caller groups the
\* state into; without any, the emitter looks for arrays itself.
CONSTANT Emissions

---------------------------------------------------------------------------
(* What a machine, and the caller's arrays, have to be for the module to   *)
(* declare and drive its nets properly.  The emitters check the length of  *)
(* the initial state; with the rest they take what they get.               *)

OpNames ==
  {"Not", "Bin", "Mux", "Const", "Reg", "Concat", "Slice", "ArrayShiftIn", "ArrayTail"}

\* A netlist in order, of the operations there are, whose ports have names of
\* their own.
EmittableGraph(m) ==
  /\ Shaped(m) /\ SingleDriver(m) /\ ReadsInOrder(m)
  /\ \A e \in DOMAIN m.graph.instrs :
       LET instr == m.graph.instrs[e]
       IN  instr.op.op \in OpNames /\ Accepts(instr.op, instr.ins)
  /\ m.sc \in 0..Len(m.inputs) /\ m.sc <= Len(m.outputs)
  /\ Len(m.init) = Total(CompactWidths(m))
  /\ IsInjective(m.inputs) /\ IsInjective(DataOut(m))
  /\ ToSet(DataIn(m)) \cap ToSet(DataOut(m)) = {}

\* The wires read by the given instructions, by the registers outside the
\* arrays, by the arrays and by the output ports.
StillRead(m, es, grouped, fed) ==
  (UNION {ToSet(m.graph.instrs[e].ins) : e \in es})
    \cup {NextState(m)[i] : i \in (1..m.sc) \ grouped} \cup fed \cup ToSet(DataOut(m))

\* A detected array and its next state are read by nobody but the array's own
\* shift and tails.
DetectedApart(m) ==
  LET instrs  == m.graph.instrs
      arrays  == {StateIn(m)[i] : i \in Detected(m)}
      nexts   == {NextState(m)[i] : i \in Detected(m)}
      tails   == {e \in DOMAIN instrs : instrs[e].op.op = "ArrayTail" /\ instrs[e].ins[1] \in arrays}
      shifts  == {e \in DOMAIN instrs : instrs[e].out \in nexts}
      fed     == {instrs[Min(ShiftsInto(m, i))].ins[2] : i \in Detected(m)}
  IN  StillRead(m, DOMAIN instrs \ (tails \cup shifts), Detected(m), fed)
        \cap (arrays \cup nexts) = {}

\* The caller's arrays are apart, of state wires, and fed with a wire of the
\* graph that has a value.
SpecsFit(m, specs) ==
  \A k \in DOMAIN specs :
    /\ specs[k].start \in Nat /\ specs[k].depth \in Nat \ {0}
    /\ Members(specs[k]) \subseteq 1..m.sc
    /\ specs[k].name \notin Wires(m.graph)
    /\ specs[k].input \in Known(m, Len(m.graph.instrs) + 1)
    /\ \A j \in DOMAIN specs \ {k} :
         specs[j].name # specs[k].name /\ Members(specs[j]) \cap Members(specs[k]) = {}

Tails(m, specs) == {TailMember(m, specs[k]) : k \in DOMAIN specs}

\* Of a caller's array only the tail is read, and none of its shifted next
\* states but by the array.
GroupsApart(m, specs) ==
  LET shifted == ShiftedNexts(m, specs)
      kept    == {e \in DOMAIN m.graph.instrs : m.graph.instrs[e].out \notin shifted}
      fed     == {specs[k].input : k \in DOMAIN specs}
      hidden  == {StateIn(m)[i] : i \in Grouped(specs)} \ Tails(m, specs)
  IN  StillRead(m, kept, Grouped(specs), fed) \cap (hidden \cup shifted) = {}

FitsEmitter(m, specs) ==
  /\ EmittableGraph(m)
  /\ specs \in Seq(Range(specs))
  /\ IF specs = <<>> THEN DetectedApart(m)
     ELSE SpecsFit(m, specs) /\ GroupsApart(m, specs)

ASSUME EmissionsAssumption == \A e \in Emissions : FitsEmitter(e.machine, e.specs)

---------------------------------------------------------------------------

VARIABLES
  machine,    \* the machine
  specs,      \* the caller's arrays
  design,     \* what emit_sync_graph, or emit_sync_graph_with_arrays, emits
  stateBits,  \* the state run_cycles threads from cycle to cycle
  rtl         \* the state of the emitted module

vars == <<machine, specs, design, stateBits, rtl>>

M == machine

SyncDesign(m, arrays) ==
  Design(m.graph, IF arrays = <<>> THEN BuildSyncModule(m).val
                  ELSE BuildSyncModuleWithArrays(m, arrays).val)

\* A machine without state can also be emitted by emit_graph.
CombDesign == Design(M.graph, BuildModule(M.graph, DataIn(M), DataOut(M)))

\* A machine without arrays can also be emitted with an empty list of them.
UngroupedDesign == Design(M.graph, BuildSyncModuleWithArrays(M, <<>>).val)

Designs ==
  {design} \cup (IF M.sc = 0 THEN {CombDesign} ELSE {})
    \cup (IF DOMAIN design.module.arrays = {} THEN {UngroupedDesign} ELSE {})

\* A fitting input by port, as the testbench splits it.
PortValues(bits) ==
  LET chunks == Chunks(bits, InputWidths(M))
  IN  [w \in ToSet(DataIn(M)) |-> ToNat(chunks[FirstAt(DataIn(M), w)])]

\* The output ports' values, glued like a sample.
PortSample(d, in) ==
  FlattenSeq([k \in DOMAIN DataOut(M) |->
    FromNat(NetValue(d, rtl, in, DataOut(M)[k]), WireWidth(M.graph, DataOut(M)[k]))])

Fitting == BitSeq(Total(InputWidths(M)))

---------------------------------------------------------------------------

Init ==
  /\ \E e \in Emissions : machine = e.machine /\ specs = e.specs
  /\ design = SyncDesign(machine, specs)
  /\ stateBits = InitialBits(M).val
  /\ rtl = ResetState(design)

\* A clock edge with rst low, and the cycle of the simulation it ends.
Edge(bits) ==
  LET r == RunCycle(M, stateBits, bits)
  IN  /\ r.err = "none"
      /\ stateBits' = r.val.next
      /\ rtl' = Clocked(design, rtl, PortValues(bits))
      /\ UNCHANGED <<machine, specs, design>>

\* A clock edge with rst high; the simulation starts over.
Reset ==
  /\ stateBits' = InitialBits(M).val
  /\ rtl' = ResetState(design)
  /\ UNCHANGED <<machine, specs, design>>

Next == Reset \/ \E bits \in Fitting : Edge(bits)

Spec == Init /\ [][Next]_vars

---------------------------------------------------------------------------
(* Properties *)

\* In every cycle, for every input, the ports of the emitted module show what
\* the simulator samples.
SameOutputs ==
  \A bits \in Fitting, d \in Designs :
    PortSample(d, PortValues(bits)) = RunCycle(M, stateBits, bits).val.sample

\* What a state wire of the simulation holds, read off the registers: a
\* register, a member of the caller's array, or an array of its own, newest
\* element first.  Behind the pointer lies the newest of a circular buffer.
Slot(a, i) == IF a.circular THEN (rtl.ptr[a.w] - 1 - i) % a.depth ELSE i

Held(k) ==
  LET w == StateIn(M)[k]
      Array(name) == design.module.arrays[ArrayNamed(design, name)]
      Element(a, i) == FromNat(rtl.arr[a.w][Slot(a, i)], a.width)
      groups == {g \in DOMAIN specs : k \in Members(specs[g])}
  IN  IF w \in Registers(design) THEN FromNat(rtl.reg[w], WireWidth(M.graph, w))
      ELSE IF groups # {}
           THEN LET spec == specs[Min(groups)] IN Element(Array(spec.name), k - spec.start)
      ELSE FlattenSeq([i \in 1..Array(w).depth |-> Element(Array(w), i - 1)])

\* No register of the hardware drifts from the wire of the simulation it
\* stands for, seen by an output or not.
SameState ==
  LET wires == Chunks(stateBits, StateWidths(M))
  IN  \A k \in 1..M.sc : Held(k) = wires[k]

\* The wires an expression reads as nets.
ReadBy(x) ==
  CASE x.e = "Wire"   -> {x.w}
    [] x.e \in {"Literal", "ArrayIndex"} -> {}
    [] x.e \in {"Not", "Slice"} -> {x.a}
    [] x.e = "Binary" -> {x.a, x.b}
    [] x.e = "Mux"    -> {x.s, x.f, x.t}
    [] x.e = "Concat" -> {x.high, x.low}

Declarations(v, w) ==
  Cardinality({k \in DOMAIN v.ports : v.ports[k].w = w})
    + Cardinality({k \in DOMAIN v.regs : v.regs[k] = w})
    + Cardinality({k \in DOMAIN v.arrays : v.arrays[k].w = w})
    + (IF w \in v.nets THEN 1 ELSE 0)

\* Everything that gives w a value: an input port, an assign or an always_ff.
DriverCount(v, w) ==
  Cardinality({k \in DOMAIN v.ports : v.ports[k] = Port(w, "Input")})
    + Cardinality({k \in DOMAIN v.assigns : v.assigns[k].lhs = w})
    + Cardinality({k \in DOMAIN v.ffs : v.ffs[k].w = w})

Read(v) ==
  (UNION {ReadBy(v.assigns[k].rhs) : k \in DOMAIN v.assigns})
    \cup {v.ffs[k].next : k \in DOMAIN v.ffs}
    \cup {v.arrays[k].input : k \in DOMAIN v.arrays}
    \cup {v.ports[k].w : k \in {j \in DOMAIN v.ports : v.ports[j].dir # "Input"}}

\* A tool accepts the module: nothing is declared twice, every net that is
\* read has one driver, and none has two.  What is read is declared, but for
\* the tail of a caller's array, which its assign declares.
OneOfEach(v, names, tails) ==
  LET assigned == {v.assigns[k].lhs : k \in DOMAIN v.assigns}
  IN  /\ \A w \in names : Declarations(v, w) <= 1 /\ DriverCount(v, w) <= 1
      /\ \A w \in Read(v) : DriverCount(v, w) = 1
      /\ \A w \in (Read(v) \cup assigned) \ tails : Declarations(v, w) = 1

EveryNetOnce ==
  \A d \in Designs :
    OneOfEach(d.module, Wires(M.graph) \cup ArrayNames(d), Tails(M, specs))

\* No array operation is left to a continuous assignment: the comment in
\* op_to_expr (emitter.rs:140-145) says the sync emitter handles them all.
NoArrayAssign ==
  \A e \in DOMAIN M.graph.instrs :
    LET instr == M.graph.instrs[e]
    IN  instr.op.op \in {"ArrayShiftIn", "ArrayTail"} =>
          \A k \in DOMAIN design.module.assigns :
            design.module.assigns[k] # Assign(instr.out, Wire(instr.ins[1]))
=============================================================================
