# hdl-cat: a TLA+ verification project

hdl-cat is a Rust library in which a synchronous circuit is a value: a graph
of typed wires and instructions, built directly or composed from arrows of a
monoidal category and from Mealy machines or lifted from Rust source by a
macro, then simulated, traced to a VCD file, or emitted as Verilog or Circom.
This directory models the graph, the simulator, both kinds of composition, the
macro, the two emitters and the release script in TLA+, checks the models with
TLC, and proves what holds of them for all parameters with TLAPS.

Paths below are relative to `src/crates/`, where they do not begin with
`scripts/`. Line numbers of every translated
definition are in `PROJECT.json` under `map`.

## 1. Inventory

| component | state it keeps | operations | correct when |
|---|---|---|---|
| `hdl-cat-ir`: `WireTy`, `Op`, `Instruction`, `HdlGraph`, `HdlGraphBuilder` | the wires and the instructions appended so far; the builder moves into its result and is lost on an error | `with_wire`, `with_instruction` (checks arity only), `build`, graph edges | the graphs the compositions build drive each wire once, although nothing checks it |
| `hdl-cat-kind::BitSeq` | none | `bit`, `concat`, `split_at`, conversions | least significant bit first everywhere; splitting clamps |
| `hdl-cat-sim::interp` | the environment: per wire a value or none, threaded through a fold | `interpret`, `step_instruction`, `apply_op`, `lookup` | one pass of the fold means what a set of concurrent assignments means; undefined wires are reported, never invented |
| `hdl-cat-sim::testbench` | flat state bits at storage width, samples | `run`: check and expand the initial state, per cycle split, interpret, read, glue | the flat simulation is the documented Mealy machine |
| `hdl-cat-sim::vcd` | flat state bits (compact), environments | `trace_to_string` | accepts what the testbench accepts and shows its samples |
| `hdl-cat-circuit` | none (pure): a graph, input wires, output wires | `comp`, `tensor_map`, identities, braids, associators, gates | composing arrows composes functions |
| `hdl-cat-sync` | none (pure): an arrow, a state wire count, initial bits | `from_raw`, `from_arrow`, `lift_comb`, `compose_sync`, `par_sync`, `feedback_sync` | states, initial bits and data are permuted alike by every composition |
| `hdl-cat-std` | none | counters, accumulator, shift register, toggle, adders | each does what its doc says |
| `hdl-cat-verilog` | none (pure); the emitted registers, arrays and write pointers are the state of the hardware | `emit_graph`, `emit_sync_graph`, `emit_sync_graph_with_arrays`, rendering | the hardware steps as the simulator does, from any power-on contents, under resets at any time |
| `hdl-cat-circom` | none (pure) | `emit_template`, `emit_unrolled_template` | the constraints accept the simulation and nothing else |
| `hdl-cat-macros` | per expansion: scope, counter of identifiers, statements generated so far | `#[kernel]`: parse the parameters and the result, compile lets and the last expression, or refuse | the arrow computes what the source would compute in Rust |
| `hdl-cat-bits`, `hdl-cat-kind::Hw` | none | fixed-width integers, packing and unpacking | modular arithmetic, round trips, widths that add up |
| `hdl-cat-signal` | lazy streams | map, zip, delay | delays shift, domains do not mix |
| `hdl-cat-error`, `hdl-cat` | none | the error enumeration; re-exports | |
| `scripts/publish.sh` | none of its own; the registry keeps what was uploaded, its index what can be depended on | `--verify`, `--from`, publish in order, halt | an interrupted release can be resumed, and what it claims is true |

How they interact. Everything is a call; there are no threads and nothing is
persisted by the library. A client builds a graph with the builder or grows an
arrow with the category's operations; a machine wraps an arrow with a count of
state wires and initial bits; the testbench and the tracer each run their own
loop around `interpret`; the emitters read the same graph. What has to agree
across these components, without any of them checking it:

- the order of instructions. `interpret` runs the list front to back, the
  emitters take it as a set;
- the order of wires. State first, then data, on inputs and outputs, kept by
  every composition, with the initial bits in the same order;
- two widths of an array wire. Initial states hold one element
  (`width`), the running simulation holds all (`storage_bits`);
- bit order. Least significant first in `BitSeq`, most significant first in
  Verilog and VCD text;
- what an array state is. A value in the simulator; a shift register or a
  circular buffer with a pointer, chosen by depth, in Verilog.

What is hard, then, is not scheduling but long sequences of legal calls that
reach a malformed graph, state threaded across cycles at the wrong width or in
the wrong order, and two implementations of one machine that drift apart after
many edges and resets. Concurrency enters with the hardware: all registers
step at once on a clock edge, power up with anything, and are reset at any
time. Failure enters with the release script, which works against a registry
that takes nothing back, behind an index that lags, and may end anywhere.

`PROJECT.json` lists the components with their status, and under `hazards` the
places in the code where this can go wrong, with the properties that watch
them.

## 2. Modules

```
 BitSeqs - HdlIr - Interp - InterpRun ---------- InterpRun_proofs
                    |  \                              |
                    |   Interp_proofs ----------------+
                    |            \---- CircuitCat_proofs, Testbench_proofs,
                    |                  Kernel_proofs, Verilog_proofs
                    |
                  Circuits - CircuitCat - CircuitCat_proofs
                   |   |  \
                   |   |   KernelMacro - KernelTypes - Kernel_proofs
                   |   |                    |
                   | HwTypes -------- KernelChecked
                   |   |                    |
                   | HdlBits            (RunCycles)
                   |
                 SyncMachine ------------ VerilogEmit - VerilogRtl
                   |      |                                |
               SyncTerms  RunCycles --------------- VerilogLockstep - Verilog_proofs
                   |         |   |
                   |         |  CircomEmit - CircomProver
                   |         |
           SampleMachines  Testbench - VcdTrace - Testbench_proofs
                   |         |
                 TestbenchChecked ~ Mealy

 ArrayBlocks - ArrayReg - ShiftReg, CircBuf ~ DelayLine
                             |        |
                        ArrayStrategies_proofs

 Publish - Publish_proofs
```

(`-` extends, `~` implements; `VerilogRtl` also uses `ArrayBlocks`.)

| module | models | correspondence |
|---|---|---|
| `BitSeqs` | `kind/bit_seq.rs` and the numeric helpers around it | a `BitSeq` is a sequence of 0 and 1, bit 0 first |
| `HdlIr` | `ir/*.rs` | `WireId` k is position k + 1 of `graph.wires`; a builder is its graph |
| `Interp` | `sim/interp.rs` | a `Result` is a record of `err` and `val`; `"Panic"` is an overflow check of a debug build; an environment is a function on the wires that hold `Some` |
| `InterpRun` | builder and interpreter as a state machine | actions `AddWire`, `AddInstruction` (both outcomes), `Start`, `Execute` (one `step_instruction`), `Finish` |
| `Circuits` | `circuit/*.rs`, `std/adder.rs` | one operator per function; `Plug` is the substitution closure; a scalar type is its `TypeDesc`, and `WireTyOf` the wire it travels on |
| `CircuitCat` | a client growing an arrow | actions `Then`, `After` (comp on either side), `Above`, `Below` (tensor_map on either side); Rust's types are the guard |
| `SyncMachine` | `sync/*.rs`, `std/*.rs` | a machine is a record of graph, wires, initial bits and state count |
| `SyncTerms`, `Mealy` | the documentation | a term names how a machine was assembled; `React` says what its parts' docs say it does, on numbers |
| `SampleMachines` | the machines the runs use | library machines, delay lines, compositions up to three deep |
| `RunCycles`, `Testbench` | `sim/testbench.rs` | `Begin`: initial state; `Cycle(input)`: one iteration of the fold, all four errors; `End`; `WellFormed` says what a machine must be to run without errors |
| `VcdTrace` | `sim/vcd.rs` | the tracer's own fold beside the testbench's, on the same inputs; `TraceSpec` composes the two |
| `HdlBits` | `bits/*.rs` | a `u128` is a number below 2^`WordBits`, an `i128` the signed number of the same bits; one operator per method |
| `HwTypes` | `kind/hw.rs`, `aggregate.rs`, `ty_desc.rs` | pairs, triples, quadruples and arrays are one recursion |
| `KernelMacro` | `macros/lib.rs` | actions `Arg`, `Signature`, `Let`, `TailExpr`, `EmptyBody`, each with its refusals; `BodyCtx` is `ctx`, the generated function is `Kernel`. An expression is the sequence of its nodes, operands first: the order in which the recursion of `compile_expr` returns from them |
| `KernelTypes` | Rust's names and types, as far as kernels use them (external); the documented subset | what the documentation promises to lift, `Promised` |
| `KernelChecked` | Rust's values (external) | by the operators of `HdlBits` |
| `ArrayBlocks`, `ArrayReg`, `ShiftReg`, `CircBuf` | `verilog/render.rs`, the array part of `emitter.rs` | one action per kind of clock edge: `Reset`, `Shift(d)` |
| `DelayLine` | what an array promises | the abstract specification of both strategies |
| `VerilogEmit` | `verilog/emitter.rs`, `ast.rs` | the emitted module as a tree: ports in order, for each other kind of statement a function from the instruction, state wire or array it is emitted for; operands are wires; arrays found by the emitter (`BuildSyncModule`) or named by its caller (`BuildSyncModuleWithArrays`) |
| `VerilogRtl` | the Verilog language, as far as it is used (external) | expression widths and values, nonblocking updates, nets nobody declared |
| `VerilogLockstep` | simulator and hardware on one clock | actions `Edge(input)`, `Reset` |
| `CircomEmit` | `circom/emitter.rs`, `ast.rs`, `render.rs` | a template as ports and a sequence of statements over bits of wires in cycles |
| `CircomProver` | what a template proves (prover, field and circomlib external) | actions `EmitTemplate`, `Solve` (one statement), `Refuse`, `Guess`, `Accept` |
| `Publish` | `scripts/publish.sh`; cargo and the registry (external) | `phase` is the place in the script, `uploaded` and `indexed` the registry; actions `Start`, `Gate`, `Skip`, `Accepted`, `FoundThere`, `Refused`, `Sleep`, `Continue`, `Halt`, `Finish`, `Interrupt`, `Index` |

Mutants (definitions named after a mistake, such as `ConcatLowFirst`) stand
directly before the definition they are a broken copy of. No specification
uses them; each shows that a property notices that mistake.

## 3. What the runs show

| run | module and configuration | asks | result |
|---|---|---|---|
| `interp` | `MCInterpRun` | does the fold mean what the graph means, for every graph a client can build? | holds |
| `circuits` | `MCCircuitCat` | does composing arrows compose functions? | holds |
| `testbench` | `MCTestbench` | is the flat simulation the documented machine, and does the tracer show it? | holds |
| `compose_pass_through` | `MCTestbench`, `MCComposePassThrough.cfg` | also when the second machine hands its input on? | violated |
| `vcd_array` | `MCTestbench`, `MCVcdArray.cfg` | does the tracer run machines with array state? | violated |
| `array_rtl` | `MCArrayRtl` | are both array strategies the same delay line? | holds |
| `verilog` | `MCVerilogLockstep` | does the hardware step as the simulator does? | holds |
| `verilog_gated` | `MCVerilogLockstep`, `MCVerilogGated.cfg` | also when an array can hold? | violated |
| `circom` | `MCCircom` | does a template accept the testbench's run and nothing else? | holds |
| `circom_wide` | `MCCircom`, `MCCircomWide.cfg` | are products too wide for the field rejected? | violated |
| `kernel` | `MCKernel` | does a lifted function compute what its source says? | holds |
| `publish` | `MCPublish` | can an interrupted release always be completed, and is its claim true? | holds |

**interp.** Graphs of up to three wires and two instructions over four
operations (one of each arity, and `ArrayTail` of depth 0, which panics),
on eight calls that include an empty value, a wire given twice and too few
values. The builder rejects only wrong arity, so the graphs include every
malformed one. `DefinedExactly` and `UndefinedIffUnordered` say that which
wires have values, and which error comes back, depends only on the graph's
shape; `Settled` that when the fold is over a write-once graph satisfies all
its instructions at once; `OrderIrrelevant` that any other order of the list
that runs at all computes the same; `NeverRetracted` that values stay;
`CallReturns` that the call ends. Two instructions are enough for one to read
what another drives, to overwrite it, or to read itself; three wires for an
input, an intermediate value and a wire that nobody drives. The proofs remove
the bounds from all but `CallReturns`.

**circuits.** Arrows of up to seven wires grown from twelve generators on both
sides, with `comp` and `tensor_map` mixed freely. The generators include pure
wirings and an arrow whose two outputs are one wire, which are where renaming
goes wrong. `Denotes` compares the interpreted arrow with the composed
function on every value; `OneDriver`, `InOrder`, `EndsTyped` and
`ValuesFitWires` are what the interpreter, the emitters and further
compositions rely on. Seven wires admit compositions of three
generators.

**testbench.** Every term of `SampleMachines`, for four cycles, on every
input that fits and one that does not. `ImplementsMealy` is the refinement of
`Mealy`, whose machines are given by `React`. Four cycles are more than the
depth of any array (3) plus one. `StateAtStorageWidth` and `FittingInputsRun`
say that no cycle leaves the state at a width the next one rejects. `MachineFits`
says that every machine of the run, however it was composed, is type-correct
down to the operands of each instruction (`WellFormed`), which the code checks
nowhere: it is the hypothesis of the proofs about the testbench.

The tracer runs beside it (`TraceSpec`), on the same inputs. `ScalarTraceRuns`:
without array state it gets as far as the testbench does. `FramesShowSamples`
and `FramesFitHeader`: its frames contain the samples, and the digits of each
wire are as many as the header declares.

**array_rtl.** Depth 3, the smallest that is no power of two, so that the
pointer has a value past the end; two elements; eight edges between resets,
more than twice around the array; every power-on state. Both strategies run on
the same inputs: each implements `DelayLine`, and `SameTail` says that after a
reset they cannot be told apart, so the depth at which the emitter switches
does not matter. The assumption `PtrWidthTight` evaluates `ptr_width` for
every depth up to 1025.

**verilog.** All sample machines that list no input as an output, every
machine of two well-typed instructions over a two-bit state, a bit and a
signed input, and register chains up to three long that their caller groups
into an array (`emit_sync_graph_with_arrays`), in both strategies, with the
tail as a port and with a tail that another instruction reads. The states are finite and no bound is put on the length of a
run. In each, for every input: the output ports show the testbench's sample
(`SameOutputs`), each register, and each array read from its pointer, holds
the simulated state (`SameState`), and every identifier is declared once and
driven once (`EveryNetOnce`). A machine without state is also emitted by
`emit_graph` and its ports compared. `CircBufThreshold` is 2 here and 32 in
the code (`CIRC_BUF_THRESHOLD`): the code only compares the depth with it, and
2 puts sample arrays on both sides. The behaviours begin with the first edge
that has `rst` high: such an edge assigns every register, array and pointer
without reading any; what power-on contents do before that is `array_rtl`'s
question. `EmissionsAssumption` says what the emitters take for granted of a
machine and of the caller's arrays, and holds of all these emissions: a netlist
in order with one driver per wire, ports with names of their own, arrays that
are apart, and nobody but an array's own shift and tails reading its wires.

**circom.** A zero-knowledge template is used by a prover who gains from
proving something false, so the honest evaluation that tests look at is half
the question. `CircomProver` gives the template to a prover that may put any
value on a signal no statement computes and pick any decomposition circomlib's
own constraints admit. `OnlyTheRun` (soundness) says that whatever it does, an
accepted witness is the testbench's run on inputs that are bits;
`EveryRunProvable` (completeness) that it is refused for nothing but an input
that is no bit; `SignalsWired` that each signal that matters is computed once.
The cases are each operation alone, up to three bits, and the sample machines
unrolled over up to three cycles, four for arrays of depth three, whose first
input comes out in the fourth. The field has 53 elements and literals 4 bits,
in the proportion of the code's BN254 (254 bits, budget 252) and `u128`; the
budget is 5 bits. Within it nothing wraps around the prime, which is all the
size of the field matters for. The prover tries 0, 1 and 2 for an open signal:
a bit constraint is a polynomial of degree two, so one value that is no bit
stands for the others. Statements are taken as equations. The emitter prints the
statements that hand the state on before those that compute it; what a
generator that executes them in order makes of this is outside the model.

**kernel.** TLC writes every function of up to two parameters, one `let` and
two operators from a set of pieces that includes what the macro must refuse (a
width that is no literal, a literal in the body, an unknown name, a pattern
that is no name, an item before the last expression, no body) and what rustc
would (operands of two types, `!` on a signed number, a let whose type is not
its value's). `KernelMacro` expands it item by item.
`KernelComputes` then unpacks what the testbench returns for the lifted arrow,
for every argument, and compares it with the value of the body under the
operators of `bool`, `Bits` and `SignedBits`: a statement that holds only if
the macro, the arrow, the interpreter, the integer types and the packing
agree. It is asked of the functions that rustc would compile and that use only
what the documentation lists. `OnlyPatternsRefused` says which of those are
refused: the ones with a let of more than a name, with its type written out or a
wildcard, which the documentation does not exclude (section 4), and no others.
Parameters and lets are all the names a body can use here: a constant of the
module around the function, which rustc would see, is not modelled and would be
refused as unknown. `EndsMatchSignature` compares the two statements of the ends of the
generated arrow, and `NetlistInOrder`, of every function that is accepted,
well typed or not, that its instructions read what is there and drive wires of
their own. `PackingInverts` is the round trip that the trait documents as its
law, for the tuples, nested pairs and arrays the arguments can be packed in.
The machine word has three bits, widths are one to three: the word's own width,
where masks and sign bits have cases of their own, is among them. The proofs
remove the bounds from `OnlyPatternsRefused`, `EndsMatchSignature` and
`NetlistInOrder`.

**publish.** The thirteen crates in the script's order with the dependencies
their manifests declare (those of tests, too: cargo resolves them), of which
one has an older release. The script may be started again from any crate, with
the verification gate or without, be interrupted in any phase (before and
after the registry took an upload), and be refused by cargo for a dependency
that is missing in the index or for reasons of its own. `DoneMeansPublished`:
"All crates published." is true of every crate that `--from` did not leave
out. `NeverTooEarly`: in a run from the start a crate comes up only when its
dependencies are uploaded, so what cargo can miss is the index.
`EventuallyPublished`: running the script again gets everything published, and
it is the `continue` for crates that exist already that this rests on.

Deadlock is checked in the two Verilog runs, where hardware never stops. It is
not in the others: a call that has returned, an arrow that has reached the
bound and a history that is full have no next step.

### Bounds

`MaxWires`, `MaxInstrs` (InterpRun): size of the graphs. `MaxWires`
(CircuitCat): wires of the arrow. `MaxCycles`: length of the input vector.
`MaxEdges`: edges between two resets, only to keep the history finite. Widths
are 1 to 3 bits: no operation treats a width specially between 1 and the size
of a `u128`. `MaxArgs`, `MaxLets`, `MaxOps` (KernelMacro): size of the
function; one `let` is enough to shadow a parameter, two operators to nest
either way and to use a result twice. `WordBits`: the machine word. `Guesses`:
what a prover tries. `LiteralBits`, `FieldPrime`,
`FieldMaxBits`: the scale of `u128` and of the field.

### Fairness

`InterpRun`: `FairSpec` asks weak fairness of `Execute` and `Finish` and of
nothing else: `interpret` is one call that runs its fold to the end without
giving up control, so an enabled step of it is taken. A client need not call
it at all, and `CallReturns` does not say that it does.

`Publish`: weak fairness of the script's own steps (a running shell script
goes on) and of the index (it catches up in the end). That someone starts the
script again is the operator's doing, not the script's: strong fairness of
`Start` without `--from` and `--verify` says that it is not forever started in
other ways only. And in the end it is left alone: from some point on it is not
interrupted, and cargo refuses nothing for reasons the model does not know.
Without the last two nothing could be promised; before that point anything may
happen, and the index may lag as long as it likes.

The testbench and the emitters have no waiting to reason about, and clocks and
inputs of the hardware are the environment's.

## 4. Disagreements found

Each is a run that TLC ends with a counterexample, and an entry under
`findings`.

1. `compose_sync` renames the operands of the second machine's instructions
   but not the outputs it lists (`hdl-cat-sync/src/compose.rs:69`). An
   accumulator followed by a wired identity, or two registers in a row, fails
   with `UndefinedSignal` in the first cycle. `compose_arrows` has the same
   substitution and applies it to the outputs.
2. `trace_to_string` threads the compact state and fails for a machine with an
   array (`hdl-cat-sim/src/vcd.rs:28`) that the testbench runs.
3. An array whose next state is a multiplexer, not the shift itself, is not
   recognised (`hdl-cat-verilog/src/emitter.rs:647`): its operations become
   continuous assignments of their first operand and the register never
   changes, where the simulator shifts.
4. `lower_mul` decomposes a product into twice the operands' bits for every
   width (`hdl-cat-circom/src/emitter.rs:925`). `Field::max_bits` is
   documented as what the emitter rejects too wide an intermediate by, and
   nothing calls it. From 127 bits on a product has several decompositions,
   and wrong ones are accepted.

Smaller ones, listed as hazards or only here, and without a run:

- `emit_sync_graph_with_arrays` assigns the tail of a named array to a wire it
  does not declare (`hdl-cat-verilog/src/emitter.rs:578`). The language makes
  that a net of one bit: elements of more bits are cut wherever an instruction
  reads the tail, though the function is documented to behave like
  `emit_sync_graph`. `SameOutputs` fails for a chain of two-bit elements with
  such a tail; the `verilog` run has chains of one-bit elements there.
- In the Circom emitter, at 128 bits the bias of a subtraction is shifted out
  (`emitter.rs:871`), and a short initial state is filled up with zeros
  (`emitter.rs:443`).
- The macro refuses a `let` whose type is written out, as in
  `let x: Bits<8> = a ^ b;`, or whose pattern is `_`, with "expected a simple
  identifier" (`hdl-cat-macros/src/lib.rs:385-390`). Its documentation gives
  "zero or more `let` bindings" as the supported body (`lib.rs:12-13`) and says
  nothing of patterns. `OnlyPatternsRefused` states this beside what it
  separates from it, and holds.
- The macro accepts `==` and `<`, which its documentation does not list, and
  types the result like the left operand (`hdl-cat-macros/src/lib.rs:435`).
- `Circuit::id` has no wires and is no identity of `comp`
  (`hdl-cat-circuit/src/category_impl.rs:22`); the comment above it says so.
  The wired identity of `coherence.rs` is one (run `circuits`).
- With `--from` the release script says "All crates published." whatever
  became of the crates it left out (`scripts/publish.sh:221`).

## 5. What is proved

The proofs are in modules of their own that extend the component they are
about. They hold for every value of the constants that satisfies the named
assumptions.

**`Interp_proofs`** holds what the others need about lists and about the
interpreter as a function. The library's recursion and induction theorems take
an operator as a parameter, which the prover here cannot instantiate, so this
module argues by least counterexamples: `LeastExists` gets the least position
of a set from the well-foundedness of inclusion, and `CountingUp` is induction
over `0..n` for a set of numbers. A recursive function defined by `LET` is a
choice among the solutions of its equation; `SumsExist`, `GluedExist` and
`FoldExists` construct a solution, after which `Total`, `FlattenSeq` and the
fold of `Interpret` can be unfolded one step at a time (`SumsSteps`,
`FlatStep`, `FoldSteps`). From there: cutting a sequence into chunks and
gluing it together again are inverse (`PiecesAreChunks`, `FlattenChunks`), and
a graph that contains a renamed copy of another computes in the copy what the
other computes (`CopyRuns`). Last come the lemmas about merged graphs that
arrows and machines share: what plugging does to a wire and to a list
(`PlugWire`, `PlugList`) and what the instructions of a merge are (`Merged`).

**`InterpRun_proofs`**: for every set of operations of the nine kinds, every
set of calls and every bound, `TypeOK`, `DefinedExactly`, `Settled`,
`UndefinedIffUnordered` and `NeverRetracted`. Operations stay opaque; of
`ApplyOp` only the errors it can return matter (`ApplyOpErr`). The inductive
invariant `IInv` adds two conjuncts. `NotStarted` says that nothing is computed
before the call. `OrderedSoFar` says that each executed instruction read only
what was there. Without it a later error could not be traced to the
instruction that caused it: that `UndefinedSignal` means an unordered read at
`pc` is local, but that `"done"` means every read was ordered is a statement
about all earlier steps. `Settled` is inductive because a write-once
instruction drives no wire that an earlier one read or drove, so
`UpdateEffect` leaves their equations alone.

`OrderNeverMatters` is about two runs: the one that has ended and the call that
interprets the instructions in another order. Both end in a solution of the
same equations (`Settled` for the one, `FoldSteps` for the other), with values on the same wires;
the first instruction of the other order whose result differs would have
operands that agree.

**`ArrayStrategies_proofs`** is about both strategies, for every depth. For the
circular buffer: after a reset the pointer stays in the array
(`PointerStaysInArray`), going back from it finds the inputs in order
(`ElementsInOrder`), types (`TypeCorrect`), and the refinement of `DelayLine`
(`CircularBufferIsDelayLine`). That each element is where `Slot` says is
inductive only together with `PtrInArray`: a write past the end is lost and
would leave each tap one element off. The key lemma, `SlotsMoveOn`, is that
advancing the pointer moves slot i to slot i + 1, also around the end.

For the shift register: the element at index i is the input of i + 1 edges ago
(`ShallowInOrder`), and it implements `DelayLine` (`ShiftRegisterIsDelayLine`).

The two strategies in one clock have equal tails from the first reset on
(`StrategiesAgree`). Its invariant is the conjunction of theirs: each keeps the
same inputs, each where its own taps are; a refinement of `DelayLine` by each
alone would not relate the two. In that clock, too, the shift register
implements the delay line (`ShallowIsDelayLine`).

**`CircuitCat_proofs`**: however an arrow is grown, of any generators that are
sound netlists and as wide at their ends as their objects say
(`GensAssumption`), it stays one: no wire gets a second driver and no input a
driver (`DriversStayUnique`), and every instruction reads what is known before
it (`OrderIsKept`). The inductive invariant needs all of it at once: the outputs
of the second part are only shifted, never plugged, because they are none of
its inputs; what it reads is known because plugged wires are outputs of the
first part, and those are known; and every input is plugged only because the
two lists have the same length. `Plug` takes the first match of a search, which
is where `LeastExists` is needed again. `MergedNetlist`
serves both operations: composition plugs all inputs, a tensor none.
`TypesAgree` adds that ends keep the types of the objects, under the hypothesis
`GensTyped` that the generators' do: composing by Rust's phantom types joins
wires of one type only.

`CompositionDenotes` is functoriality: interpreting a composed graph is
composing functions, of any generators for which the interpreter computes what
they mean (`GensMean`). The invariant `MeansInv` says it together with the
soundness of the netlist, which it needs: the merged graph runs the first
part's instructions on the first part's wires, then the second part's on
shifted and plugged ones (`CopyRuns`, twice), and the second copy neither
overwrites what the first computed nor finds a plugged input without its value.
`ValuesKeepFitting` follows the widths of the values along the same copies.

**`Testbench_proofs`**: type soundness of the simulation. `WellFormed` is a
typing judgement for machines: operands and result of every instruction have
the widths its operation wants, reads come after drivers, ends and initial
bits have the widths of the state. Under the hypothesis `MachinesFit`, that
every machine handed to the testbench is well formed, `FittingInputsNeverFail`
says that an input of the right widths is never refused and never panics, in
any cycle of any run; what it rests on is, per operation, that operands of the
right widths give a result of the declared one (`OpGives`), along the fold
(`StepFits`, `MachineRuns`), around the cycle (`CycleReturns`). The inductive
invariant `BenchInv` is that the flat state is as long as the expanded state
wires, which is `StateKeepsWidth`; it holds in the first cycle because the
array state is expanded. For the tracer `TraceInv` adds that it threads the
same bits (`TracerFollows`), which gives that its frames are the samples
(`FramesAreSamples`) at the declared widths (`HeaderFitsFrames`). These two are
stated for machines whose wires are neither arrays nor empty (`ScalarWires`):
an array wire is declared with the bits of one element but dumped whole, and
`render_wire_value` writes one digit for a wire without bits. `MachinesFit` is no empty hypothesis: `MachineFits` checks it for every
machine of the `testbench` run, what it excludes is the defect that
`compose_pass_through` shows, and the second part of the module proves it of
whatever is assembled of library machines.

That second part is about which machines are well formed. `GraphFits` is the part
of `WellFormed` that speaks of a netlist alone, so it makes sense of arrows
too. An arrow of one operation has it if the operation fits its types
(`PrimitiveFits`), hence every gate at every width (`GatesFit`); composition and
tensor of arrows keep it (`ComposedFits`, `TensorFits`). An arrow lifted, or
accepted by `from_arrow` at its Rust type, is a well-formed machine
(`LiftedFits`, `FromArrowFits`): the number of wires and of initial bits is all
that was left to check at run time. The library's machines are well formed at
every width (`StepperFits` for both counters, `AccumulatorFits`,
`ShiftRegisterFits` from two bits on, `ToggleFits`), and so is the machine with
array state at every depth but 0 (`DelayAndFlipFits`).

`ParallelFits`, `FeedbackFits` and `SeriesFits` are the compositions. Their core
is `JoinedFits`: in a merge whose plugged wires have equal widths on both
sides, every instruction of either part still fits and still reads what is
known before it. Around it, `Assembled` says how a machine's ends are put
together of state and data and `EndsAssemble` that the accessors find them
again; `MachinesJoin` puts the two states and their initial bits in one order.
Only series has a hypothesis about more than widths: in `CanFollow` the second
machine hands none of its data inputs on, as output or as next state. Without
it the theorem is false. The instructions of the second machine are renamed by
the substitution but its outputs are only shifted, so such an output names a
wire nobody drives; that is the finding of `compose_pass_through`. For arrows, where
`compose_arrows` renames the outputs too, `ComposedFits` needs no such
hypothesis. Every series of the runs' `Pipelines` satisfies `CanFollow` and
none of `PassThroughs` does.

**`Kernel_proofs`**: the kernel macro, for every set of declarations,
statements and types, hence for functions of any length and expressions of any
nesting. `SyntaxAssumption` says of the constants only that statements are
syntax trees.

`NetlistAlwaysInOrder` is about everything the macro accepts, also what rustc
would reject. In the middle of a body there is no arrow yet, so what is
inductive, `SourceInOrder`, speaks of the statements generated so far: the k-th
defines the k-th temporary identifier and reads parameters and earlier
temporaries only; everything in scope is one of those; and the counter is the
number of statements. The last conjunct is what makes a new identifier new.
`ExprInOrder` carries this along the nodes of an expression, where it also has
to hold of the results that wait on the stack for their operator.
`KernelRuns` then runs the generated statements: the i-th `let` binds its
identifier to wire n + i of a graph with n parameters, which no later `let`
shadows, so order among identifiers becomes order among wires (`KernelInOrder`).

`OnlyPatternsAreRefused` and `EndsAlwaysMatch` relate the macro's scope to
Rust's. The invariant `ScopeInStep` is that, as long as what is read is
accepted by rustc and uses the documented operators only, every name Rust can
see is found by `Lookup` with the type Rust gives it. For lets that is shadowing
on both sides: the macro's scope is a list searched from the young end, Rust's
a function overwritten. `NodeInStep` follows both type checkers through one
expression, node by node, and `TypedIsLifted` draws the conclusion: a well-typed
expression is lifted and its result typed as in Rust, though the macro looks at
the type of the left operand only. For the other direction `SourceInOrder` says
that a body with a let of more than a name has been refused: where such a let is
read, and ever after. The inductive invariant `PromiseKept` is the conjunction
of `SourceInOrder`, `ScopeInStep` and `OnlyPatternsRefused`: once a
kernel has been refused its scope is no longer followed, so what made it refused
has to be kept beside the other two.

This proof corrected the model. `RustAccepts` used to ask of the scope after
all lets that no name in it be ill-typed. A second `let` of a name hides that
its first initialiser was rejected by rustc, and then a function counts as
promised that the macro refuses; with one `let`, as in the run, that cannot be
seen. It now asks that every initialiser be well typed in the scope before it.
TLC checked `PromiseKept` with up to three lets before it was proved.

**`Verilog_proofs`**: `EveryNetOnce` for every machine and every grouping of its
state that `EmissionsAssumption` admits, at every depth and threshold. An
emitted module is put together by passes that each decide for themselves which
wires to leave out: ports, registers, array declarations, nets, assigns, tails
and blocks. `SoundModule` is what they have to agree on, as sets: no kind of
declaration names a wire twice, no two kinds name the same wire, the same for
drivers, and what is read is driven and declared. From it `SoundIsOnce` counts.
`PartsSound` shows it for any module whose state wires are divided into
registers and array members and whose instructions are assigned unless their
output is left out, and one lemma per emitter fits `build_module`
(`CombinationalSound`), `build_sync_module` (`DetectingSound`) and
`build_sync_module_with_arrays` (`GroupedSound`) into that form. In the second
the delicate step is `EmittedAre`: assigns are filtered by their output, not by
instruction, and a tail read off an array must survive exactly once whatever
else drives its output. No inductive invariant is needed beyond that the
design does not change (`EmittedDesign`). The hypotheses are needed: a data
output that is also a data input is two ports of one name, and a detected
array whose next state is read elsewhere reads a net that has no driver.

**`Publish_proofs`**: for every list of crates in dependency order, whatever
the dependencies, `PublishInv`, `DoneMeansPublished` and `NeverTooEarly`. The
last two are not inductive: that the claim at the end is true depends on what
each earlier turn of the loop left on the registry. `PublishInv` says it for
every point of the loop (`BehindUploaded`: what lies between the start of this
run and its position is uploaded), and holds over interruptions because the
registry takes nothing back and a new run claims nothing yet.

Assumptions: `GensAssumption` of `CircuitCat` (evaluated for the twelve
generators of its run); `EmissionsAssumption` of `VerilogLockstep` (evaluated
for every emission of its runs); `CratesAssumption`, `OnceAssumption` and `TopologicalAssumption`
of `Publish` (evaluated for the workspace's crates by its run);
`BoundsAssumption`, `OpsAssumption` and `CallsAssumption` type
the constants of `InterpRun`, `BoundsAssumption` and `SyntaxAssumption` those of `KernelMacro`, `MeaningAssumption` the functions that the
generators of `CircuitCat` stand for, `MisfitsAssumption` the misfit inputs of
`Testbench`; `DepthAssumption` (an array has an element: at
depth 0 the emitter itself underflows), `InitialAssumption`,
`MaxEdgesAssumption`; and `PtrSpanAssumption`, that a pointer of
`PtrWidth(Depth)` bits can hold every index. The last is arithmetic about
`leading_zeros` that needs an induction over widths; TLC
evaluates it in every run and for all depths up to 1025 in `array_rtl`.

Only model-checked, with the reason:

- `CallReturns` and `EventuallyPublished` are liveness, for whose fairness the
  prover has no support.
- `ImplementsMealy` compares with a definition that recurses over terms
  (`React` follows how a machine was assembled), `RECURSIVE` in its module.
- `KernelComputes` and `PackingInverts` are about values: words of bits
  (`Bitwise`) and packings that recurse over types. Both are out of the
  prover's reach, and `KernelComputes` would be an induction over an expression
  that says what its tree computes. What it needs of the arrow, that it is a
  netlist in order with the ends of the signature, is proved.
- `SameOutputs` and `SameState` compare numbers with bits, operation by
  operation: that adding modulo 2^n is what adding bit sequences comes to is
  arithmetic over powers of two by induction over the width. The part of
  `SameState` that has a state of its own, the arrays and their pointers, is
  proved apart from the emitter: both strategies implement `DelayLine` at every
  depth.
- `OnlyTheRun`, `EveryRunProvable` and `SignalsWired` evaluate the template's
  expressions by recursion over them (`Value` and `SignalsIn` are `RECURSIVE`),
  and the first two rest on sums over bit decompositions in a field.
- `MachineFits` is a statement about the machines of its run, which are
  constants. Their parts and the functions that assemble them are proved
  well formed in general by the second part of `Testbench_proofs`.

## 6. What is left out

Not modelled: `hdl-cat-signal`, lazy streams that neither the simulator nor an
emitter takes or returns, each operation one call of a library whose code is
not in the repository; `hdl-cat-error`, an enumeration and its messages, whose
variants are the outcomes of the models; the re-exports of `hdl-cat`. Within
modelled components: text (rendering, `Display`, VCD header layout, timestamps
and short identifiers, the wording and spans of compile errors); operands of
more than 128 bits, where the simulator's `u128` arithmetic breaks (TLC's own
integers are smaller); descriptors of structs and enums, which no type of the
library has; `empty_sync`; dry runs of the release script, which change
nothing. The hazards that no property covers carry a note in `PROJECT.json`.

## 7. Plan

Done, in this order: interpreter and builder with proofs; arrows and machines
against functions and against `Mealy`; the tracer; array strategies with
proofs; the Verilog emitter in lockstep; the Circom emitter against a prover;
the kernel macro with the integer types and the packing; arrays named by the
caller of the Verilog emitter; the release script with proofs; the proof that
composition keeps netlists sound and types aligned and denotes the composed
function; type soundness of the testbench and of the tracer; that the library's
machines, and what the composition functions make of them, have the types this
soundness rests on;
that the kernel macro keeps netlists in order, refuses of what it promises to
lift only lets of more than a name, and fits the signature it states; that every emitted module declares and
drives each net once.

What could come next: for the lockstep, that array blocks preserve `SameState`,
from the two delay line theorems, given operation by operation that Verilog's
value is the simulator's.
