----------------------------- MODULE InterpRun -----------------------------
(***************************************************************************)
(* A client of HdlGraphBuilder builds any graph, then calls interpret on   *)
(* it, and the interpreter runs it instruction by instruction.  The        *)
(* builder refuses nothing but a wrong number of operands, so the graphs   *)
(* include those that drive a wire twice, read a wire before it is driven, *)
(* drive an input, or name a wire that does not exist.  The interpreter    *)
(* never looks at a wire's type, so every wire is declared a single bit.   *)
(***************************************************************************)
EXTENDS Interp

CONSTANTS
  Ops,        \* the operations the client may use
  Calls,      \* the calls it may make: input wires and their values
  MaxWires,   \* bound: declared wires, and the wire ids the client names
  MaxInstrs   \* bound: instructions

ASSUME BoundsAssumption == MaxWires \in Nat /\ MaxInstrs \in Nat

ASSUME OpsAssumption ==
  \A op \in Ops : op.op \in {"Not", "Bin", "Mux", "Const", "Reg", "Concat", "Slice",
                            "ArrayShiftIn", "ArrayTail"}

ASSUME CallsAssumption == Calls \subseteq [ws : Seq(Nat), vs : Seq(Seq(Bit))]

VARIABLES
  graph,   \* the builder's graph, then the graph being interpreted
  call,    \* the arguments of the call to interpret
  pc,      \* the instruction the fold is at
  env,     \* the values computed so far
  status   \* "building", "running", "done" or the error returned

vars == <<graph, call, pc, env, status>>

Ids == 1..MaxWires

NoCall == [ws |-> <<>>, vs |-> <<>>]

Init ==
  /\ graph = EmptyGraph
  /\ call = NoCall
  /\ pc = 1
  /\ env = <<>>
  /\ status = "building"

AddWire ==
  /\ status = "building"
  /\ WireCount(graph) < MaxWires
  /\ graph' = WithWire(graph, BitTy)
  /\ UNCHANGED <<call, pc, env, status>>

\* with_instruction: appended, or the builder is lost to a TypeMismatch.
AddInstruction(op, ins, out) ==
  /\ status = "building"
  /\ Len(graph.instrs) < MaxInstrs
  /\ IF Accepts(op, ins)
     THEN graph' = WithInstruction(graph, op, ins, out) /\ UNCHANGED status
     ELSE status' = "TypeMismatch" /\ UNCHANGED graph
  /\ UNCHANGED <<call, pc, env>>

Start(c) ==
  /\ status = "building"
  /\ call' = c
  /\ IF Len(c.ws) = Len(c.vs)
     THEN env' = InputEnv(graph, c.ws, c.vs) /\ status' = "running"
     ELSE UNCHANGED env /\ status' = "WidthMismatch"
  /\ UNCHANGED <<graph, pc>>

\* An error that is noticed but not returned.
ExecuteIgnoringErrors ==
  /\ status = "running"
  /\ pc <= Len(graph.instrs)
  /\ LET r == StepInstruction(graph, env, graph.instrs[pc])
     IN  /\ env' = IF r.err = "none" THEN r.val ELSE env
         /\ pc' = IF r.err = "none" THEN pc + 1 ELSE pc
  /\ UNCHANGED <<graph, call, status>>

Execute ==
  /\ status = "running"
  /\ pc <= Len(graph.instrs)
  /\ LET r == StepInstruction(graph, env, graph.instrs[pc])
     IN  IF r.err = "none"
         THEN env' = r.val /\ pc' = pc + 1 /\ UNCHANGED status
         ELSE status' = r.err /\ UNCHANGED <<env, pc>>
  /\ UNCHANGED <<graph, call>>

Finish ==
  /\ status = "running"
  /\ pc > Len(graph.instrs)
  /\ status' = "done"
  /\ UNCHANGED <<graph, call, pc, env>>

Next ==
  \/ AddWire
  \/ \E op \in Ops, n \in 0..3, out \in Ids :
       \E ins \in [1..n -> Ids] : AddInstruction(op, ins, out)
  \/ \E c \in Calls : Start(c)
  \/ Execute
  \/ Finish

Spec == Init /\ [][Next]_vars

\* interpret is one fold: once called it runs until it returns.
FairSpec == Spec /\ WF_vars(Execute) /\ WF_vars(Finish)

---------------------------------------------------------------------------
(* Shapes of graphs *)

Outs(k) == {graph.instrs[i].out : i \in 1..k}

Reads(i) == {graph.instrs[i].ins[k] : k \in DOMAIN graph.instrs[i].ins}

\* Instruction i reads only inputs and what earlier instructions drive.
Ordered(i) ==
  Reads(i) \subseteq Driven(graph, call.ws) \cup (Outs(i - 1) \cap Wires(graph))

\* Each instruction drives a wire of the graph that is no input and that no
\* instruction before it, nor itself, has driven or read: the graphs whose
\* instruction list can be read as one set of concurrent assignments.
WriteOnce ==
  \A j \in DOMAIN graph.instrs :
    LET w == graph.instrs[j].out
    IN  /\ w \in Wires(graph) \ Driven(graph, call.ws)
        /\ \A i \in 1..j : w \notin Reads(i)
        /\ \A i \in 1..(j - 1) : w # graph.instrs[i].out

---------------------------------------------------------------------------
(* Properties *)

Statuses == {"building", "running", "done", "TypeMismatch",
             "UndefinedSignal", "WidthMismatch", "Panic"}

\* The types of the variables.
TypeOK ==
  /\ graph \in [wires : Seq({BitTy}), instrs : Seq([op : Ops, ins : Seq(Ids), out : Ids])]
  /\ call \in Calls \cup {NoCall}
  /\ pc \in 1..(Len(graph.instrs) + 1)
  /\ DOMAIN env \subseteq Wires(graph)
  /\ status \in Statuses

\* interpret keeps exactly the given inputs and the outputs of the
\* instructions it has executed: a wire never becomes readable in any other
\* way (interp.rs:41-48, 65-74).
DefinedExactly ==
  status \in {"running", "done"} =>
    DOMAIN env = Driven(graph, call.ws) \cup (Outs(pc - 1) \cap Wires(graph))

\* When interpret returns, the environment satisfies every instruction of a
\* write-once graph at once: the sequential fold means what the emitters of
\* concurrent assignments and of constraints take the graph to mean.
SettledAt(i) ==
  LET instr == graph.instrs[i]
      r == ApplyOp(instr.op, Operands(env, instr))
  IN  /\ instr.out \in DOMAIN env
      /\ Reads(i) \subseteq DOMAIN env
      /\ r.err = "none"
      /\ r.val = env[instr.out]

Settled ==
  status \in {"running", "done"} /\ WriteOnce =>
    \A i \in 1..(pc - 1) : SettledAt(i)

\* UndefinedSignal is a property of the graph's shape, never of the data: it
\* is returned exactly when an instruction that is reached reads a wire that
\* is no input and that no earlier instruction drives (interp.rs:77-83).
UndefinedIffUnordered ==
  /\ status = "done" => \A i \in DOMAIN graph.instrs : Ordered(i)
  /\ status = "UndefinedSignal" => ~Ordered(pc)
  /\ status \in {"WidthMismatch", "Panic"} /\ Len(call.ws) = Len(call.vs) => Ordered(pc)

\* Any other order of a write-once graph's instructions that runs to the end
\* computes the same environment: what merging and re-emitting graphs relies
\* on when it copies instruction lists one after the other.
OrderIrrelevant ==
  status = "done" /\ WriteOnce =>
    \A p \in Bijection(DOMAIN graph.instrs, DOMAIN graph.instrs) :
      LET other == [graph EXCEPT !.instrs = [i \in DOMAIN @ |-> @[p[i]]]]
          r == Interpret(other, call.ws, call.vs)
      IN  r.err = "UndefinedSignal" \/ r = Ok(env)

\* While interpret runs, a wire that has a value never loses it, and in a
\* write-once graph never changes it.
NeverRetracted ==
  [][status = "running" =>
       /\ DOMAIN env \subseteq DOMAIN env'
       /\ WriteOnce => \A w \in DOMAIN env : env'[w] = env[w]]_vars

\* A call to interpret returns, with an environment or an error.
CallReturns == status = "running" ~> status \notin {"building", "running"}
=============================================================================
