-------------------------- MODULE InterpRun_proofs -------------------------
(***************************************************************************)
(* What the interpreter's fold establishes for every graph a client can    *)
(* build, every pool of operations and every call.  The operations stay    *)
(* opaque: all that matters of them is which errors they return.           *)
(***************************************************************************)
EXTENDS InterpRun, Interp_proofs

Instrs == [op : Ops, ins : Seq(Ids), out : Ids]

\* What is true before the call: nothing has been computed yet.
NotStarted ==
  status \in {"building", "TypeMismatch"} => call = NoCall /\ pc = 1 /\ env = <<>>

\* What the instructions executed so far read was there to be read.
OrderedSoFar ==
  /\ status \in {"running", "done"} => \A i \in 1..(pc - 1) : Ordered(i)
  /\ status = "done" => pc = Len(graph.instrs) + 1
  /\ status = "UndefinedSignal" => ~Ordered(pc)
  /\ status \in {"WidthMismatch", "Panic"} /\ Len(call.ws) = Len(call.vs) => Ordered(pc)

\* The environment is a function, and a write-once graph never drives an input.
InputsKept ==
  status \in {"running", "done"} =>
    /\ Len(call.ws) = Len(call.vs)
    /\ env = [w \in DOMAIN env |-> env[w]]
    /\ WriteOnce =>
         \A w \in Driven(graph, call.ws) :
           env[w] = InputEnv(graph, call.ws, call.vs)[w]

IInv ==
  TypeOK /\ NotStarted /\ DefinedExactly /\ OrderedSoFar /\ InputsKept /\ Settled

---------------------------------------------------------------------------
(* Operations and one instruction *)

LEMMA WhenErr ==
  ASSUME NEW c, NEW v
  PROVE  When(c, v).err \in {"none", "WidthMismatch"}
  BY DEF When, Ok, Fail

\* An operation never reports an undefined signal: only the lookup does.
LEMMA ApplyOpErr ==
  ASSUME NEW op \in Ops, NEW args
  PROVE  ApplyOp(op, args).err \in {"none", "WidthMismatch", "Panic"}
  <1>1. CASE op.op = "Not"
    BY <1>1 DEF ApplyOp, Ok
  <1>2. CASE op.op = "Bin"
    BY <1>2, WhenErr DEF ApplyOp, ApplyBin
  <1>3. CASE op.op = "Mux"
    BY <1>3 DEF ApplyOp, Ok
  <1>4. CASE op.op = "Const"
    BY <1>4 DEF ApplyOp, Ok
  <1>5. CASE op.op = "Reg"
    BY <1>5 DEF ApplyOp, Ok
  <1>6. CASE op.op = "Concat"
    BY <1>6, WhenErr DEF ApplyOp
  <1>7. CASE op.op = "Slice"
    BY <1>7, WhenErr DEF ApplyOp, ApplySlice, Fail
  <1>8. CASE op.op = "ArrayShiftIn"
    BY <1>8, WhenErr DEF ApplyOp, ApplyShiftIn, Fail
  <1>9. CASE op.op = "ArrayTail"
    BY <1>9, WhenErr DEF ApplyOp, ApplyTail, Fail
  <1> QED
    BY <1>1, <1>2, <1>3, <1>4, <1>5, <1>6, <1>7, <1>8, <1>9, OpsAssumption

\* The three outcomes of one instruction.
LEMMA StepCases ==
  ASSUME NEW g, NEW e, NEW instr, instr.op \in Ops
  PROVE  LET s == StepInstruction(g, e, instr)
             r == ApplyOp(instr.op, Operands(e, instr))
         IN  \/ ~Readable(e, instr) /\ s.err = "UndefinedSignal"
             \/ Readable(e, instr) /\ s.err \in {"WidthMismatch", "Panic"}
             \/ /\ Readable(e, instr) /\ r.err = "none" /\ s.err = "none"
                /\ s.val = Update(g, e, instr.out, r.val)
  <1> DEFINE s == StepInstruction(g, e, instr)
             r == ApplyOp(instr.op, Operands(e, instr))
  <1>1. CASE ~Readable(e, instr)
    <2>1. s = Fail("UndefinedSignal")
      BY <1>1 DEF StepInstruction
    <2> QED BY <1>1, <2>1 DEF Fail
  <1>2. CASE Readable(e, instr) /\ r.err # "none"
    <2>1. s = r
      BY <1>2 DEF StepInstruction
    <2>2. r.err \in {"WidthMismatch", "Panic"}
      BY <1>2, ApplyOpErr
    <2> QED BY <1>2, <2>1, <2>2
  <1>3. CASE Readable(e, instr) /\ r.err = "none"
    <2>1. s = Ok(Update(g, e, instr.out, r.val))
      BY <1>3 DEF StepInstruction
    <2> QED BY <1>3, <2>1 DEF Ok
  <1> QED BY <1>1, <1>2, <1>3

\* Writing a wire makes it defined, if it exists, and leaves the others alone.
LEMMA UpdateEffect ==
  ASSUME NEW w, NEW v, env' = Update(graph, env, w, v)
  PROVE  /\ DOMAIN env' = DOMAIN env \cup ({w} \cap Wires(graph))
         /\ \A x \in DOMAIN env \ {w} : env'[x] = env[x]
         /\ w \in Wires(graph) => env'[w] = v
  <1>1. CASE w \in Wires(graph)
    BY <1>1 DEF Update
  <1>2. CASE w \notin Wires(graph)
    BY <1>2 DEF Update
  <1> QED BY <1>1, <1>2

---------------------------------------------------------------------------
(* The steps *)

LEMMA InitIInv == Init => IInv
  <1> SUFFICES ASSUME Init PROVE IInv
    OBVIOUS
  <1>1. /\ graph = [wires |-> <<>>, instrs |-> <<>>]
        /\ call = NoCall /\ pc = 1 /\ env = <<>> /\ status = "building"
    BY DEF Init, EmptyGraph
  <1>2. TypeOK
    <2>1. <<>> \in Seq({BitTy}) /\ <<>> \in Seq(Instrs) /\ Len(<<>>) = 0
      OBVIOUS
    <2>2. graph \in [wires : Seq({BitTy}), instrs : Seq(Instrs)]
      BY <1>1, <2>1
    <2>3. pc \in 1..(Len(graph.instrs) + 1)
      BY <1>1, <2>1
    <2>4. DOMAIN env \subseteq Wires(graph)
      BY <1>1
    <2> QED BY <1>1, <2>2, <2>3, <2>4 DEF TypeOK, Statuses, Instrs
  <1> QED BY <1>1, <1>2 DEF IInv, NotStarted, DefinedExactly, OrderedSoFar, InputsKept, Settled

LEMMA AddWireIInv == ASSUME IInv, AddWire PROVE IInv'
  <1>1. /\ status = "building" /\ UNCHANGED <<call, pc, env, status>>
        /\ graph' = [graph EXCEPT !.wires = Append(@, BitTy)]
    BY DEF AddWire, WithWire
  <1>2. graph \in [wires : Seq({BitTy}), instrs : Seq(Instrs)]
    BY DEF IInv, TypeOK, Instrs
  <1>3. /\ graph' \in [wires : Seq({BitTy}), instrs : Seq(Instrs)]
        /\ graph'.instrs = graph.instrs
    BY <1>1, <1>2
  <1>4. env = <<>> /\ DOMAIN env = {}
    BY <1>1 DEF IInv, NotStarted
  <1>5. TypeOK'
    BY <1>1, <1>3, <1>4 DEF IInv, TypeOK, Instrs
  <1> QED BY <1>1, <1>5 DEF IInv, NotStarted, DefinedExactly, OrderedSoFar, InputsKept, Settled

LEMMA AddInstructionIInv ==
  ASSUME IInv, NEW op \in Ops, NEW n \in 0..3, NEW out \in Ids, NEW ins \in [1..n -> Ids],
         AddInstruction(op, ins, out)
  PROVE  IInv'
  <1>1. status = "building" /\ UNCHANGED <<call, pc, env>>
    BY DEF AddInstruction
  <1>2. graph \in [wires : Seq({BitTy}), instrs : Seq(Instrs)]
    BY DEF IInv, TypeOK, Instrs
  <1>3. call = NoCall /\ pc = 1 /\ env = <<>> /\ DOMAIN env = {}
    BY <1>1 DEF IInv, NotStarted
  <1>4. CASE Accepts(op, ins)
    <2>1. status' = status /\ graph' = WithInstruction(graph, op, ins, out)
      BY <1>4 DEF AddInstruction
    <2>2. Instr(op, ins, out) \in Instrs
      <3>1. ins \in Seq(Ids)
        OBVIOUS
      <3> QED BY <3>1 DEF Instr, Instrs
    <2>3. /\ graph' \in [wires : Seq({BitTy}), instrs : Seq(Instrs)]
          /\ Len(graph'.instrs) = Len(graph.instrs) + 1
      <3> DEFINE longer == Append(graph.instrs, Instr(op, ins, out))
      <3>1. longer \in Seq(Instrs) /\ Len(longer) = Len(graph.instrs) + 1
        BY <1>2, <2>2
      <3>2. graph' = [graph EXCEPT !.instrs = longer]
        BY <2>1 DEF WithInstruction
      <3> HIDE DEF longer
      <3> QED BY <1>2, <3>1, <3>2
    <2>4. TypeOK'
      <3>1. pc' \in 1..(Len(graph'.instrs) + 1)
        BY <1>1, <1>2, <1>3, <2>3
      <3>2. DOMAIN env' \subseteq Wires(graph')
        BY <1>1, <1>3
      <3> QED BY <1>1, <2>1, <2>3, <3>1, <3>2 DEF IInv, TypeOK, Instrs
    <2> QED BY <1>1, <1>3, <2>1, <2>4
        DEF IInv, NotStarted, DefinedExactly, OrderedSoFar, InputsKept, Settled
  <1>5. CASE ~Accepts(op, ins)
    <2>1. status' = "TypeMismatch" /\ graph' = graph
      BY <1>5 DEF AddInstruction
    <2>2. TypeOK'
      BY <1>1, <2>1 DEF IInv, TypeOK, Statuses, Wires, WireCount
    <2> QED BY <1>1, <1>3, <2>1, <2>2
        DEF IInv, NotStarted, DefinedExactly, OrderedSoFar, InputsKept, Settled
  <1> QED BY <1>4, <1>5

LEMMA StartIInv == ASSUME IInv, NEW c \in Calls, Start(c) PROVE IInv'
  <1>1. status = "building" /\ UNCHANGED <<graph, pc>> /\ call' = c
    BY DEF Start
  <1>2. pc = 1 /\ pc' = 1 /\ env = <<>> /\ DOMAIN env = {}
    BY <1>1 DEF IInv, NotStarted
  <1>3. Outs(pc - 1) = {} /\ Outs(pc - 1)' = {}
    BY <1>1, <1>2 DEF Outs
  <1>4. CASE Len(c.ws) = Len(c.vs)
    <2>1. status' = "running" /\ env' = InputEnv(graph, c.ws, c.vs)
      BY <1>4 DEF Start
    <2>2. DOMAIN env' = Driven(graph, c.ws) /\ Driven(graph, c.ws) \subseteq Wires(graph)
      BY <2>1 DEF InputEnv, Driven
    <2>3. TypeOK'
      BY <1>1, <2>1, <2>2 DEF IInv, TypeOK, Statuses, Wires, WireCount
    <2>4. DefinedExactly'
      BY <1>1, <1>3, <2>1, <2>2 DEF DefinedExactly, Wires, WireCount, Driven
    <2>5. InputsKept'
      <3>1. env' = [w \in Driven(graph, c.ws) |-> InputEnv(graph, c.ws, c.vs)[w]]
        BY <2>1 DEF InputEnv
      <3>2. InputEnv(graph, c.ws, c.vs)' = InputEnv(graph, c.ws, c.vs)
        BY <1>1 DEF InputEnv, FirstAt, Driven, Wires, WireCount
      <3>3. env' = [w \in DOMAIN env' |-> env'[w]]
        BY <3>1
      <3>4. InputEnv(graph', call'.ws, call'.vs) = env'
        BY <1>1, <2>1
      <3> QED BY <1>1, <1>4, <3>3, <3>4 DEF InputsKept
    <2> QED BY <1>1, <1>2, <2>1, <2>3, <2>4, <2>5
        DEF IInv, NotStarted, OrderedSoFar, Settled
  <1>5. CASE Len(c.ws) # Len(c.vs)
    <2>1. status' = "WidthMismatch" /\ env' = env
      BY <1>5 DEF Start
    <2>2. TypeOK'
      BY <1>1, <1>2, <2>1 DEF IInv, TypeOK, Statuses, Wires, WireCount
    <2> QED BY <1>1, <1>5, <2>1, <2>2
        DEF IInv, NotStarted, DefinedExactly, OrderedSoFar, InputsKept, Settled
  <1> QED BY <1>4, <1>5

LEMMA FinishIInv == ASSUME IInv, Finish PROVE IInv'
  <1>1. /\ status = "running" /\ status' = "done" /\ UNCHANGED <<graph, call, pc, env>>
        /\ pc > Len(graph.instrs)
    BY DEF Finish
  <1>2. pc = Len(graph.instrs) + 1
    BY <1>1 DEF IInv, TypeOK
  <1>3. TypeOK'
    BY <1>1 DEF IInv, TypeOK, Statuses, Wires, WireCount
  <1>4. DefinedExactly' /\ NotStarted'
    BY <1>1 DEF IInv, DefinedExactly, NotStarted, Outs, Driven, Wires, WireCount
  <1>5. OrderedSoFar'
    <2>1. \A i : Ordered(i)' = Ordered(i)
      BY <1>1 DEF Ordered, Reads, Outs, Driven, Wires, WireCount
    <2> QED BY <1>1, <1>2, <2>1 DEF IInv, OrderedSoFar
  <1>7. InputsKept'
    <2>1. WriteOnce' = WriteOnce
      BY <1>1 DEF WriteOnce, Reads, Driven, Wires, WireCount
    <2> QED BY <1>1, <2>1 DEF IInv, InputsKept
  <1>6. Settled'
    <2>1. WriteOnce' = WriteOnce
      BY <1>1 DEF WriteOnce, Reads, Driven, Wires, WireCount
    <2>2. \A i : SettledAt(i)' = SettledAt(i)
      BY <1>1 DEF SettledAt, Reads, Operands
    <2> QED BY <1>1, <2>1, <2>2 DEF IInv, Settled
  <1> QED BY <1>3, <1>4, <1>5, <1>6, <1>7 DEF IInv

\* Where the fold stands when it executes an instruction.
LEMMA AtInstruction ==
  ASSUME IInv, status = "running", pc <= Len(graph.instrs)
  PROVE  /\ pc \in Nat \ {0} /\ pc \in DOMAIN graph.instrs
         /\ graph.instrs[pc] \in Instrs
         /\ DOMAIN env = Driven(graph, call.ws) \cup (Outs(pc - 1) \cap Wires(graph))
         /\ Readable(env, graph.instrs[pc]) <=> Reads(pc) \subseteq DOMAIN env
  <1>1. graph.instrs \in Seq(Instrs) /\ pc \in 1..(Len(graph.instrs) + 1)
    BY DEF IInv, TypeOK, Instrs
  <1>2. pc \in Nat \ {0} /\ pc \in DOMAIN graph.instrs /\ graph.instrs[pc] \in Instrs
    BY <1>1
  <1>3. DOMAIN env = Driven(graph, call.ws) \cup (Outs(pc - 1) \cap Wires(graph))
    BY DEF IInv, DefinedExactly
  <1>4. Readable(env, graph.instrs[pc]) <=> Reads(pc) \subseteq DOMAIN env
    BY DEF Readable, Reads
  <1> QED BY <1>2, <1>3, <1>4

\* An instruction that succeeds and, of a write-once graph, leaves every value
\* the earlier ones saw as it was.
LEMMA ExecuteOkIInv ==
  ASSUME IInv, status = "running", pc <= Len(graph.instrs),
         UNCHANGED <<graph, call, status>>, pc' = pc + 1,
         Readable(env, graph.instrs[pc]),
         ApplyOp(graph.instrs[pc].op, Operands(env, graph.instrs[pc])).err = "none",
         env' = Update(graph, env, graph.instrs[pc].out,
                       ApplyOp(graph.instrs[pc].op, Operands(env, graph.instrs[pc])).val)
  PROVE  IInv'
  <1> DEFINE instr == graph.instrs[pc]
             value == ApplyOp(instr.op, Operands(env, instr)).val
  <1>1. /\ pc \in Nat \ {0} /\ pc \in DOMAIN graph.instrs /\ instr \in Instrs
        /\ DOMAIN env = Driven(graph, call.ws) \cup (Outs(pc - 1) \cap Wires(graph))
        /\ Reads(pc) \subseteq DOMAIN env
    BY AtInstruction
  <1>2. /\ DOMAIN env' = DOMAIN env \cup ({instr.out} \cap Wires(graph))
        /\ \A x \in DOMAIN env \ {instr.out} : env'[x] = env[x]
        /\ instr.out \in Wires(graph) => env'[instr.out] = value
    BY UpdateEffect
  <1>3. Outs(pc) = Outs(pc - 1) \cup {instr.out}
    BY <1>1 DEF Outs
  <1>4. TypeOK'
    <2>1. pc' \in 1..(Len(graph'.instrs) + 1)
      BY DEF IInv, TypeOK
    <2>2. DOMAIN env' \subseteq Wires(graph')
      BY <1>2 DEF IInv, TypeOK, Wires, WireCount
    <2> QED BY <2>1, <2>2 DEF IInv, TypeOK
  <1>5. DefinedExactly' /\ NotStarted'
    <2>1. Outs(pc - 1)' = Outs(pc)
      <3>1. pc' - 1 = pc
        BY <1>1
      <3> QED BY <3>1 DEF Outs
    <2>2. DOMAIN env' = Driven(graph, call.ws) \cup (Outs(pc) \cap Wires(graph))
      BY <1>1, <1>2, <1>3
    <2> QED BY <2>1, <2>2 DEF DefinedExactly, NotStarted, Driven, Wires, WireCount
  <1>6. OrderedSoFar'
    <2>1. \A i : Ordered(i)' = Ordered(i)
      BY DEF Ordered, Reads, Outs, Driven, Wires, WireCount
    <2>2. Ordered(pc)
      BY <1>1 DEF Ordered
    <2>3. \A i \in 1..(pc - 1) : Ordered(i)
      BY DEF IInv, OrderedSoFar
    <2>4. \A i \in 1..(pc' - 1) : Ordered(i)'
      BY <1>1, <2>1, <2>2, <2>3
    <2> QED BY <2>4 DEF OrderedSoFar
  <1>7. Settled'
    <2> SUFFICES ASSUME WriteOnce, NEW i \in 1..pc PROVE SettledAt(i)'
      <3>1. WriteOnce' = WriteOnce
        BY DEF WriteOnce, Reads, Driven, Wires, WireCount
      <3> QED BY <1>1, <3>1 DEF Settled
    <2>1. /\ instr.out \in Wires(graph)
          /\ instr.out \notin Reads(i)
          /\ i # pc => instr.out # graph.instrs[i].out
      BY <1>1 DEF WriteOnce
    <2>2. Reads(i) \subseteq DOMAIN env
      <3>1. CASE i = pc
        BY <1>1, <3>1
      <3>2. CASE i # pc
        BY <1>1, <3>2 DEF IInv, Settled, SettledAt
      <3> QED BY <3>1, <3>2
    <2>3. Operands(env', graph.instrs[i]) = Operands(env, graph.instrs[i])
      BY <1>2, <2>1, <2>2 DEF Operands, Reads
    <2>4. Reads(i)' \subseteq DOMAIN env'
      BY <1>2, <2>2 DEF Reads
    <2>5. CASE i = pc
      BY <1>2, <2>1, <2>3, <2>4, <2>5 DEF SettledAt
    <2>6. CASE i # pc
      <3>1. SettledAt(i)
        BY <1>1, <2>6 DEF IInv, Settled
      <3>2. graph.instrs[i].out \in DOMAIN env' /\ env'[graph.instrs[i].out] = env[graph.instrs[i].out]
        BY <1>2, <2>1, <2>6, <3>1 DEF SettledAt
      <3> QED BY <2>3, <2>4, <3>1, <3>2 DEF SettledAt
    <2> QED BY <2>5, <2>6
  <1>8. InputsKept'
    <2>1. WriteOnce' = WriteOnce
      BY DEF WriteOnce, Reads, Driven, Wires, WireCount
    <2>2. env' = [w \in DOMAIN env' |-> env'[w]]
      <3>1. env = [w \in DOMAIN env |-> env[w]]
        BY DEF IInv, InputsKept
      <3> QED BY <3>1 DEF Update
    <2>3. ASSUME WriteOnce, NEW w \in Driven(graph, call.ws)
          PROVE  env'[w] = InputEnv(graph, call.ws, call.vs)[w]
      <3>1. w # instr.out /\ w \in DOMAIN env
        BY <1>1, <2>3 DEF WriteOnce
      <3>2. env'[w] = env[w]
        BY <1>2, <3>1
      <3> QED BY <2>3, <3>2 DEF IInv, InputsKept
    <2>4. Len(call'.ws) = Len(call'.vs)
      BY DEF IInv, InputsKept
    <2> QED BY <2>1, <2>2, <2>3, <2>4 DEF InputsKept
  <1> QED BY <1>4, <1>5, <1>6, <1>7, <1>8 DEF IInv

\* An instruction that fails ends the fold where it stands.
LEMMA ExecuteErrIInv ==
  ASSUME IInv, status = "running", pc <= Len(graph.instrs),
         UNCHANGED <<graph, call, pc, env>>,
         \/ status' = "UndefinedSignal" /\ ~Readable(env, graph.instrs[pc])
         \/ status' \in {"WidthMismatch", "Panic"} /\ Readable(env, graph.instrs[pc])
  PROVE  IInv'
  <1>1. /\ DOMAIN env = Driven(graph, call.ws) \cup (Outs(pc - 1) \cap Wires(graph))
        /\ Readable(env, graph.instrs[pc]) <=> Reads(pc) \subseteq DOMAIN env
    BY AtInstruction
  <1>2. Readable(env, graph.instrs[pc]) <=> Ordered(pc)
    BY <1>1 DEF Ordered
  <1>3. Ordered(pc)' = Ordered(pc)
    BY DEF Ordered, Reads, Outs, Driven, Wires, WireCount
  <1>4. OrderedSoFar'
    BY <1>2, <1>3 DEF OrderedSoFar
  <1>5. TypeOK'
    BY DEF IInv, TypeOK, Statuses, Wires, WireCount
  <1> QED BY <1>4, <1>5 DEF IInv, NotStarted, DefinedExactly, InputsKept, Settled

LEMMA ExecuteIInv == ASSUME IInv, Execute PROVE IInv'
  <1> DEFINE instr == graph.instrs[pc]
             s == StepInstruction(graph, env, instr)
             r == ApplyOp(instr.op, Operands(env, instr))
  <1>1. status = "running" /\ pc <= Len(graph.instrs) /\ UNCHANGED <<graph, call>>
    BY DEF Execute
  <1>2. instr.op \in Ops
    BY <1>1, AtInstruction DEF Instrs
  <1>3. CASE ~Readable(env, instr) /\ s.err = "UndefinedSignal"
    <2>1. status' = "UndefinedSignal" /\ UNCHANGED <<env, pc>>
      BY <1>3 DEF Execute
    <2> QED BY <1>1, <1>3, <2>1, ExecuteErrIInv
  <1>4. CASE Readable(env, instr) /\ s.err \in {"WidthMismatch", "Panic"}
    <2>1. status' \in {"WidthMismatch", "Panic"} /\ UNCHANGED <<env, pc>>
      BY <1>4 DEF Execute
    <2> QED BY <1>1, <1>4, <2>1, ExecuteErrIInv
  <1>5. CASE /\ Readable(env, instr) /\ r.err = "none" /\ s.err = "none"
             /\ s.val = Update(graph, env, instr.out, r.val)
    <2>1. env' = s.val /\ pc' = pc + 1 /\ UNCHANGED status
      BY <1>5 DEF Execute
    <2> QED BY <1>1, <1>5, <2>1, ExecuteOkIInv
  <1> QED BY <1>2, <1>3, <1>4, <1>5, StepCases

LEMMA StepIInv == IInv /\ [Next]_vars => IInv'
  <1> SUFFICES ASSUME IInv, [Next]_vars PROVE IInv'
    OBVIOUS
  <1>1. CASE AddWire
    BY <1>1, AddWireIInv
  <1>2. ASSUME NEW op \in Ops, NEW n \in 0..3, NEW out \in Ids, NEW ins \in [1..n -> Ids],
               AddInstruction(op, ins, out)
        PROVE  IInv'
    BY <1>2, AddInstructionIInv
  <1>3. ASSUME NEW c \in Calls, Start(c) PROVE IInv'
    BY <1>3, StartIInv
  <1>4. CASE Execute
    BY <1>4, ExecuteIInv
  <1>5. CASE Finish
    BY <1>5, FinishIInv
  <1>6. CASE UNCHANGED vars
    <2>1. \A i : Ordered(i)' = Ordered(i) /\ SettledAt(i)' = SettledAt(i)
      BY <1>6 DEF vars, Ordered, SettledAt, Operands, Reads, Outs, Driven, Wires, WireCount
    <2>2. WriteOnce' = WriteOnce
      BY <1>6 DEF vars, WriteOnce, Reads, Driven, Wires, WireCount
    <2>3. TypeOK' /\ NotStarted' /\ DefinedExactly'
      BY <1>6 DEF vars, IInv, TypeOK, NotStarted, DefinedExactly, Outs, Driven, Wires, WireCount
    <2>4. InputsKept'
      BY <1>6, <2>2 DEF vars, IInv, InputsKept
    <2> QED BY <1>6, <2>1, <2>2, <2>3, <2>4 DEF vars, IInv, OrderedSoFar, Settled
  <1> QED BY <1>1, <1>2, <1>3, <1>4, <1>5, <1>6 DEF Next

LEMMA AlwaysIInv == Spec => []IInv
  BY InitIInv, StepIInv, PTL DEF Spec

---------------------------------------------------------------------------
(* Theorems *)

\* The type invariant, whatever graph was built and however it was called.
THEOREM TypeCorrect == Spec => []TypeOK
  <1>1. IInv => TypeOK
    BY DEF IInv
  <1> QED BY <1>1, AlwaysIInv, PTL

\* The wires that can be read are the inputs and what has been executed.
THEOREM EnvironmentIsExact == Spec => []DefinedExactly
  <1>1. IInv => DefinedExactly
    BY DEF IInv
  <1> QED BY <1>1, AlwaysIInv, PTL

\* The fold over the instruction list solves the equations of a write-once
\* graph: each wire has the value its instruction gives the wires it reads.
THEOREM FoldSolvesEquations == Spec => []Settled
  <1>1. IInv => Settled
    BY DEF IInv
  <1> QED BY <1>1, AlwaysIInv, PTL

\* An undefined signal is the fault of the order of the instructions, never of
\* a value, and every fault of the order that is reached is reported.
THEOREM UndefinedIsStructural == Spec => []UndefinedIffUnordered
  <1>1. IInv => UndefinedIffUnordered
    <2> SUFFICES ASSUME IInv PROVE UndefinedIffUnordered
      OBVIOUS
    <2>1. ASSUME status = "done", NEW i \in DOMAIN graph.instrs PROVE Ordered(i)
      <3>1. graph.instrs \in Seq(Instrs) /\ pc = Len(graph.instrs) + 1
        BY <2>1 DEF IInv, TypeOK, OrderedSoFar, Instrs
      <3>2. i \in 1..(pc - 1)
        BY <3>1
      <3> QED BY <2>1, <3>2 DEF IInv, OrderedSoFar
    <2> QED BY <2>1 DEF UndefinedIffUnordered, IInv, OrderedSoFar
  <1> QED BY <1>1, AlwaysIInv, PTL

Kept ==
  status = "running" =>
    /\ DOMAIN env \subseteq DOMAIN env'
    /\ WriteOnce => \A w \in DOMAIN env : env'[w] = env[w]

\* While the fold runs no wire loses its value, and none changes it when no
\* wire is driven twice.
THEOREM ValuesAreKept == Spec => NeverRetracted
  <1>1. IInv /\ [Next]_vars => [Kept]_vars
    <2> SUFFICES ASSUME IInv, Next, status = "running"
                 PROVE  /\ DOMAIN env \subseteq DOMAIN env'
                        /\ WriteOnce => \A w \in DOMAIN env : env'[w] = env[w]
      BY DEF Kept
    <2>1. Execute \/ Finish
      BY DEF Next, AddWire, AddInstruction, Start
    <2>2. CASE UNCHANGED env
      BY <2>2
    <2>3. CASE env' # env
      <3> DEFINE instr == graph.instrs[pc]
                 s == StepInstruction(graph, env, instr)
                 r == ApplyOp(instr.op, Operands(env, instr))
      <3>1. pc <= Len(graph.instrs) /\ s.err = "none" /\ env' = s.val
        BY <2>1, <2>3 DEF Execute, Finish
      <3>2. /\ pc \in Nat \ {0} /\ pc \in DOMAIN graph.instrs /\ instr.op \in Ops
            /\ DOMAIN env = Driven(graph, call.ws) \cup (Outs(pc - 1) \cap Wires(graph))
        BY <3>1, AtInstruction DEF Instrs
      <3>3. s.val = Update(graph, env, instr.out, r.val)
        BY <3>1, <3>2, StepCases
      <3>4. /\ DOMAIN env' = DOMAIN env \cup ({instr.out} \cap Wires(graph))
            /\ \A x \in DOMAIN env \ {instr.out} : env'[x] = env[x]
        BY <3>1, <3>3, UpdateEffect
      <3>5. WriteOnce => instr.out \notin DOMAIN env
        BY <3>2 DEF WriteOnce, Outs
      <3> QED BY <3>4, <3>5
    <2> QED BY <2>2, <2>3
  <1>2. Spec => [][Kept]_vars
    BY <1>1, AlwaysIInv, PTL DEF Spec
  <1> QED BY <1>2 DEF Kept, NeverRetracted

---------------------------------------------------------------------------
(* The order of the instructions *)

\* After k instructions of a reordered list the fold has either failed on a
\* wire it has no value for yet, or holds env's values and no others.
Agrees(r, p, k) ==
  \/ r.err = "UndefinedSignal"
  \/ /\ r.err = "none"
     /\ r = Ok(r.val)
     /\ r.val = [w \in DOMAIN r.val |-> r.val[w]]
     /\ DOMAIN r.val = Driven(graph, call.ws) \cup {graph.instrs[p[i]].out : i \in 1..k}
     /\ \A w \in DOMAIN r.val : r.val[w] = env[w]

\* The state interpret returns in, of a write-once graph.
Returned == IInv /\ status = "done" /\ WriteOnce

LEMMA AtReturn ==
  ASSUME Returned
  PROVE  /\ Len(graph.instrs) \in Nat /\ DOMAIN graph.instrs = 1..Len(graph.instrs)
         /\ DOMAIN env = Driven(graph, call.ws) \cup Outs(Len(graph.instrs))
         /\ env = [w \in DOMAIN env |-> env[w]]
         /\ \A i \in DOMAIN graph.instrs : SettledAt(i)
  <1>1. graph.instrs \in Seq(Instrs) /\ pc = Len(graph.instrs) + 1
    BY DEF Returned, IInv, TypeOK, OrderedSoFar, Instrs
  <1>2. Len(graph.instrs) \in Nat /\ DOMAIN graph.instrs = 1..Len(graph.instrs)
    BY <1>1
  <1>3. pc - 1 = Len(graph.instrs)
    BY <1>1, <1>2
  <1>4. Outs(Len(graph.instrs)) \subseteq Wires(graph)
    BY <1>2 DEF Returned, WriteOnce, Outs
  <1>5. DOMAIN env = Driven(graph, call.ws) \cup Outs(Len(graph.instrs))
    BY <1>3, <1>4 DEF Returned, IInv, DefinedExactly
  <1>6. \A i \in DOMAIN graph.instrs : SettledAt(i)
    BY <1>2, <1>3 DEF Returned, IInv, Settled
  <1> QED BY <1>2, <1>5, <1>6 DEF Returned, IInv, InputsKept

\* One more instruction of the reordered list.
LEMMA AgreesStep ==
  ASSUME Returned,
         NEW n, n = Len(graph.instrs),
         NEW p \in [1..n -> 1..n],
         NEW other, other.wires = graph.wires,
         NEW k \in 1..n, other.instrs[k] = graph.instrs[p[k]],
         NEW r, Agrees(r, p, k - 1), NEW s, Follows(other, r, k, s)
  PROVE  Agrees(s, p, k)
  <1> DEFINE instr == graph.instrs[p[k]]
             v == ApplyOp(instr.op, Operands(r.val, instr))
  <1>1. CASE r.err = "UndefinedSignal"
    BY <1>1 DEF Agrees, Follows
  <1>2. CASE r.err = "none"
    <2>1. s = StepInstruction(other, r.val, instr)
      BY <1>2 DEF Follows
    <2>2. CASE ~Readable(r.val, instr)
      BY <2>1, <2>2 DEF StepInstruction, Fail, Agrees
    <2>3. CASE Readable(r.val, instr)
      <3>1. p[k] \in DOMAIN graph.instrs /\ SettledAt(p[k]) /\ instr.out \in Wires(graph)
        BY AtReturn DEF Returned, WriteOnce
      <3>2. /\ DOMAIN r.val = Driven(graph, call.ws) \cup {graph.instrs[p[i]].out : i \in 1..(k - 1)}
            /\ \A w \in DOMAIN r.val : r.val[w] = env[w]
        BY <1>2 DEF Agrees
      <3>3. Operands(r.val, instr) = Operands(env, instr)
        BY <2>3, <3>2 DEF Operands, Readable
      <3>4. v.err = "none" /\ v.val = env[instr.out]
        BY <3>1, <3>3 DEF SettledAt
      <3>5. instr.out \in Wires(other)
        BY <3>1 DEF Wires, WireCount
      <3> DEFINE e == [x \in DOMAIN r.val \cup {instr.out} |->
                         IF x = instr.out THEN v.val ELSE r.val[x]]
      <3>6. s = Ok(e)
        <4>1. Update(other, r.val, instr.out, v.val) = e
          BY <3>5 DEF Update
        <4> HIDE DEF e
        <4> QED BY <2>1, <2>3, <3>4, <4>1 DEF StepInstruction
      <3>7. \A w \in DOMAIN e : e[w] = env[w]
        BY <3>2, <3>4
      <3>8. DOMAIN e = Driven(graph, call.ws) \cup {graph.instrs[p[i]].out : i \in 1..k}
        <4>1. {graph.instrs[p[i]].out : i \in 1..k}
                = {graph.instrs[p[i]].out : i \in 1..(k - 1)} \cup {instr.out}
          <5>1. 1..k = 1..(k - 1) \cup {k}
            BY AtReturn
          <5> QED BY <5>1
        <4> QED BY <3>2, <4>1
      <3>9. e = [w \in DOMAIN e |-> e[w]]
        OBVIOUS
      <3> HIDE DEF e
      <3>10. s.err = "none" /\ s.val = e
        BY <3>6 DEF Ok
      <3> QED BY <3>6, <3>7, <3>8, <3>9, <3>10 DEF Agrees
    <2> QED BY <2>2, <2>3
  <1> QED BY <1>1, <1>2 DEF Agrees

\* Before the first instruction there are the inputs, as the call gave them.
LEMMA AgreesFirst ==
  ASSUME Returned, NEW p, NEW other, other.wires = graph.wires
  PROVE  Agrees(Ok(InputEnv(other, call.ws, call.vs)), p, 0)
  <1> DEFINE e == InputEnv(graph, call.ws, call.vs)
  <1>1. InputEnv(other, call.ws, call.vs) = e
    BY DEF InputEnv, Driven, Wires, WireCount
  <1>2. DOMAIN e = Driven(graph, call.ws) /\ e = [w \in DOMAIN e |-> e[w]]
    BY DEF InputEnv
  <1>3. \A w \in DOMAIN e : e[w] = env[w]
    BY <1>2 DEF Returned, IInv, InputsKept
  <1>4. {graph.instrs[p[i]].out : i \in 1..0} = {}
    OBVIOUS
  <1> HIDE DEF e
  <1>5. Ok(e).err = "none" /\ Ok(e).val = e
    BY DEF Ok
  <1> QED BY <1>1, <1>2, <1>3, <1>4, <1>5 DEF Agrees

\* The graph with its instructions in the order p gives.
IsReorder(other, p) ==
  /\ other.wires = graph.wires
  /\ Len(other.instrs) = Len(graph.instrs)
  /\ \A k \in 1..Len(graph.instrs) : other.instrs[k] = graph.instrs[p[k]]

UndefinedOrEnv(r) == r.err = "UndefinedSignal" \/ r = Ok(env)

\* What the whole reordered list computes.
LEMMA Reordered ==
  ASSUME Returned,
         NEW n, n = Len(graph.instrs),
         NEW p \in [1..n -> 1..n], \A i \in 1..n : \E j \in 1..n : p[j] = i,
         NEW other, IsReorder(other, p)
  PROVE  UndefinedOrEnv(Interpret(other, call.ws, call.vs))
  <1> DEFINE r == Interpret(other, call.ws, call.vs)
  <1>1. /\ other.wires = graph.wires /\ Len(other.instrs) = n
        /\ \A k \in 1..n : other.instrs[k] = graph.instrs[p[k]]
    BY DEF IsReorder
  <1>2. n \in Nat /\ Len(call.ws) = Len(call.vs)
    BY AtReturn DEF Returned, IInv, InputsKept
  <1>3. PICK f : IsFold(other, call.ws, call.vs, n, f) /\ r = f[n]
    <2> DEFINE ws == call.ws
               vs == call.vs
    <2>1. Len(other.instrs) \in Nat /\ Len(ws) = Len(vs)
      BY <1>1, <1>2
    <2> HIDE DEF ws, vs
    <2>2. \E f : /\ IsFold(other, ws, vs, Len(other.instrs), f)
                 /\ Interpret(other, ws, vs) = f[Len(other.instrs)]
      BY <2>1, InterpretFolds
    <2> QED BY <2>2, <1>1 DEF ws, vs
  <1>4. /\ f[0] = Ok(InputEnv(other, call.ws, call.vs))
        /\ \A k \in 1..n : Follows(other, f[k - 1], k, f[k])
    BY <1>2, <1>3, FoldSteps
  <1> DEFINE P == {k \in 0..n : Agrees(f[k], p, k)}
  <1>5. 0 \in P
    BY <1>1, <1>2, <1>4, AgreesFirst
  <1>6. ASSUME NEW m \in 0..(n - 1), m \in P PROVE m + 1 \in P
    <2> DEFINE k == m + 1
    <2>1. k \in 1..n /\ k - 1 = m /\ Agrees(f[k - 1], p, k - 1)
      BY <1>2, <1>6
    <2> HIDE DEF k
    <2>2. Agrees(f[k], p, k)
      BY <2>1, <1>1, <1>4, AgreesStep
    <2> QED BY <2>1, <2>2 DEF k
  <1>7. n \in P
    <2> HIDE DEF P
    <2>1. \A m \in 0..n : m \in P
      BY <1>2, <1>5, <1>6, CountingUp
    <2> QED BY <2>1, <1>2
  <1>8. Agrees(r, p, n)
    BY <1>3, <1>7
  <1>9. {graph.instrs[p[i]].out : i \in 1..n} = Outs(n)
    BY DEF Outs
  <1>10. CASE r.err = "none"
    <2>1. DOMAIN r.val = DOMAIN env
      BY <1>8, <1>9, <1>10, AtReturn DEF Agrees
    <2>2. r.val = env
      <3>1. r.val = [w \in DOMAIN env |-> env[w]]
        BY <1>8, <1>10, <2>1 DEF Agrees
      <3> QED BY <3>1, AtReturn
    <2> QED BY <1>8, <1>10, <2>2 DEF Agrees, UndefinedOrEnv
  <1> QED BY <1>8, <1>10 DEF Agrees, UndefinedOrEnv

\* Whatever write-once graph was built and however its instructions are put in
\* order, interpret either stops at a wire without a value or computes the
\* same environment: nothing is lost by storing the instructions as a list.
THEOREM OrderNeverMatters == Spec => []OrderIrrelevant
  <1>1. IInv => OrderIrrelevant
    <2> SUFFICES ASSUME IInv, status = "done", WriteOnce,
                        NEW p \in Bijection(DOMAIN graph.instrs, DOMAIN graph.instrs)
                 PROVE  LET other == [graph EXCEPT !.instrs = [i \in DOMAIN @ |-> @[p[i]]]]
                            r == Interpret(other, call.ws, call.vs)
                        IN  r.err = "UndefinedSignal" \/ r = Ok(env)
      BY DEF OrderIrrelevant
    <2> DEFINE n == Len(graph.instrs)
               permuted == [i \in 1..n |-> graph.instrs[p[i]]]
               other == [graph EXCEPT !.instrs = [i \in DOMAIN @ |-> @[p[i]]]]
               r == Interpret(other, call.ws, call.vs)
    <2>1. Returned
      BY DEF Returned
    <2>2. n \in Nat /\ DOMAIN graph.instrs = 1..n
      BY <2>1, AtReturn
    <2>3. p \in [1..n -> 1..n] /\ \A i \in 1..n : \E j \in 1..n : p[j] = i
      BY <2>2 DEF Bijection, Injection, Surjection
    <2>4. other.wires = graph.wires /\ other.instrs = permuted
      BY <2>2 DEF IInv, TypeOK
    <2>5. Len(permuted) = n
      <3>1. graph.instrs \in Seq(Instrs)
        BY DEF IInv, TypeOK, Instrs
      <3>2. \A i \in 1..n : graph.instrs[p[i]] \in Instrs
        BY <2>2, <2>3, <3>1
      <3>3. permuted \in [1..n -> Instrs]
        BY <3>2
      <3> HIDE DEF permuted
      <3> QED BY <2>2, <3>3, FunctionIsSeq
    <2>6. IsReorder(other, p)
      BY <2>2, <2>4, <2>5 DEF IsReorder
    <2>7. UndefinedOrEnv(r)
      <3> HIDE DEF other
      <3> QED BY <2>1, <2>3, <2>6, Reordered
    <2> QED BY <2>7 DEF UndefinedOrEnv
  <1> QED BY <1>1, AlwaysIInv, PTL
=============================================================================
