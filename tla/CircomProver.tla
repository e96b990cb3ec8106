---------------------------- MODULE CircomProver ----------------------------
(***************************************************************************)
(* An emitted template and a prover that looks for a witness: values for   *)
(* its signals, in a prime field, that satisfy every statement.  The       *)
(* prover is not bound to the machine.  A signal that no statement         *)
(* computes (an input, and whatever the emitter forgot) gets any value it  *)
(* likes, and so do the outputs of a component as far as the component's   *)
(* own constraints allow.  Statements are equations: their order in the    *)
(* template only decides which of those that can be solved is next.        *)
(*                                                                         *)
(* The field, the components (circomlib) and the prover are external.      *)
(***************************************************************************)
EXTENDS CircomEmit, FiniteSets, TLC

CONSTANTS
  Cases,          \* what is emitted: names of machines, and how
  MachineOf(_),   \* the machine of a case
  FieldPrime,     \* the field is 0..FieldPrime - 1
  FieldMaxBits,   \* Field::max_bits
  Guesses         \* bound: values the prover tries for a signal nothing computes

ASSUME FieldAssumption ==
  /\ FieldPrime \in Nat \ {0, 1}
  /\ FieldMaxBits \in Nat
  /\ 2^FieldMaxBits < FieldPrime
  /\ Guesses \subseteq 0..FieldPrime - 1

VARIABLES
  case,      \* what is emitted
  template,  \* the emitted template, as the prover sees it
  status,    \* "new", "proving", "accepted", "rejected" or an emitter's error
  witness,   \* the values found so far, by signal
  todo       \* positions of the statements not yet satisfied

vars == <<case, template, status, witness, todo>>

Emit(c) ==
  LET m == MachineOf(c)
  IN  IF c.emitter = "plain"
      THEN BuildTemplate(m.graph, m.inputs, m.outputs, c.publics)
      ELSE BuildUnrolled(m, c.cycles)

---------------------------------------------------------------------------
(* What a statement says *)

RECURSIVE Value(_, _)
Value(expr, wit) ==
  CASE expr.e = "Signal"   -> wit[expr.s]
    [] expr.e = "Literal"  -> expr.v % FieldPrime
    [] expr.e = "Add"      -> (Value(expr.a, wit) + Value(expr.b, wit)) % FieldPrime
    [] expr.e = "Sub"      -> (Value(expr.a, wit) - Value(expr.b, wit)) % FieldPrime
    [] expr.e = "Mul"      -> (Value(expr.a, wit) * Value(expr.b, wit)) % FieldPrime
    [] expr.e = "Bits2Num" ->
         LET sum[i \in 0..Len(expr.bits)] ==
               IF i = 0 THEN 0
               ELSE (sum[i - 1] + Coefficient(i - 1) * wit[expr.bits[i]]) % FieldPrime
         IN  sum[Len(expr.bits)]

RECURSIVE SignalsIn(_)
SignalsIn(expr) ==
  CASE expr.e = "Signal"   -> {expr.s}
    [] expr.e = "Literal"  -> {}
    [] expr.e = "Bits2Num" -> ToSet(expr.bits)
    [] OTHER               -> SignalsIn(expr.a) \cup SignalsIn(expr.b)

Reads(stmt) ==
  IF stmt.s = "Component" THEN UNION {SignalsIn(stmt.ins[j]) : j \in DOMAIN stmt.ins}
  ELSE SignalsIn(stmt.rhs)

Outputs(stmt) ==
  [i \in 1..(IF stmt.template = "Num2Bits" THEN stmt.n ELSE 1) |->
     ComponentSignal(stmt.w, stmt.k, i - 1)]

Targets(stmt) ==
  CASE stmt.s = "Assign"     -> {stmt.lhs}
    [] stmt.s = "Constraint" -> {}
    [] stmt.s = "Component"  -> ToSet(Outputs(stmt))

\* Num2Bits(n): n bits that spell v.  There are two answers if the field is
\* too small, and none if v is too large.
Decompositions(n, v) == {bits \in BitSeq(n) : ToNat(bits) % FieldPrime = v}

\* IsEqual compares field elements.  LessThan(n) reads the sign of a biased
\* difference off bit n.
ComponentValues(stmt, wit) ==
  LET in(j) == Value(stmt.ins[j], wit)
  IN  CASE stmt.template = "Num2Bits" -> Decompositions(stmt.n, in(1))
        [] stmt.template = "IsEqual"  -> {<<IF in(1) = in(2) THEN 1 ELSE 0>>}
        [] stmt.template = "LessThan" ->
             {<<1 - bits[stmt.n + 1]>> :
                bits \in Decompositions(stmt.n + 1, (in(1) + 2^stmt.n - in(2)) % FieldPrime)}

\* The values of the statement's targets that satisfy it.
Solutions(stmt, wit) ==
  CASE stmt.s = "Assign"     -> {stmt.lhs :> Value(stmt.rhs, wit)}
    [] stmt.s = "Constraint" -> IF Value(stmt.rhs, wit) = 0 THEN {<<>>} ELSE {}
    [] stmt.s = "Component"  ->
         {[s \in Targets(stmt) |-> bits[s[4] + 1]] : bits \in ComponentValues(stmt, wit)}

---------------------------------------------------------------------------
(* What the prover works with *)

M == MachineOf(case)

SignalsOf(g, ports) == UNION {Bundle(g, p[1], p[2]) : p \in ports}

\* A template with what each statement reads, the signals that count (a wire
\* left dangling by a composition is declared and does not), and those of them
\* that no statement computes.
View(t, g) ==
  LET reads == [i \in DOMAIN t.body |-> Reads(t.body[i])]
      used  == UNION {reads[i] : i \in DOMAIN t.body}
                 \cup SignalsOf(g, ToSet(t.inputs) \cup ToSet(t.outputs))
  IN  t @@ [reads |-> reads, used |-> used,
            free  |-> used \ UNION {Targets(t.body[i]) : i \in DOMAIN t.body}]

\* The first statement all of whose operands are known.
FirstReady == CHOOSE i \in todo : template.reads[i] \subseteq DOMAIN witness

IsStuck == \A i \in todo : ~(template.reads[i] \subseteq DOMAIN witness)

\* A solution keeps the values that are there already.
Agreeing(i) ==
  {ext \in Solutions(template.body[i], witness) :
     \A s \in DOMAIN ext \cap DOMAIN witness : ext[s] = witness[s]}

---------------------------------------------------------------------------

Init ==
  /\ case \in Cases
  /\ template = <<>>
  /\ status = "new"
  /\ witness = <<>>
  /\ todo = {}

EmitTemplate ==
  /\ status = "new"
  /\ LET r == Emit(case)
     IN  IF r.err = "none"
         THEN /\ template' = View(r.val, M.graph)
              /\ status' = "proving"
              /\ todo' = DOMAIN r.val.body
         ELSE /\ status' = r.err
              /\ UNCHANGED <<template, todo>>
  /\ UNCHANGED <<case, witness>>

Solve ==
  /\ status = "proving"
  /\ ~IsStuck
  /\ \E ext \in Agreeing(FirstReady) :
       /\ witness' = ext @@ witness
       /\ todo' = todo \ {FirstReady}
  /\ UNCHANGED <<case, template, status>>

\* The next statement cannot be satisfied.
Refuse ==
  /\ status = "proving"
  /\ ~IsStuck
  /\ Agreeing(FirstReady) = {}
  /\ status' = "rejected"
  /\ UNCHANGED <<case, template, witness, todo>>

Guess ==
  /\ status = "proving"
  /\ IsStuck
  /\ template.free \ DOMAIN witness # {}
  /\ \E v \in Guesses :
       witness' = ((CHOOSE s \in template.free : s \notin DOMAIN witness) :> v) @@ witness
  /\ UNCHANGED <<case, template, status, todo>>

Accept ==
  /\ status = "proving"
  /\ todo = {}
  /\ template.free \subseteq DOMAIN witness
  /\ status' = "accepted"
  /\ UNCHANGED <<case, template, witness, todo>>

Next == EmitTemplate \/ Solve \/ Refuse \/ Guess \/ Accept

Spec == Init /\ [][Next]_vars

---------------------------------------------------------------------------
(* Properties *)

Cycles == IF case.emitter = "plain" THEN 1 ELSE case.cycles

\* The value of a wire's bits in a cycle, and of several wires end to end.
WireBits(w, k) == [i \in 1..WireStorage(M.graph, w) |-> witness[Signal(w, k, i - 1)]]

WiresBits(ws, k) == FlattenSeq([j \in DOMAIN ws |-> WireBits(ws[j], k)])

\* The bits of the input ports, and of everything declared.
InputSignals == SignalsOf(M.graph, ToSet(template.inputs))

Declared ==
  SignalsOf(M.graph, ToSet(template.inputs) \cup ToSet(template.outputs) \cup template.intermediates)

\* Soundness.  A witness the template accepts has bits on its inputs, starts
\* in the machine's initial state, and is in each cycle what the testbench
\* computes from that cycle's state and input, with the next state handed on.
\* No choice of the prover makes it prove anything else.
OnlyTheRun ==
  status = "accepted" =>
    /\ \A s \in InputSignals : witness[s] \in Bit
    /\ WiresBits(StateIn(M), 0) = InitialBits(M).val
    /\ \A k \in 0..Cycles - 1 :
         LET r == RunCycle(M, WiresBits(StateIn(M), k), WiresBits(DataIn(M), k))
         IN  /\ r.err = "none"
             /\ WiresBits(NextState(M), k) = r.val.next
             /\ WiresBits(DataOut(M), k) = r.val.sample
    /\ \A k \in 1..Cycles - 1 : WiresBits(StateIn(M), k) = WiresBits(NextState(M), k - 1)

\* Completeness.  The template refuses a witness only for an input that is no
\* bit: whatever bits the machine is driven with, its run can be proved.
EveryRunProvable ==
  status = "rejected" => \E s \in InputSignals \cap DOMAIN witness : witness[s] \notin Bit

\* A template Circom compiles: no port is listed twice, statements name
\* declared signals, the inputs are computed by no statement and everything
\* else that is read or shown by exactly one.
SignalsWired ==
  (status = "proving" /\ todo = DOMAIN template.body) =>
    LET t == template
        at(s) == {i \in DOMAIN t.body : s \in Targets(t.body[i])}
        components == UNION {Targets(t.body[i]) : i \in {j \in DOMAIN t.body : t.body[j].s = "Component"}}
    IN  /\ Cardinality(ToSet(t.inputs \o t.outputs)) = Len(t.inputs \o t.outputs)
        /\ template.free = InputSignals
        /\ \A s \in template.used \ template.free : Cardinality(at(s)) = 1
        /\ \A i \in DOMAIN t.body :
             template.reads[i] \cup Targets(t.body[i]) \subseteq Declared \cup components

\* No witness decomposes a number of more bits than Field::max_bits allows
\* (ast.rs:31-34).
WithinFieldBudget ==
  status = "accepted" =>
    \A i \in DOMAIN template.body :
      (template.body[i].s = "Component" /\ template.body[i].template = "Num2Bits") =>
        ToNat([j \in DOMAIN Outputs(template.body[i]) |-> witness[Outputs(template.body[i])[j]]]) < 2^FieldMaxBits
=============================================================================
