----------------------------- MODULE CircuitCat ----------------------------
(***************************************************************************)
(* A client of hdl-cat-circuit grows one arrow out of generators with      *)
(* Circuit::comp and Circuit::tensor_map, on either side and in any order. *)
(* Rust's type checker admits a composition only when the objects agree,   *)
(* which is the guard here; nothing looks at the wires.  Beside the arrow, *)
(* the function it should denote is composed as a function.                *)
(***************************************************************************)
EXTENDS Circuits

CONSTANTS
  Gens,            \* names of generating arrows
  ArrowOf(_),      \* the arrow of a generator
  Dom(_), Cod(_),  \* its objects, as layouts
  Meaning(_, _),   \* the values on its outputs, of its name and input values
  MaxWires         \* bound: wires of the arrow

ASSUME MaxWiresAssumption == MaxWires \in Nat

\* As many wires at its ends as its objects have types.
Ends(a, d, c) ==
  /\ d \in Seq(Range(d)) /\ Len(d) = Len(a.inputs)
  /\ c \in Seq(Range(c)) /\ Len(c) = Len(a.outputs)

Types(wires, ws) == [k \in DOMAIN ws |-> wires[ws[k]]]

TypedEnds(a, d, c) ==
  Types(a.graph.wires, a.inputs) = d /\ Types(a.graph.wires, a.outputs) = c

\* The environment a's inputs v lead to fits its wires.
ValuesFit(a, v) ==
  LET env == Interpret(a.graph, a.inputs, v).val
  IN  \A w \in DOMAIN env : Len(env[w]) = Width(a.graph.wires[w])

Netlist(a) == Shaped(a) /\ SingleDriver(a) /\ ReadsInOrder(a)

\* Every arrow of the library, and every one from_raw_parts is meant for.
ASSUME GensAssumption ==
  \A h \in Gens : Netlist(ArrowOf(h)) /\ Ends(ArrowOf(h), Dom(h), Cod(h))

\* The values a layout's wires can have: one bit sequence per wire.
Values(layout) ==
  {Chunks(bits, [k \in DOMAIN layout |-> Width(layout[k])]) :
     bits \in BitSeq(Total([k \in DOMAIN layout |-> Width(layout[k])]))}

\* A generator means a function from the values of its domain to those of its
\* codomain, and no wire of either has a negative width.
ASSUME MeaningAssumption ==
  \A h \in Gens :
    /\ \A k \in DOMAIN Dom(h) : Width(Dom(h)[k]) \in Nat
    /\ \A k \in DOMAIN Cod(h) : Width(Cod(h)[k]) \in Nat
    /\ \A v \in Values(Dom(h)) : Meaning(h, v) \in Values(Cod(h))

VARIABLES
  arrow,     \* the arrow grown so far
  dom, cod,  \* its objects
  denoted    \* the function on values it stands for

vars == <<arrow, dom, cod, denoted>>

Fits(a) == WireCount(a.graph) <= MaxWires

Left(v, layout) == SubSeq(v, 1, Len(layout))

Right(v, layout) == SubSeq(v, Len(layout) + 1, Len(v))

Init ==
  \E h \in Gens :
    /\ arrow = ArrowOf(h)
    /\ dom = Dom(h)
    /\ cod = Cod(h)
    /\ denoted = [v \in Values(Dom(h)) |-> Meaning(h, v)]

\* comp(arrow, h)
Then(h) ==
  /\ Dom(h) = cod
  /\ Fits(Compose(arrow, ArrowOf(h)))
  /\ arrow' = Compose(arrow, ArrowOf(h))
  /\ cod' = Cod(h)
  /\ denoted' = [v \in Values(dom) |-> Meaning(h, denoted[v])]
  /\ UNCHANGED dom

\* comp(h, arrow)
After(h) ==
  /\ Cod(h) = dom
  /\ Fits(Compose(ArrowOf(h), arrow))
  /\ arrow' = Compose(ArrowOf(h), arrow)
  /\ dom' = Dom(h)
  /\ denoted' = [v \in Values(Dom(h)) |-> denoted[Meaning(h, v)]]
  /\ UNCHANGED cod

\* tensor_map(arrow, h)
Above(h) ==
  /\ Fits(Tensor(arrow, ArrowOf(h)))
  /\ arrow' = Tensor(arrow, ArrowOf(h))
  /\ dom' = dom \o Dom(h)
  /\ cod' = cod \o Cod(h)
  /\ denoted' = [v \in Values(dom \o Dom(h)) |->
                   denoted[Left(v, dom)] \o Meaning(h, Right(v, dom))]

\* tensor_map(h, arrow)
Below(h) ==
  /\ Fits(Tensor(ArrowOf(h), arrow))
  /\ arrow' = Tensor(ArrowOf(h), arrow)
  /\ dom' = Dom(h) \o dom
  /\ cod' = Cod(h) \o cod
  /\ denoted' = [v \in Values(Dom(h) \o dom) |->
                   Meaning(h, Left(v, Dom(h))) \o denoted[Right(v, Dom(h))]]

Next == \E h \in Gens : Then(h) \/ After(h) \/ Above(h) \/ Below(h)

Spec == Init /\ [][Next]_vars

---------------------------------------------------------------------------
(* Properties *)

\* Composition is composition: however an arrow was grown, interpreting it on
\* any values of its domain computes the function its parts compose to.
\* Associativity, the interchange law and the naturality of the braid are
\* instances: the arrows of both sides denote the same function
\* (category_impl.rs:35-60, README.md:91-92).
Denotes ==
  \A v \in DOMAIN denoted : Evaluate(arrow, v) = Ok(denoted[v])

\* No composition makes a wire driven by two instructions, or drives an input
\* wire: what a netlist of continuous assignments needs, and what
\* with_instruction never checks (builder.rs:46-67).
OneDriver == SingleDriver(arrow)

\* Nor does one read a wire before it is driven, or list an output nothing
\* drives: the interpreter runs instructions in the order they are stored and
\* fails on an unwritten wire (interp.rs:40-60), and emitters print that order.
InOrder == ReadsInOrder(arrow)

\* The wires an arrow names as its ends have the types of its objects, though
\* Rust's phantom types and the wires never meet (arrow.rs:72-75).
EndsTyped == TypedEnds(arrow, dom, cod)

\* Each value an arrow computes has the width of the wire it is put on: the
\* interpreter does not check it, and the emitters declare the wire's width.
ValuesFitWires ==
  \A v \in DOMAIN denoted : ValuesFit(arrow, v)
=============================================================================
