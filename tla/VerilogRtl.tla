----------------------------- MODULE VerilogRtl ----------------------------
(***************************************************************************)
(* What an emitted module means to a Verilog simulator or a synthesis      *)
(* tool: the part of the language the emitter uses, external to this       *)
(* repository.  A design is a module emitted for a graph, and the widths   *)
(* its wires have in it.  Every vector is unsigned; expressions have a width of  *)
(* their own and are evaluated in that of the context they appear in.      *)
(*                                                                         *)
(* The state s of a design is what its registers, arrays and pointers      *)
(* hold; in maps its input ports to values.                                *)
(***************************************************************************)
EXTENDS VerilogEmit, ArrayBlocks

Larger(a, b) == IF a < b THEN b ELSE a

Declared(v) ==
  {v.ports[k].w : k \in DOMAIN v.ports} \cup {v.regs[k] : k \in DOMAIN v.regs} \cup v.nets

\* A width of 0 or 1 is rendered without a range: a scalar.  A wire that only
\* an assign mentions is declared by it, as a net of one bit.
WidthsOf(g, v) ==
  [w \in Wires(g) |-> IF w \in Declared(v) THEN Larger(1, WireWidth(g, w)) ELSE 1]

Design(g, v) == [module |-> v, widths |-> WidthsOf(g, v)]

DeclWidth(d, w) == d.widths[w]

ArrayNamed(d, w) == CHOOSE k \in DOMAIN d.module.arrays : d.module.arrays[k].w = w

SelfWidth(d, x) ==
  LET n(w) == DeclWidth(d, w)
  IN  CASE x.e = "Wire"    -> n(x.w)
        [] x.e = "Literal" -> x.width
        [] x.e = "Not"     -> n(x.a)
        [] x.e = "Binary"  -> IF x.bin \in {"Eq", "Lt"} THEN 1 ELSE Larger(n(x.a), n(x.b))
        [] x.e = "Mux"     -> Larger(n(x.f), n(x.t))
        [] x.e = "Concat"  -> n(x.high) + n(x.low)
        [] x.e = "Slice"   -> Larger(x.hi, 1) - x.lo
        [] x.e = "ArrayIndex" -> d.module.arrays[ArrayNamed(d, x.w)].width

Drivers(d, w) == {k \in DOMAIN d.module.assigns : d.module.assigns[k].lhs = w}

Registers(d) == {d.module.ffs[k].w : k \in DOMAIN d.module.ffs}

InPorts(d) ==
  LET ports == d.module.ports
  IN  {ports[k].w : k \in {j \in DOMAIN ports : ports[j].dir = "Input"}}

Oldest(d, s, w) ==
  LET a == d.module.arrays[ArrayNamed(d, w)]
  IN  IF a.circular THEN s.arr[w][s.ptr[w]] ELSE s.arr[w][a.depth - 1]

\* x in a context of n bits, n at least its own width.  val maps the nets, in
\* widths that are no larger, to what they carry.
Value(d, s, val, x, n) ==
  CASE x.e = "Wire"    -> val[x.w]
    [] x.e = "Literal" -> x.value % 2^x.width
    [] x.e = "Not"     -> 2^n - 1 - val[x.a]
    [] x.e = "Mux"     -> IF val[x.s] # 0 THEN val[x.t] ELSE val[x.f]
    [] x.e = "Concat"  -> val[x.high] * 2^DeclWidth(d, x.low) + val[x.low]
    [] x.e = "Slice"   -> (val[x.a] \div 2^x.lo) % 2^(Larger(x.hi, 1) - x.lo)
    [] x.e = "ArrayIndex" -> Oldest(d, s, x.w)
    [] x.e = "Binary"  ->
         CASE x.bin = "Add" -> (val[x.a] + val[x.b]) % 2^n
           [] x.bin = "Sub" -> (val[x.a] - val[x.b]) % 2^n
           [] x.bin = "Mul" -> (val[x.a] * val[x.b]) % 2^n
           [] x.bin = "Eq"  -> IF val[x.a] = val[x.b] THEN 1 ELSE 0
           [] x.bin = "Lt"  -> IF val[x.a] < val[x.b] THEN 1 ELSE 0
           [] OTHER         -> ToNat(BinValue(x.bin, FromNat(val[x.a], n), FromNat(val[x.b], n)))

\* A net without a driver floats; 0 stands for it, and EveryNetOnce says it
\* is never read.
NetValues(d, s, in) ==
  LET val[w \in DOMAIN d.widths] ==
        IF w \in InPorts(d) THEN in[w]
        ELSE IF w \in Registers(d) THEN s.reg[w]
        ELSE IF Drivers(d, w) = {} THEN 0
        ELSE LET rhs == d.module.assigns[Min(Drivers(d, w))].rhs
                 n == DeclWidth(d, w)
             IN  Value(d, s, val, rhs, Larger(n, SelfWidth(d, rhs))) % 2^n
  IN  val

NetValue(d, s, in, w) == NetValues(d, s, in)[w]

---------------------------------------------------------------------------
(* Clock edges.  Every always_ff assigns its register or its array on each *)
(* edge, and all of them read the values from before it.                   *)

Circular(d) ==
  LET arrays == d.module.arrays
  IN  {arrays[k].w : k \in {j \in DOMAIN arrays : arrays[j].circular}}

ArrayNames(d) == {d.module.arrays[k].w : k \in DOMAIN d.module.arrays}

Block(d, w) == d.module.ffs[CHOOSE k \in DOMAIN d.module.ffs : d.module.ffs[k].w = w]

Fit(d, w, v) == v % 2^DeclWidth(d, w)

\* rst high: nothing of the state before survives.
ResetState(d) ==
  [reg |-> [w \in Registers(d) |-> Fit(d, w, Block(d, w).reset)],
   arr |-> [w \in ArrayNames(d) |->
              LET a == d.module.arrays[ArrayNamed(d, w)]
              IN  [i \in 0..(a.depth - 1) |-> a.reset % 2^a.width]],
   ptr |-> [w \in Circular(d) |-> 0]]

\* rst low
Clocked(d, s, in) ==
  LET Fed(w) == LET a == d.module.arrays[ArrayNamed(d, w)]
                IN  NetValue(d, s, in, a.input) % 2^a.width
  IN  [reg |-> [w \in Registers(d) |-> Fit(d, w, NetValue(d, s, in, Block(d, w).next))],
       arr |-> [w \in ArrayNames(d) |->
                  IF w \in Circular(d) THEN Write(s.arr[w], s.ptr[w], Fed(w))
                  ELSE Shifted(s.arr[w], Fed(w))],
       ptr |-> [w \in Circular(d) |->
                  Advance(s.ptr[w], d.module.arrays[ArrayNamed(d, w)].depth)]]
=============================================================================
