------------------------- MODULE MCVerilogLockstep -------------------------
(***************************************************************************)
(* Instances of VerilogLockstep: the sample machines, and every machine of *)
(* two well-typed instructions over a state of two bits, a bit and a       *)
(* signed number; and chains of registers their caller groups into one     *)
(* array.  Threshold 2 makes the arrays of depth 2 shift registers *)
(* and those of depth 3 circular buffers.                                  *)
(***************************************************************************)
EXTENDS VerilogLockstep, SampleMachines

\* Wires 1 state, 2 and 3 data inputs.
Base == <<BitsTy(2), BitTy, SignedTy(2)>>

\* The well-typed instructions over wires of the given types.
Typed(tys) ==
  LET narrow == {w \in DOMAIN tys : tys[w] = BitTy}
      wide   == DOMAIN tys \ narrow
      Some(op, ins, ty) == [op |-> op, ins |-> ins, ty |-> ty]
  IN  {Some(NotOp, <<w>>, tys[w]) : w \in DOMAIN tys}
        \cup {Some(BinOp(b), <<v, w>>, BitsTy(2)) : b \in {"Add", "Sub", "Mul", "Xor"}, v \in wide, w \in wide}
        \cup {Some(BinOp(b), <<v, w>>, BitTy) : b \in {"And", "Or"}, v \in narrow, w \in narrow}
        \cup {Some(BinOp(b), <<v, w>>, BitTy) : b \in {"Eq", "Lt"}, v \in wide, w \in wide}
        \cup {Some(MuxOp, <<s, v, w>>, BitsTy(2)) : s \in narrow, v \in wide, w \in wide}
        \cup {Some(ConcatOp(1, 1), <<v, w>>, BitsTy(2)) : v \in narrow, w \in narrow}
        \cup {Some(SliceOp(k, k + 1), <<w>>, BitTy) : k \in {0, 1}, w \in wide}
        \cup {Some(SliceOp(0, 1), <<w>>, BitTy) : w \in narrow}
        \cup {Some(ConstOp(<<0, 1>>, BitsTy(2)), <<>>, BitsTy(2)), Some(RegOp(<<1, 1>>, BitsTy(2)), <<1>>, BitsTy(2))}

\* Wires 4 and 5 are the instructions' outputs.  The last wide wire is the
\* next state, the last wire the data output.
Grow(f, s) ==
  LET g == WithInstructions(WithWires(EmptyGraph, Base \o <<f.ty, s.ty>>),
             <<Instr(f.op, f.ins, 4), Instr(s.op, s.ins, 5)>>)
      next == IF s.ty # BitTy THEN 5 ELSE IF f.ty # BitTy THEN 4 ELSE 1
  IN  FromRaw(g, <<1, 2, 3>>, <<next, 5>>, <<1, 0>>, 1)

Grown == UNION {{Grow(f, s) : s \in Typed(Append(Base, f.ty))} : f \in Typed(Base)}

\* A delay line of two bits that holds when its enable, wire 2, is low.
\* Wires: 1 array, 2 enable, 3 input, 4 shifted, 5 next, 6 tail.
GatedDelay ==
  FromRaw(WithInstructions(WithWires(EmptyGraph,
              <<ArrayTy(1, 2), BitTy, BitTy, ArrayTy(1, 2), ArrayTy(1, 2), BitTy>>),
            <<Instr(ShiftInOp(1, 2), <<1, 3>>, 4), Instr(MuxOp, <<2, 1, 4>>, 5),
              Instr(TailOp(1, 2), <<1>>, 6)>>),
          <<1, 2, 3>>, <<5, 6>>, <<0>>, 1)

Unassisted(ms) == {[machine |-> m, specs |-> <<>>] : m \in ms}

Gated == Unassisted({GatedDelay})

\* A data output that is also a data input would be two ports of one name.
HandsInputThrough(m) == ToSet(DataIn(m)) \cap ToSet(DataOut(m)) # {}

\* Wire 1 toggles; the registers, wires 2 to depth + 1, hold v and shift the
\* data input, wire depth + 2, towards the last of them.  Wire copy repeats
\* the last one.
Chain(v, depth, copied, circular) ==
  LET n       == Len(v)
      ty      == IF n = 1 THEN BitTy ELSE BitsTy(n)
      last    == depth + 1
      in      == depth + 2
      next(i) == in + i
      toggle  == 2 * depth + 3
      copy    == toggle + 1
      Move(from, to) == Instr(SliceOp(0, n), <<from>>, to)
      g == WithInstructions(
             WithWires(EmptyGraph, <<BitTy>> \o Replicate(<<ty>>, 2 * depth + 1) \o <<BitTy, ty>>),
             <<Instr(NotOp, <<1>>, toggle)>>
               \o [i \in 1..depth |-> Move(IF i = 1 THEN in ELSE i, next(i))]
               \o <<Move(last, copy)>>)
  IN  [machine |-> FromRaw(g, [k \in 1..in |-> k],
                           <<toggle>> \o [i \in 1..depth |-> next(i)] \o <<IF copied THEN copy ELSE last>>,
                           <<0>> \o Replicate(v, depth), 1 + depth),
       specs |-> <<StateArraySpec(WireCount(g) + 1, 2, depth, n, next(1), v, circular)>>]

\* Elements of more than a bit only where the tail is a port: elsewhere its net
\* has one bit.
Chains ==
  {Chain(<<1>>, depth, TRUE, c) : depth \in {1, 2, 3}, c \in BOOLEAN}
    \cup {Chain(<<0, 1>>, depth, FALSE, c) : depth \in {2, 3}, c \in BOOLEAN}

Emittable ==
  Unassisted({m \in {Build(t) : t \in WellBuilt} : ~HandsInputThrough(m)} \cup Grown) \cup Chains
=============================================================================
