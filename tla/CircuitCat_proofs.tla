-------------------------- MODULE CircuitCat_proofs ------------------------
(***************************************************************************)
(* However an arrow is grown, of whatever generators with sound netlists,  *)
(* its netlist is sound: no wire has two drivers, no input is driven, and  *)
(* every instruction reads what is known before it.                        *)
(***************************************************************************)
EXTENDS CircuitCat, Interp_proofs

---------------------------------------------------------------------------
(* Merging sound netlists *)

\* a is f and g side by side, except that the inputs from of g are plugged into
\* the outputs to of f: composition plugs all of them, a tensor none.
Plugged(a, f, g, from, to) ==
  LET N == WireCount(f.graph)
  IN  /\ from \in Seq(Wires(g.graph)) /\ Range(from) \subseteq Range(g.inputs)
      /\ to \in Seq(Wires(f.graph)) /\ Range(to) \subseteq Range(f.outputs)
      /\ Len(from) = Len(to)
      /\ a.graph = MergeGraphs(f.graph, g.graph, from, to)
      /\ a.inputs \in Seq(Wires(a.graph)) /\ a.outputs \in Seq(Wires(a.graph))
      /\ Range(a.inputs) = Range(f.inputs) \cup {w + N : w \in Range(g.inputs) \ Range(from)}
      /\ Range(a.outputs) \subseteq Range(f.outputs)
                             \cup {Plug(from, to, N, w) : w \in Range(g.outputs)}

\* Two sound netlists stay sound, whichever inputs are plugged.
LEMMA MergedNetlist ==
  ASSUME NEW f, NEW g, NEW a, NEW from, NEW to,
         Netlist(f), Netlist(g), Plugged(a, f, g, from, to)
  PROVE  Netlist(a)
  <1> USE DEF Plugged
  <1> DEFINE N == WireCount(f.graph)
             M == WireCount(g.graph)
             fi == f.graph.instrs
             gi == g.graph.instrs
             ai == a.graph.instrs
             nf == Len(fi)
             ng == Len(gi)
             P(w) == Plug(from, to, N, w)
  <1>1. ShapedGraph(f.graph) /\ ShapedGraph(g.graph)
    BY DEF Netlist, Shaped, ShapedGraph
  <1>2. /\ N \in Nat /\ M \in Nat /\ nf \in Nat /\ ng \in Nat
        /\ WireCount(a.graph) = N + M
        /\ DOMAIN fi = 1..nf /\ DOMAIN gi = 1..ng /\ DOMAIN ai = 1..(nf + ng)
        /\ Len(ai) = nf + ng
        /\ \A i \in 1..nf : ai[i] = fi[i]
        /\ \A j \in 1..ng : /\ ai[nf + j].out = P(gi[j].out)
                            /\ ai[nf + j].ins = PlugAll(from, to, N, gi[j].ins)
        /\ ShapedGraph(a.graph)
    <2>1. IsMerge(a.graph, f.graph, g.graph, from, to)
      BY <1>1, Merged
    <2> QED BY <2>1 DEF IsMerge
  <1>3. from \in Seq(1..M) /\ to \in Seq(1..N)
    BY DEF Wires
  <1>4. ASSUME NEW w \in 1..M
        PROVE  /\ w \in Range(from) => P(w) \in Range(to)
               /\ w \notin Range(from) => P(w) = w + N
    BY <1>2, <1>3, PlugWire
  <1>5. \A j \in 1..ng : gi[j].ins \in Seq(1..M) /\ gi[j].out \in 1..M
    BY <1>1, <1>2 DEF ShapedGraph, Wires
  <1>6. /\ Range(f.inputs) \subseteq 1..N /\ Range(g.inputs) \subseteq 1..M
        /\ Range(g.outputs) \subseteq 1..M
    BY RangeOfSeq DEF Netlist, Shaped, Wires
  <1>7. /\ \A i \in 1..nf : fi[i].out \in (1..N) \ Range(f.inputs)
        /\ \A i, j \in 1..nf : fi[j].out = fi[i].out => i = j
        /\ \A i \in 1..ng : gi[i].out \in (1..M) \ Range(g.inputs)
        /\ \A i, j \in 1..ng : gi[j].out = gi[i].out => i = j
    BY <1>2 DEF Netlist, SingleDriver, Wires
  <1>8. /\ \A i \in 1..nf : Range(fi[i].ins) \subseteq Known(f, i)
        /\ \A i \in 1..ng : Range(gi[i].ins) \subseteq Known(g, i)
        /\ Range(f.outputs) \subseteq Known(f, nf + 1)
        /\ Range(g.outputs) \subseteq Known(g, ng + 1)
    BY <1>2 DEF Netlist, ReadsInOrder
  <1>9. \A j \in 1..ng : ai[nf + j].out = gi[j].out + N
    BY <1>2, <1>4, <1>5, <1>7
  <1> HIDE DEF N, M, fi, gi, ai, nf, ng, P
  <1>10. ASSUME NEW i \in 1..(nf + 1) PROVE Known(f, i) \subseteq Known(a, i)
    <2>1. \A k \in 1..(i - 1) : k \in 1..nf /\ ai[k] = fi[k]
      BY <1>2
    <2>2. {fi[k].out : k \in 1..(i - 1)} = {ai[k].out : k \in 1..(i - 1)}
      BY <2>1
    <2> QED BY <2>2 DEF Known, fi, ai
  <1>11. ASSUME NEW i \in 1..(nf + ng + 1), NEW j \in 1..i PROVE Known(a, j) \subseteq Known(a, i)
    <2>1. 1..(j - 1) \subseteq 1..(i - 1)
      BY <1>2
    <2> QED BY <2>1 DEF Known
  <1>12. ASSUME NEW j \in 1..(ng + 1) PROVE Range(f.outputs) \subseteq Known(a, nf + j)
    <2>1. nf + 1 \in 1..(nf + 1) /\ nf + j \in 1..(nf + ng + 1) /\ nf + 1 \in 1..(nf + j)
      BY <1>2
    <2> QED BY <2>1, <1>8, <1>10, <1>11
  <1>13. ASSUME NEW j \in 1..(ng + 1), NEW w \in Known(g, j)
         PROVE  w \in 1..M /\ P(w) \in Known(a, nf + j)
    <2>1. CASE w \in Range(from)
      <3>1. w \in 1..M /\ P(w) \in Range(to)
        BY <2>1, <1>4, <1>6
      <3> QED BY <3>1, <1>12
    <2>2. CASE w \notin Range(from) /\ w \in Range(g.inputs)
      <3>1. w \in 1..M /\ P(w) = w + N
        BY <2>2, <1>4, <1>6
      <3>2. P(w) \in Range(a.inputs)
        BY <3>1, <2>2 DEF N
      <3> QED BY <3>1, <3>2 DEF Known
    <2>3. CASE w \notin Range(g.inputs)
      <3>1. PICK k \in 1..(j - 1) : w = gi[k].out
        BY <2>3 DEF Known, gi
      <3>2. k \in 1..ng /\ nf + k \in 1..((nf + j) - 1)
        BY <1>2
      <3>3. w \in 1..M /\ P(w) = ai[nf + k].out
        BY <3>1, <3>2, <1>2, <1>5
      <3>4. ai[nf + k].out \in {ai[l].out : l \in 1..((nf + j) - 1)}
        BY <3>2
      <3> QED BY <3>3, <3>4 DEF Known, ai
    <2> QED BY <2>1, <2>2, <2>3
  <1>14. Shaped(a)
    BY <1>2 DEF Shaped, ShapedGraph
  <1>15. SingleDriver(a)
    <2>1. ASSUME NEW i \in 1..nf PROVE ai[i].out \in (1..N) \ Range(a.inputs)
      <3>1. ai[i].out = fi[i].out
        BY <1>2
      <3>2. \A w \in Range(g.inputs) : w + N \notin 1..N
        BY <1>2, <1>6
      <3> QED BY <3>1, <3>2, <1>7 DEF N
    <2>2. ASSUME NEW j \in 1..ng
          PROVE  ai[nf + j].out \in ((N + 1)..(N + M)) \ Range(a.inputs)
      <3>1. ai[nf + j].out = gi[j].out + N /\ gi[j].out \in 1..M
        BY <1>5, <1>9
      <3>2. gi[j].out + N \notin 1..N /\ gi[j].out + N \in (N + 1)..(N + M)
        BY <3>1, <1>2
      <3>3. ASSUME NEW w \in Range(g.inputs), w + N = gi[j].out + N PROVE FALSE
        <4>1. w \in 1..M /\ w = gi[j].out
          BY <3>1, <3>3, <1>2, <1>6
        <4> QED BY <4>1, <1>7
      <3> QED BY <3>1, <3>2, <3>3, <1>6 DEF N
    <2>3. ASSUME NEW i \in 1..(nf + ng), ~(i <= nf) PROVE \E j \in 1..ng : i = nf + j
      BY <1>2, <2>3, InSecondPart
    <2>4. ASSUME NEW i \in 1..(nf + ng) PROVE ai[i].out \in 1..(N + M) \ Range(a.inputs)
      <3>1. CASE i <= nf
        <4>1. i \in 1..nf
          BY <3>1, <1>2
        <4>2. ai[i].out \in 1..N /\ ai[i].out \notin Range(a.inputs)
          BY <4>1, <2>1
        <4> QED BY <4>2, <1>2
      <3>2. CASE ~(i <= nf)
        <4>1. PICK j \in 1..ng : i = nf + j
          BY <3>2, <2>3
        <4>2. ai[i].out \in (N + 1)..(N + M) /\ ai[i].out \notin Range(a.inputs)
          BY <4>1, <2>2
        <4> QED BY <4>2, <1>2
      <3> QED BY <3>1, <3>2
    <2>5. ASSUME NEW i \in 1..(nf + ng), NEW j \in 1..(nf + ng), ai[j].out = ai[i].out
          PROVE  i = j
      <3>1. CASE i <= nf /\ j <= nf
        <4>1. i \in 1..nf /\ j \in 1..nf
          BY <3>1, <1>2
        <4> QED BY <4>1, <2>5, <1>2, <1>7
      <3>2. CASE ~(i <= nf) /\ ~(j <= nf)
        <4>1. PICK k \in 1..ng : i = nf + k
          BY <3>2, <2>3
        <4>2. PICK l \in 1..ng : j = nf + l
          BY <3>2, <2>3
        <4>3. gi[k].out + N = gi[l].out + N /\ gi[k].out \in 1..M /\ gi[l].out \in 1..M
          BY <4>1, <4>2, <2>5, <1>5, <1>9
        <4>4. gi[k].out = gi[l].out
          BY <4>3, <1>2
        <4> QED BY <4>1, <4>2, <4>4, <1>7
      <3>3. ASSUME NEW k \in 1..(nf + ng), NEW l \in 1..(nf + ng), k <= nf, ~(l <= nf)
            PROVE  ai[k].out # ai[l].out
        <4>1. k \in 1..nf
          BY <3>3, <1>2
        <4>2. ai[k].out \in 1..N
          BY <4>1, <2>1
        <4>3. PICK m \in 1..ng : l = nf + m
          BY <3>3, <2>3
        <4>4. ai[l].out \in (N + 1)..(N + M)
          BY <4>3, <2>2
        <4> QED BY <4>2, <4>4, <1>2
      <3> QED BY <3>1, <3>2, <3>3, <2>5
    <2> QED BY <2>4, <2>5, <1>2 DEF SingleDriver, Wires, ai
  <1>16. ReadsInOrder(a)
    <2>1. ASSUME NEW i \in 1..(nf + ng) PROVE Range(ai[i].ins) \subseteq Known(a, i)
      <3>1. CASE i <= nf
        <4>1. i \in 1..nf /\ i \in 1..(nf + 1)
          BY <3>1, <1>2
        <4> QED BY <4>1, <1>2, <1>8, <1>10
      <3>2. CASE ~(i <= nf)
        <4>1. PICK j \in 1..ng : i = nf + j
          BY <3>2, <1>2, InSecondPart
        <4>2. j \in 1..(ng + 1)
          BY <1>2
        <4>3. Range(ai[i].ins) \subseteq {P(w) : w \in Range(gi[j].ins)}
          <5>1. gi[j].ins \in Seq(1..M) /\ ai[i].ins = PlugAll(from, to, N, gi[j].ins)
            BY <4>1, <1>2, <1>5
          <5> DEFINE ws == gi[j].ins
          <5>2. ws \in Seq(1..M) /\ N \in Nat /\ M \in Nat
            BY <5>1, <1>2
          <5> HIDE DEF ws
          <5>3. \A x \in Range(PlugAll(from, to, N, ws)) :
                  \E w \in Range(ws) : x = Plug(from, to, N, w)
            BY <5>2, <1>3, PlugList
          <5> QED BY <5>1, <5>3 DEF P, ws
        <4> QED BY <4>1, <4>2, <4>3, <1>8, <1>13
      <3> QED BY <3>1, <3>2
    <2>2. Range(a.outputs) \subseteq Known(a, nf + ng + 1)
      <3>1. ng + 1 \in 1..(ng + 1) /\ nf + (ng + 1) = nf + ng + 1
        BY <1>2
      <3>2. Range(f.outputs) \subseteq Known(a, nf + ng + 1)
        BY <3>1, <1>12
      <3>3. \A w \in Range(g.outputs) : P(w) \in Known(a, nf + ng + 1)
        BY <3>1, <1>8, <1>13
      <3> QED BY <3>2, <3>3 DEF P, N
    <2> QED BY <2>1, <2>2, <1>2 DEF ReadsInOrder, ai
  <1> QED BY <1>14, <1>15, <1>16 DEF Netlist

LEMMA ComposePlugs ==
  ASSUME NEW f, NEW g, Netlist(f), Netlist(g), Len(f.outputs) = Len(g.inputs)
  PROVE  /\ Plugged(Compose(f, g), f, g, g.inputs, f.outputs)
         /\ Len(Compose(f, g).inputs) = Len(f.inputs)
         /\ Len(Compose(f, g).outputs) = Len(g.outputs)
  <1> DEFINE a == Compose(f, g)
             N == WireCount(f.graph)
             M == WireCount(g.graph)
             from == g.inputs
             to == f.outputs
  <1>1. /\ a.graph = MergeGraphs(f.graph, g.graph, from, to)
        /\ a.inputs = f.inputs
        /\ a.outputs = PlugAll(from, to, N, g.outputs)
    BY DEF Compose, Arrow
  <1>2. /\ ShapedGraph(f.graph) /\ ShapedGraph(g.graph)
        /\ from \in Seq(Wires(g.graph)) /\ g.outputs \in Seq(Wires(g.graph))
        /\ to \in Seq(Wires(f.graph)) /\ f.inputs \in Seq(Wires(f.graph))
    BY DEF Netlist, Shaped, ShapedGraph
  <1> HIDE DEF a
  <1>3. IsMerge(a.graph, f.graph, g.graph, from, to)
    BY <1>1, <1>2, Merged
  <1>4. N \in Nat /\ M \in Nat /\ Wires(a.graph) = 1..(N + M)
    BY <1>3 DEF IsMerge, Wires
  <1>5. /\ a.outputs \in Seq(Wires(a.graph)) /\ Len(a.outputs) = Len(g.outputs)
        /\ Range(a.outputs) \subseteq {Plug(from, to, N, w) : w \in Range(g.outputs)}
    <2> DEFINE ws == g.outputs
    <2>1. /\ from \in Seq(1..M) /\ to \in Seq(1..N) /\ ws \in Seq(1..M)
          /\ Len(from) = Len(to)
      BY <1>2 DEF Wires
    <2>2. a.outputs = PlugAll(from, to, N, ws)
      BY <1>1
    <2> HIDE DEF ws, from, to, N, M
    <2>3. /\ a.outputs \in Seq(1..(N + M)) /\ Len(a.outputs) = Len(ws)
          /\ \A x \in Range(a.outputs) : \E w \in Range(ws) : x = Plug(from, to, N, w)
      BY <2>1, <2>2, <1>4, PlugList
    <2> QED BY <2>3, <1>4 DEF ws
  <1>6. a.inputs \in Seq(Wires(a.graph))
    <2>1. 1..N \subseteq 1..(N + M)
      BY <1>4
    <2> QED BY <2>1, <1>1, <1>2, <1>4, SeqMonotonic DEF Wires
  <1>7. Range(a.inputs) = Range(f.inputs) \cup {w + N : w \in Range(g.inputs) \ Range(from)}
    BY <1>1
  <1>8. Plugged(a, f, g, from, to)
    BY <1>1, <1>2, <1>5, <1>6, <1>7 DEF Plugged
  <1> QED BY <1>1, <1>5, <1>8 DEF a

LEMMA ComposeSound ==
  ASSUME NEW f, NEW g, Netlist(f), Netlist(g), Len(f.outputs) = Len(g.inputs)
  PROVE  /\ Netlist(Compose(f, g))
         /\ Len(Compose(f, g).inputs) = Len(f.inputs)
         /\ Len(Compose(f, g).outputs) = Len(g.outputs)
  BY ComposePlugs, MergedNetlist

LEMMA TensorPlugs ==
  ASSUME NEW f, NEW g, Netlist(f), Netlist(g)
  PROVE  /\ Plugged(Tensor(f, g), f, g, <<>>, <<>>)
         /\ Len(Tensor(f, g).inputs) = Len(f.inputs) + Len(g.inputs)
         /\ Len(Tensor(f, g).outputs) = Len(f.outputs) + Len(g.outputs)
  <1> DEFINE a == Tensor(f, g)
             N == WireCount(f.graph)
             M == WireCount(g.graph)
             gin == ShiftWires(g.inputs, N)
             gout == ShiftWires(g.outputs, N)
  <1>1. /\ a.graph = MergeGraphs(f.graph, g.graph, <<>>, <<>>)
        /\ a.inputs = f.inputs \o gin
        /\ a.outputs = f.outputs \o gout
    BY DEF Tensor, Arrow
  <1>2. /\ ShapedGraph(f.graph) /\ ShapedGraph(g.graph)
        /\ g.inputs \in Seq(Wires(g.graph)) /\ g.outputs \in Seq(Wires(g.graph))
        /\ f.inputs \in Seq(Wires(f.graph)) /\ f.outputs \in Seq(Wires(f.graph))
    BY DEF Netlist, Shaped, ShapedGraph
  <1>3. /\ <<>> \in Seq(Wires(g.graph)) /\ <<>> \in Seq(Wires(f.graph))
        /\ Range(<<>>) = {}
    BY DEF Range
  <1> HIDE DEF a, gin, gout
  <1>4. IsMerge(a.graph, f.graph, g.graph, <<>>, <<>>)
    BY <1>1, <1>2, <1>3, Merged
  <1>5. N \in Nat /\ M \in Nat /\ Wires(a.graph) = 1..(N + M)
    BY <1>4 DEF IsMerge, Wires
  <1>6. /\ gin \in Seq(1..(N + M)) /\ Len(gin) = Len(g.inputs)
        /\ Range(gin) = {w + N : w \in Range(g.inputs)}
        /\ gout \in Seq(1..(N + M)) /\ Len(gout) = Len(g.outputs)
        /\ Range(gout) = {w + N : w \in Range(g.outputs)}
    BY <1>2, <1>5, ShiftedWires DEF Wires, gin, gout
  <1>7. f.inputs \in Seq(1..(N + M)) /\ f.outputs \in Seq(1..(N + M))
    <2>1. 1..N \subseteq 1..(N + M)
      BY <1>5
    <2> QED BY <2>1, <1>2, SeqMonotonic DEF Wires
  <1>8. /\ a.inputs \in Seq(Wires(a.graph)) /\ Len(a.inputs) = Len(f.inputs) + Len(g.inputs)
        /\ Range(a.inputs) = Range(f.inputs) \cup {w + N : w \in Range(g.inputs)}
    <2> DEFINE fs == f.inputs
               as == a.inputs
    <2>1. as = fs \o gin /\ fs \in Seq(1..(N + M)) /\ gin \in Seq(1..(N + M))
      BY <1>1, <1>6, <1>7
    <2> HIDE DEF fs, as
    <2>2. as \in Seq(1..(N + M)) /\ Len(as) = Len(fs) + Len(gin)
      BY <2>1, ConcatProperties
    <2>3. Range(as) = Range(fs) \cup Range(gin)
      BY <2>1, RangeConcatenation
    <2> QED BY <2>2, <2>3, <1>5, <1>6 DEF fs, as
  <1>9. /\ a.outputs \in Seq(Wires(a.graph)) /\ Len(a.outputs) = Len(f.outputs) + Len(g.outputs)
        /\ Range(a.outputs) = Range(f.outputs) \cup {w + N : w \in Range(g.outputs)}
    <2> DEFINE fs == f.outputs
               as == a.outputs
    <2>1. as = fs \o gout /\ fs \in Seq(1..(N + M)) /\ gout \in Seq(1..(N + M))
      BY <1>1, <1>6, <1>7
    <2> HIDE DEF fs, as
    <2>2. as \in Seq(1..(N + M)) /\ Len(as) = Len(fs) + Len(gout)
      BY <2>1, ConcatProperties
    <2>3. Range(as) = Range(fs) \cup Range(gout)
      BY <2>1, RangeConcatenation
    <2> QED BY <2>2, <2>3, <1>5, <1>6 DEF fs, as
  <1>10. Range(g.outputs) \subseteq 1..M
    BY <1>2, RangeOfSeq DEF Wires
  <1>11. \A w \in Range(g.outputs) : Plug(<<>>, <<>>, N, w) = w + N
    BY PlugNothing
  <1>12. Range(a.outputs) \subseteq Range(f.outputs)
                          \cup {Plug(<<>>, <<>>, N, w) : w \in Range(g.outputs)}
    BY <1>9, <1>11
  <1>13. Range(a.inputs) = Range(f.inputs) \cup {w + N : w \in Range(g.inputs) \ Range(<<>>)}
    BY <1>3, <1>8
  <1>14. Plugged(a, f, g, <<>>, <<>>)
    <2>1. Range(<<>>) \subseteq Range(g.inputs) /\ Range(<<>>) \subseteq Range(f.outputs)
      BY <1>3
    <2> QED BY <2>1, <1>1, <1>3, <1>8, <1>9, <1>12, <1>13 DEF Plugged
  <1> QED BY <1>8, <1>9, <1>14 DEF a

LEMMA TensorSound ==
  ASSUME NEW f, NEW g, Netlist(f), Netlist(g)
  PROVE  /\ Netlist(Tensor(f, g))
         /\ Len(Tensor(f, g).inputs) = Len(f.inputs) + Len(g.inputs)
         /\ Len(Tensor(f, g).outputs) = Len(f.outputs) + Len(g.outputs)
  BY TensorPlugs, MergedNetlist

---------------------------------------------------------------------------
(* Growing an arrow *)

\* The inductive invariant: the arrow is a sound netlist, with as many wires
\* at its ends as its objects have, so that what composes is plugged whole.
IInv == Netlist(arrow) /\ Ends(arrow, dom, cod)

LEMMA TensorEnds ==
  ASSUME NEW f, NEW g, NEW d1, NEW c1, NEW d2, NEW c2, NEW a,
         Ends(f, d1, c1), Ends(g, d2, c2),
         Len(a.inputs) = Len(f.inputs) + Len(g.inputs),
         Len(a.outputs) = Len(f.outputs) + Len(g.outputs)
  PROVE  Ends(a, d1 \o d2, c1 \o c2)
  <1>1. d1 \o d2 \in Seq(Range(d1 \o d2)) /\ Len(d1 \o d2) = Len(d1) + Len(d2)
    BY ConcatSplits DEF Ends, IsConcat
  <1>2. c1 \o c2 \in Seq(Range(c1 \o c2)) /\ Len(c1 \o c2) = Len(c1) + Len(c2)
    BY ConcatSplits DEF Ends, IsConcat
  <1> QED BY <1>1, <1>2 DEF Ends

LEMMA NextInv == ASSUME IInv, [Next]_vars PROVE IInv'
  <1>1. \A h \in Gens : Netlist(ArrowOf(h)) /\ Ends(ArrowOf(h), Dom(h), Cod(h))
    BY GensAssumption
  <1>2. ASSUME NEW h \in Gens, Then(h) PROVE IInv'
    <2>1. Netlist(arrow) /\ Netlist(ArrowOf(h)) /\ Len(arrow.outputs) = Len(ArrowOf(h).inputs)
      BY <1>1, <1>2 DEF IInv, Ends, Then
    <2>2. arrow' = Compose(arrow, ArrowOf(h)) /\ dom' = dom /\ cod' = Cod(h)
      BY <1>2 DEF Then
    <2>3. /\ Netlist(arrow')
          /\ Len(arrow'.inputs) = Len(arrow.inputs)
          /\ Len(arrow'.outputs) = Len(ArrowOf(h).outputs)
      BY <2>1, <2>2, ComposeSound
    <2>4. Ends(arrow', dom', cod')
      BY <1>1, <2>2, <2>3 DEF IInv, Ends
    <2> QED BY <2>3, <2>4 DEF IInv, Netlist, Shaped, SingleDriver, ReadsInOrder, Known, Ends
  <1>3. ASSUME NEW h \in Gens, After(h) PROVE IInv'
    <2>1. Netlist(arrow) /\ Netlist(ArrowOf(h)) /\ Len(ArrowOf(h).outputs) = Len(arrow.inputs)
      BY <1>1, <1>3 DEF IInv, Ends, After
    <2>2. arrow' = Compose(ArrowOf(h), arrow) /\ dom' = Dom(h) /\ cod' = cod
      BY <1>3 DEF After
    <2>3. /\ Netlist(arrow')
          /\ Len(arrow'.inputs) = Len(ArrowOf(h).inputs)
          /\ Len(arrow'.outputs) = Len(arrow.outputs)
      BY <2>1, <2>2, ComposeSound
    <2>4. Ends(arrow', dom', cod')
      BY <1>1, <2>2, <2>3 DEF IInv, Ends
    <2> QED BY <2>3, <2>4 DEF IInv
  <1>4. ASSUME NEW h \in Gens, Above(h) PROVE IInv'
    <2>1. /\ arrow' = Tensor(arrow, ArrowOf(h))
          /\ dom' = dom \o Dom(h) /\ cod' = cod \o Cod(h)
      BY <1>4 DEF Above
    <2>2. /\ Netlist(arrow')
          /\ Len(arrow'.inputs) = Len(arrow.inputs) + Len(ArrowOf(h).inputs)
          /\ Len(arrow'.outputs) = Len(arrow.outputs) + Len(ArrowOf(h).outputs)
      BY <1>1, <2>1, TensorSound DEF IInv
    <2>3. Ends(arrow', dom', cod')
      BY <1>1, <2>1, <2>2, TensorEnds DEF IInv
    <2> QED BY <2>2, <2>3 DEF IInv
  <1>5. ASSUME NEW h \in Gens, Below(h) PROVE IInv'
    <2>1. /\ arrow' = Tensor(ArrowOf(h), arrow)
          /\ dom' = Dom(h) \o dom /\ cod' = Cod(h) \o cod
      BY <1>5 DEF Below
    <2>2. /\ Netlist(arrow')
          /\ Len(arrow'.inputs) = Len(ArrowOf(h).inputs) + Len(arrow.inputs)
          /\ Len(arrow'.outputs) = Len(ArrowOf(h).outputs) + Len(arrow.outputs)
      BY <1>1, <2>1, TensorSound DEF IInv
    <2>3. Ends(arrow', dom', cod')
      BY <1>1, <2>1, <2>2, TensorEnds DEF IInv
    <2> QED BY <2>2, <2>3 DEF IInv
  <1>6. CASE UNCHANGED vars
    BY <1>6 DEF vars, IInv, Netlist, Shaped, SingleDriver, ReadsInOrder, Known, Ends
  <1> QED BY <1>2, <1>3, <1>4, <1>5, <1>6 DEF Next

LEMMA InvHolds == Spec => []IInv
  <1>1. Init => IInv
    BY GensAssumption DEF Init, IInv
  <1>2. IInv /\ [Next]_vars => IInv'
    BY NextInv
  <1> QED BY <1>1, <1>2, PTL DEF Spec

\* However it was grown, no wire of the arrow has two drivers and none of its
\* inputs is driven: what compose_arrows and tensor_arrows preserve, and what
\* the continuous assignments of the Verilog emitter need.
THEOREM DriversStayUnique == Spec => []OneDriver
  <1>1. IInv => OneDriver
    BY DEF IInv, Netlist, OneDriver
  <1> QED BY <1>1, InvHolds, PTL

\* Its instructions are stored in an order in which the interpreter and the
\* printed netlist can take them: none reads a wire before it is driven.
THEOREM OrderIsKept == Spec => []InOrder
  <1>1. IInv => InOrder
    BY DEF IInv, Netlist, InOrder
  <1> QED BY <1>1, InvHolds, PTL

---------------------------------------------------------------------------
(* Types *)

\* What the phantom types of CircuitArrow promise of a generator.
GensTyped == \A h \in Gens : TypedEnds(ArrowOf(h), Dom(h), Cod(h))

TypedInv == IInv /\ TypedEnds(arrow, dom, cod)

\* h lists what f lists up to N, and then what g lists up to M.
Beside(h, f, N, g, M) ==
  /\ \A w \in 1..N : h[w] = f[w]
  /\ \A w \in 1..M : h[N + w] = g[w]

\* What is plugged together agrees in type.
Agree(f, to, g, from) == \A k \in 1..Len(from) : f[to[k]] = g[from[k]]

PluggedTypes(h, f, N, g, M, from, to) ==
  /\ N \in Nat /\ M \in Nat /\ Beside(h, f, N, g, M)
  /\ from \in Seq(1..M) /\ to \in Seq(1..N) /\ Len(from) = Len(to)
  /\ Agree(f, to, g, from)

\* A plugged wire has the type of the wire it replaces.
LEMMA PlugTyped ==
  ASSUME NEW N, NEW M, NEW f, NEW g, NEW h, NEW from, NEW to,
         PluggedTypes(h, f, N, g, M, from, to), NEW w \in 1..M
  PROVE  h[Plug(from, to, N, w)] = g[w]
  <1> USE DEF PluggedTypes, Beside, Agree
  <1> DEFINE n == Len(from)
             at == {k \in 1..n : from[k] = w}
  <1>1. Plug(from, to, N, w) = IF at = {} THEN w + N ELSE to[Min(at)]
    BY DEF Plug
  <1>2. n \in Nat
    BY LenProperties
  <1>3. CASE at = {}
    <2>1. w + N = N + w
      OBVIOUS
    <2> QED BY <1>1, <1>3, <2>1
  <1>4. CASE at # {}
    <2>1. Min(at) \in 1..n /\ from[Min(at)] = w
      <3> HIDE DEF n
      <3>1. n \in Int /\ at \in SUBSET (1..n)
        BY <1>2
      <3>2. Min(at) \in at
        <4> HIDE DEF at
        <4> QED BY <3>1, <1>4, LeastIsMember
      <3> QED BY <3>2
    <2>2. Plug(from, to, N, w) = to[Min(at)]
      BY <1>1, <1>4
    <2> HIDE DEF at
    <2>3. to[Min(at)] \in 1..N
      BY <2>1, ElementOfSeq
    <2>4. f[to[Min(at)]] = g[w]
      BY <2>1
    <2> QED BY <2>2, <2>3, <2>4
  <1> QED BY <1>3, <1>4

LEMMA MergedTypes ==
  ASSUME NEW f, NEW g, ShapedGraph(f), ShapedGraph(g), NEW from, NEW to,
         NEW h, h = MergeGraphs(f, g, from, to)
  PROVE  /\ WireCount(f) \in Nat /\ WireCount(g) \in Nat
         /\ Beside(h.wires, f.wires, WireCount(f), g.wires, WireCount(g))
  <1> DEFINE fw == f.wires
             gw == g.wires
             hw == h.wires
  <1>1. fw \in Seq(Range(fw)) /\ gw \in Seq(Range(gw))
    BY DEF ShapedGraph
  <1>2. hw = fw \o gw
    <2> DEFINE is == MergeGraphs(f, g, from, to).instrs
    <2>1. MergeGraphs(f, g, from, to).wires = fw \o gw
      BY DEF MergeGraphs
    <2> QED BY <2>1
  <1> HIDE DEF fw, gw, hw
  <1>3. /\ Len(fw) \in Nat /\ Len(gw) \in Nat
        /\ \A w \in 1..Len(fw) : hw[w] = fw[w]
        /\ \A w \in 1..Len(gw) : hw[Len(fw) + w] = gw[w]
    BY <1>1, <1>2, ConcatOfAny
  <1> QED BY <1>3 DEF Beside, WireCount, fw, gw, hw

LEMMA ComposeTyped ==
  ASSUME NEW f, NEW g, NEW d, NEW c, NEW e,
         Netlist(f), Netlist(g), Len(f.outputs) = Len(g.inputs),
         TypedEnds(f, d, c), TypedEnds(g, c, e)
  PROVE  TypedEnds(Compose(f, g), d, e)
  <1> DEFINE a == Compose(f, g)
             N == WireCount(f.graph)
             M == WireCount(g.graph)
             from == g.inputs
             to == f.outputs
             fw == f.graph.wires
             gw == g.graph.wires
             aw == a.graph.wires
             ends == g.outputs
  <1>1. /\ a.graph = MergeGraphs(f.graph, g.graph, from, to)
        /\ a.inputs = f.inputs
        /\ a.outputs = PlugAll(from, to, N, ends)
    BY DEF Compose, Arrow
  <1>2. ShapedGraph(f.graph) /\ ShapedGraph(g.graph)
    BY DEF Netlist, Shaped, ShapedGraph
  <1>3. /\ from \in Seq(1..M) /\ ends \in Seq(1..M)
        /\ to \in Seq(1..N) /\ f.inputs \in Seq(1..N)
        /\ Len(from) = Len(to)
    BY DEF Netlist, Shaped, Wires
  <1> HIDE DEF a
  <1>4. /\ N \in Nat /\ M \in Nat
        /\ Beside(aw, fw, N, gw, M)
    BY <1>1, <1>2, MergedTypes
  <1>5. Agree(fw, to, gw, from)
    <2>1. DOMAIN from = 1..Len(from) /\ DOMAIN to = 1..Len(from)
      BY <1>3, LenProperties
    <2>2. [k \in DOMAIN to |-> fw[to[k]]] = [k \in DOMAIN from |-> gw[from[k]]]
      BY DEF TypedEnds, Types
    <2> HIDE DEF from, to, fw, gw
    <2> QED BY <2>1, <2>2 DEF Agree
  <1>6. [k \in DOMAIN f.inputs |-> fw[f.inputs[k]]] = d
        /\ [k \in DOMAIN ends |-> gw[ends[k]]] = e
    BY DEF TypedEnds, Types
  <1> HIDE DEF N, M, from, to, fw, gw, aw, ends
  <1>7. [k \in DOMAIN a.inputs |-> aw[a.inputs[k]]] = d
    <2>1. \A k \in DOMAIN f.inputs : f.inputs[k] \in 1..N
      BY <1>3, LenProperties, ElementOfSeq
    <2> QED BY <2>1, <1>1, <1>4, <1>6 DEF Beside
  <1>8. [k \in DOMAIN a.outputs |-> aw[a.outputs[k]]] = e
    <2>1. DOMAIN ends = 1..Len(ends) /\ \A k \in 1..Len(ends) : ends[k] \in 1..M
      BY <1>3, LenProperties, ElementOfSeq
    <2>2. /\ DOMAIN a.outputs = 1..Len(ends)
          /\ \A k \in 1..Len(ends) : a.outputs[k] = Plug(from, to, N, ends[k])
      BY <1>1, <1>3, <1>4, PlugList
    <2>3. ASSUME NEW w \in 1..M PROVE aw[Plug(from, to, N, w)] = gw[w]
      <3>1. PluggedTypes(aw, fw, N, gw, M, from, to)
        BY <1>3, <1>4, <1>5 DEF PluggedTypes
      <3> QED BY <3>1, PlugTyped
    <2> QED BY <2>1, <2>2, <2>3, <1>6
  <1> QED BY <1>7, <1>8 DEF TypedEnds, Types, a, aw

LEMMA TypesBeside ==
  ASSUME NEW N \in Nat, NEW M \in Nat, NEW f, NEW g, NEW h, Beside(h, f, N, g, M),
         NEW s \in Seq(1..N), NEW t \in Seq(1..M)
  PROVE  Types(h, s \o ShiftWires(t, N)) = Types(f, s) \o Types(g, t)
  <1> DEFINE u == ShiftWires(t, N)
             ws == s \o u
             d1 == Types(f, s)
             d2 == Types(g, t)
  <1>1. /\ Len(s) \in Nat /\ DOMAIN s = 1..Len(s) /\ \A k \in 1..Len(s) : s[k] \in 1..N
        /\ Len(t) \in Nat /\ DOMAIN t = 1..Len(t) /\ \A k \in 1..Len(t) : t[k] \in 1..M
    BY LenProperties, ElementOfSeq
  <1>2. u \in Seq(1..(N + M)) /\ Len(u) = Len(t)
    BY ShiftedWires
  <1>3. \A k \in 1..Len(t) : u[k] = N + t[k]
    BY <1>1 DEF ShiftWires
  <1> HIDE DEF u
  <1>4. ws = s \o u
    OBVIOUS
  <1> HIDE DEF ws
  <1>5. /\ DOMAIN ws = 1..(Len(s) + Len(t))
        /\ \A k \in 1..Len(s) : ws[k] = s[k]
        /\ \A k \in 1..Len(t) : ws[Len(s) + k] = u[k]
    <2>1. s \in Seq(Range(s)) /\ u \in Seq(Range(u))
      BY <1>2, SeqOfRange
    <2>2. IsConcat(ws, s, u)
      BY <2>1, <1>4, ConcatSplits
    <2> QED BY <2>2, <1>2 DEF IsConcat
  <1>11. d1 = [k \in 1..Len(s) |-> f[s[k]]] /\ d2 = [k \in 1..Len(t) |-> g[t[k]]]
    BY <1>1 DEF Types
  <1> HIDE DEF d1, d2
  <1>6. /\ d1 \in Seq(Range(d1)) /\ Len(d1) = Len(s)
        /\ d2 \in Seq(Range(d2)) /\ Len(d2) = Len(t)
    <2>1. d1 \in [1..Len(s) -> Range(d1)] /\ d2 \in [1..Len(t) -> Range(d2)]
      BY <1>11 DEF Range
    <2> QED BY <2>1, <1>1, FunctionIsSeq
  <1>7. /\ DOMAIN (d1 \o d2) = 1..(Len(s) + Len(t))
        /\ \A k \in 1..Len(s) : (d1 \o d2)[k] = d1[k]
        /\ \A k \in 1..Len(t) : (d1 \o d2)[Len(s) + k] = d2[k]
        /\ d1 \o d2 \in Seq(Range(d1 \o d2))
    <2>1. IsConcat(d1 \o d2, d1, d2)
      BY <1>6, ConcatSplits
    <2> QED BY <2>1, <1>6 DEF IsConcat
  <1>8. ASSUME NEW k \in 1..(Len(s) + Len(t)) PROVE h[ws[k]] = (d1 \o d2)[k]
    <2>1. CASE k <= Len(s)
      <3>1. k \in 1..Len(s)
        BY <2>1, <1>1
      <3> QED BY <3>1, <1>1, <1>11, <1>5, <1>7 DEF Beside
    <2>2. CASE ~(k <= Len(s))
      <3>1. PICK j \in 1..Len(t) : k = Len(s) + j
        BY <2>2, <1>1, InSecondPart
      <3>2. ws[k] = N + t[j] /\ t[j] \in 1..M
        BY <3>1, <1>1, <1>3, <1>5
      <3>3. h[ws[k]] = g[t[j]]
        BY <3>2 DEF Beside
      <3> QED BY <3>1, <3>3, <1>11, <1>7
    <2> QED BY <2>1, <2>2
  <1>9. d1 \o d2 = [k \in 1..(Len(s) + Len(t)) |-> (d1 \o d2)[k]]
    <2> DEFINE q == d1 \o d2
    <2>1. q \in Seq(Range(q)) /\ DOMAIN q = 1..(Len(s) + Len(t))
      BY <1>7
    <2> HIDE DEF q
    <2>2. q \in [1..Len(q) -> Range(q)]
      BY <2>1, LenProperties
    <2>3. q = [k \in DOMAIN q |-> q[k]]
      BY <2>2
    <2> QED BY <2>1, <2>3 DEF q
  <1>10. Types(h, ws) = [k \in 1..(Len(s) + Len(t)) |-> (d1 \o d2)[k]]
    BY <1>5, <1>8 DEF Types
  <1> QED BY <1>9, <1>10 DEF d1, d2, ws, u

LEMMA TensorTyped ==
  ASSUME NEW f, NEW g, NEW d1, NEW c1, NEW d2, NEW c2,
         Netlist(f), Netlist(g), TypedEnds(f, d1, c1), TypedEnds(g, d2, c2)
  PROVE  TypedEnds(Tensor(f, g), d1 \o d2, c1 \o c2)
  <1> DEFINE a == Tensor(f, g)
             N == WireCount(f.graph)
             M == WireCount(g.graph)
             fw == f.graph.wires
             gw == g.graph.wires
             aw == a.graph.wires
  <1>1. /\ a.graph = MergeGraphs(f.graph, g.graph, <<>>, <<>>)
        /\ a.inputs = f.inputs \o ShiftWires(g.inputs, N)
        /\ a.outputs = f.outputs \o ShiftWires(g.outputs, N)
    BY DEF Tensor, Arrow
  <1>2. ShapedGraph(f.graph) /\ ShapedGraph(g.graph)
    BY DEF Netlist, Shaped, ShapedGraph
  <1>3. /\ g.inputs \in Seq(1..M) /\ g.outputs \in Seq(1..M)
        /\ f.inputs \in Seq(1..N) /\ f.outputs \in Seq(1..N)
    BY DEF Netlist, Shaped, Wires
  <1> HIDE DEF a
  <1>4. /\ N \in Nat /\ M \in Nat
        /\ Beside(aw, fw, N, gw, M)
    BY <1>1, <1>2, MergedTypes
  <1>5. /\ d1 = Types(fw, f.inputs) /\ c1 = Types(fw, f.outputs)
        /\ d2 = Types(gw, g.inputs) /\ c2 = Types(gw, g.outputs)
    BY DEF TypedEnds
  <1> HIDE DEF N, M, fw, gw, aw
  <1>6. Types(aw, a.inputs) = d1 \o d2
    <2> DEFINE s == f.inputs
               t == g.inputs
    <2>1. s \in Seq(1..N) /\ t \in Seq(1..M)
      BY <1>3
    <2> HIDE DEF s, t
    <2>2. Types(aw, s \o ShiftWires(t, N)) = Types(fw, s) \o Types(gw, t)
      BY <2>1, <1>4, TypesBeside
    <2> QED BY <2>2, <1>1, <1>5 DEF s, t
  <1>7. Types(aw, a.outputs) = c1 \o c2
    <2> DEFINE s == f.outputs
               t == g.outputs
    <2>1. s \in Seq(1..N) /\ t \in Seq(1..M)
      BY <1>3
    <2> HIDE DEF s, t
    <2>2. Types(aw, s \o ShiftWires(t, N)) = Types(fw, s) \o Types(gw, t)
      BY <2>1, <1>4, TypesBeside
    <2> QED BY <2>2, <1>1, <1>5 DEF s, t
  <1> QED BY <1>6, <1>7 DEF TypedEnds, a, aw

LEMMA TypedStep == ASSUME GensTyped, TypedInv, [Next]_vars PROVE TypedInv'
  <1>1. \A h \in Gens : /\ Netlist(ArrowOf(h)) /\ Ends(ArrowOf(h), Dom(h), Cod(h))
                        /\ TypedEnds(ArrowOf(h), Dom(h), Cod(h))
    BY GensAssumption DEF GensTyped
  <1>2. IInv'
    BY NextInv DEF TypedInv
  <1>3. ASSUME NEW h \in Gens, Then(h) PROVE TypedEnds(arrow', dom', cod')
    <2>1. /\ arrow' = Compose(arrow, ArrowOf(h)) /\ dom' = dom /\ cod' = Cod(h)
          /\ Len(arrow.outputs) = Len(ArrowOf(h).inputs) /\ Dom(h) = cod
      BY <1>1, <1>3 DEF Then, TypedInv, IInv, Ends
    <2> QED BY <2>1, <1>1, ComposeTyped DEF TypedInv, IInv
  <1>4. ASSUME NEW h \in Gens, After(h) PROVE TypedEnds(arrow', dom', cod')
    <2>1. /\ arrow' = Compose(ArrowOf(h), arrow) /\ dom' = Dom(h) /\ cod' = cod
          /\ Len(ArrowOf(h).outputs) = Len(arrow.inputs) /\ Cod(h) = dom
      BY <1>1, <1>4 DEF After, TypedInv, IInv, Ends
    <2> QED BY <2>1, <1>1, ComposeTyped DEF TypedInv, IInv
  <1>5. ASSUME NEW h \in Gens, Above(h) PROVE TypedEnds(arrow', dom', cod')
    <2>1. TypedEnds(Tensor(arrow, ArrowOf(h)), dom \o Dom(h), cod \o Cod(h))
      BY <1>1, TensorTyped DEF TypedInv, IInv
    <2> QED BY <2>1, <1>5 DEF Above
  <1>6. ASSUME NEW h \in Gens, Below(h) PROVE TypedEnds(arrow', dom', cod')
    <2>1. TypedEnds(Tensor(ArrowOf(h), arrow), Dom(h) \o dom, Cod(h) \o cod)
      BY <1>1, TensorTyped DEF TypedInv, IInv
    <2> QED BY <2>1, <1>6 DEF Below
  <1>7. ASSUME UNCHANGED vars PROVE TypedEnds(arrow', dom', cod')
    <2>1. arrow' = arrow /\ dom' = dom /\ cod' = cod
      BY <1>7 DEF vars
    <2> QED BY <2>1 DEF TypedInv
  <1>8. TypedEnds(arrow', dom', cod')
    BY <1>3, <1>4, <1>5, <1>6, <1>7 DEF Next
  <1> QED BY <1>2, <1>8 DEF TypedInv

\* If the generators' ends have the types their objects claim, so have those of
\* everything grown from them: composing by type alone, as Rust's checker does,
\* never joins two wires of different types (arrow.rs:72-75, 113-167).
THEOREM TypesAgree == ASSUME GensTyped PROVE Spec => []EndsTyped
  <1>1. Init => TypedInv
    BY GensAssumption, GensTyped DEF GensTyped, Init, TypedInv, IInv
  <1>2. TypedInv /\ [Next]_vars => TypedInv'
    BY GensTyped, TypedStep
  <1>3. TypedInv => EndsTyped
    BY DEF TypedInv, EndsTyped
  <1> QED BY <1>1, <1>2, <1>3, PTL DEF Spec

---------------------------------------------------------------------------
(* What a merged graph computes *)

\* f lists the results of interpreting a on v, one instruction after another.
IsRun(a, v, f) ==
  LET g == a.graph
  IN  /\ f[0] = Ok(InputEnv(g, a.inputs, v))
      /\ \A k \in 1..Len(g.instrs) : Follows(g, f[k - 1], k, f[k])
      /\ Interpret(g, a.inputs, v) = f[Len(g.instrs)]

LEMMA RunExists ==
  ASSUME NEW a, Netlist(a), NEW v, Len(a.inputs) = Len(v)
  PROVE  \E f : IsRun(a, v, f)
  <1> DEFINE g == a.graph
             n == Len(g.instrs)
             ws == a.inputs
  <1>1. n \in Nat /\ Len(ws) = Len(v)
    BY LenProperties DEF Netlist, Shaped
  <1>2. PICK f : IsFold(g, ws, v, n, f) /\ Interpret(g, ws, v) = f[n]
    <2>1. Len(g.instrs) \in Nat
      BY <1>1
    <2> HIDE DEF g, ws
    <2>2. \E f : IsFold(g, ws, v, Len(g.instrs), f) /\ Interpret(g, ws, v) = f[Len(g.instrs)]
      BY <2>1, <1>1, InterpretFolds
    <2> QED BY <2>2
  <1>3. /\ f[0] = Ok(InputEnv(g, ws, v))
        /\ \A k \in 1..n : Follows(g, f[k - 1], k, f[k])
    <2> HIDE DEF g, ws, n
    <2> QED BY <1>1, <1>2, FoldSteps
  <1> QED BY <1>2, <1>3 DEF IsRun

\* The environment in which a leaves its wires.
Leaves(a, v, env) ==
  /\ Interpret(a.graph, a.inputs, v).err = "none"
  /\ Interpret(a.graph, a.inputs, v).val = env
  /\ DOMAIN env \subseteq Wires(a.graph)
  /\ Range(a.inputs) \subseteq DOMAIN env

DrivenBy(a) == {a.graph.instrs[i].out : i \in DOMAIN a.graph.instrs}

LEMMA InputsDriven ==
  ASSUME NEW a, Netlist(a)
  PROVE  Driven(a.graph, a.inputs) = Range(a.inputs) /\ Range(a.inputs) \cap DrivenBy(a) = {}
  <1>1. DOMAIN a.inputs = 1..Len(a.inputs) /\ Range(a.inputs) \subseteq Wires(a.graph)
    BY LenProperties, RangeOfSeq DEF Netlist, Shaped
  <1>2. Driven(a.graph, a.inputs) = Range(a.inputs)
    BY <1>1 DEF Driven, Range
  <1>3. \A i \in DOMAIN a.graph.instrs : a.graph.instrs[i].out \notin Range(a.inputs)
    BY DEF Netlist, SingleDriver
  <1> QED BY <1>2, <1>3 DEF DrivenBy

\* A netlist copied as it stands.
LEMMA CopyInPlace ==
  ASSUME NEW a, Netlist(a), NEW h, Wires(a.graph) \subseteq Wires(h),
         \A i \in 1..Len(a.graph.instrs) : h.instrs[i] = a.graph.instrs[i],
         NEW id, id = [w \in Wires(a.graph) |-> w]
  PROVE  Copied(a.graph, h, id, 0) /\ Renamed(a.graph, id) = DrivenBy(a)
  <1> DEFINE g == a.graph
             n == Len(g.instrs)
  <1>1. n \in Nat /\ DOMAIN g.instrs = 1..n
    BY LenProperties DEF Netlist, Shaped
  <1>2. ASSUME NEW i \in 1..n
        PROVE  /\ g.instrs[i].out \in Wires(g)
               /\ \A k \in DOMAIN g.instrs[i].ins : g.instrs[i].ins[k] \in Wires(g)
    <2>1. g.instrs[i].out \in Wires(g) /\ g.instrs[i].ins \in Seq(Wires(g))
      BY <1>1 DEF Netlist, Shaped
    <2> DEFINE ins == g.instrs[i].ins
    <2>2. \A k \in DOMAIN ins : ins[k] \in Wires(g)
      <3>1. ins \in Seq(Wires(g))
        BY <2>1
      <3> HIDE DEF ins
      <3> QED BY <3>1, LenProperties, ElementOfSeq
    <2> QED BY <2>1, <2>2
  <1>3. Copied(g, h, id, 0)
    <2>1. ASSUME NEW i \in 1..n PROVE h.instrs[0 + i] = g.instrs[i]
      BY <1>1
    <2> QED BY <1>2, <2>1 DEF Copied
  <1>4. Renamed(g, id) = DrivenBy(a)
    BY <1>1, <1>2 DEF Renamed, DrivenBy
  <1> QED BY <1>3, <1>4

\* Inputs stay among the wires that have a value.
LEMMA RunKeepsInputs ==
  ASSUME NEW a, Netlist(a), NEW v, NEW f, IsRun(a, v, f),
         NEW n, n = Len(a.graph.instrs), f[n].err = "none"
  PROVE  Leaves(a, v, f[n].val)
  <1> DEFINE g == a.graph
             id == [w \in Wires(g) |-> w]
             held == InputEnv(g, a.inputs, v)
  <1>1. n \in Nat /\ DOMAIN g.instrs = 1..n
    BY LenProperties DEF Netlist, Shaped
  <1>2. Copied(g, g, id, 0) /\ Renamed(g, id) = DrivenBy(a)
    BY CopyInPlace
  <1>3. DOMAIN held = Range(a.inputs) /\ Range(a.inputs) \subseteq Wires(g)
    BY InputsDriven, RangeOfSeq DEF InputEnv, Netlist, Shaped
  <1>4. /\ f[0] = Ok(held)
        /\ \A i \in 1..n : Follows(g, f[i - 1], i, f[i])
        /\ Interpret(g, a.inputs, v) = f[n]
    BY DEF IsRun
  <1> HIDE DEF held, id
  <1>5. Mirrors(g, id, held, f[0], f[0])
    <2>1. f[0].err = "none" /\ f[0].val = held
      BY <1>4 DEF Ok
    <2>2. \A w \in DOMAIN held : id[w] = w
      BY <1>3 DEF id
    <2> QED BY <2>1, <2>2, <1>3 DEF Mirrors
  <1>6. Mirrors(g, id, held, f[n], f[n])
    <2>1. 0 \in Nat /\ 0 + n = n /\ n = Len(g.instrs)
      BY <1>1
    <2>2. ASSUME NEW i \in 1..n PROVE Follows(g, f[(0 + i) - 1], 0 + i, f[0 + i])
      <3>1. 0 + i = i
        BY <1>1
      <3> QED BY <3>1, <1>4
    <2> HIDE DEF g
    <2>3. Mirrors(g, id, held, f[n], f[0 + n])
      BY <2>1, <2>2, <1>1, <1>2, <1>4, <1>5, CopyRuns
    <2> QED BY <2>1, <2>3
  <1> DEFINE env == f[n].val
  <1>7. /\ DOMAIN env \subseteq Wires(g)
        /\ \A x \in DOMAIN held \ Renamed(g, id) : x \in DOMAIN env
    BY <1>6 DEF Mirrors
  <1>8. Range(a.inputs) \subseteq DOMAIN env
    BY <1>2, <1>3, <1>7, InputsDriven
  <1> QED BY <1>4, <1>7, <1>8 DEF Leaves

\* f leaves ef on vf, and g leaves eg on vg, and v and vg are what a's inputs
\* and the plugged wires hand to them.
Feeds(a, f, g, from, to, v, vf, vg, ef) ==
  LET N == WireCount(f.graph)
      P(w) == Plug(from, to, N, w)
      in == InputEnv(a.graph, a.inputs, v)
      inF == InputEnv(f.graph, f.inputs, vf)
      inG == InputEnv(g.graph, g.inputs, vg)
  IN  /\ \A w \in Range(f.inputs) : in[w] = inF[w]
      /\ \A w \in Range(g.inputs) \ Range(from) : in[w + N] = inG[w]
      /\ \A w \in Range(from) : P(w) \in DOMAIN ef /\ ef[P(w)] = inG[w]

\* Every wire of f keeps f's value and every wire of g has g's under its new
\* name, and no other wire has a value.
Joined(env, f, g, from, to, ef, eg) ==
  LET P(w) == Plug(from, to, WireCount(f.graph), w)
  IN  /\ \A w \in DOMAIN ef : w \in DOMAIN env /\ env[w] = ef[w]
      /\ \A w \in DOMAIN eg : P(w) \in DOMAIN env /\ env[P(w)] = eg[w]
      /\ \A x \in DOMAIN env : x \in DOMAIN ef \/ \E w \in DOMAIN eg : x = P(w)

\* From instruction nf + 1 on, a has g's under the names rho, which none of
\* f's wires and none of g's inputs shifted by N shares with a driven wire.
CopyAfter(a, g, rho, nf, N) ==
  /\ Copied(g.graph, a.graph, rho, nf)
  /\ Renamed(g.graph, rho) \cap (1..N) = {}
  /\ \A w \in Range(g.inputs) : w + N \notin Renamed(g.graph, rho)

\* The second part of a merged list is a copy of g's.
LEMMA CopyPlugged ==
  ASSUME NEW f, NEW g, NEW a, NEW from, NEW to,
         Netlist(f), Netlist(g), Plugged(a, f, g, from, to),
         NEW N, N = WireCount(f.graph), NEW nf, nf = Len(f.graph.instrs),
         NEW rho, rho = [w \in Wires(g.graph) |-> Plug(from, to, N, w)]
  PROVE  CopyAfter(a, g, rho, nf, N)
  <1> DEFINE M == WireCount(g.graph)
             gi == g.graph.instrs
             ai == a.graph.instrs
             ng == Len(gi)
             P(w) == Plug(from, to, N, w)
  <1>1. ShapedGraph(f.graph) /\ ShapedGraph(g.graph)
    BY DEF Netlist, Shaped, ShapedGraph
  <1>2. /\ N \in Nat /\ M \in Nat /\ nf \in Nat /\ ng \in Nat
        /\ WireCount(a.graph) = N + M
        /\ DOMAIN gi = 1..ng
        /\ \A j \in 1..ng : /\ ai[nf + j].op = gi[j].op
                            /\ ai[nf + j].out = P(gi[j].out)
                            /\ ai[nf + j].ins = PlugAll(from, to, N, gi[j].ins)
    <2>1. IsMerge(a.graph, f.graph, g.graph, from, to)
      BY <1>1, Merged DEF Plugged
    <2> QED BY <2>1 DEF IsMerge
  <1>3. from \in Seq(1..M) /\ to \in Seq(1..N) /\ Len(from) = Len(to)
    BY DEF Wires, Plugged
  <1>4. ASSUME NEW w \in 1..M
        PROVE  /\ w \in Range(from) => P(w) \in Range(to)
               /\ w \notin Range(from) => P(w) = w + N
    <2> HIDE DEF M
    <2> QED BY <1>2, <1>3, PlugWire
  <1>5. Range(to) \subseteq 1..N /\ Range(from) \subseteq Range(g.inputs)
    BY <1>3, RangeOfSeq DEF Plugged
  <1>6. ASSUME NEW j \in 1..ng
        PROVE  /\ gi[j].ins \in Seq(1..M) /\ gi[j].out \in 1..M
               /\ gi[j].out \notin Range(g.inputs)
    BY <1>1, <1>2 DEF ShapedGraph, Wires, Netlist, SingleDriver
  <1>7. Range(g.inputs) \subseteq 1..M
    BY RangeOfSeq DEF Netlist, Shaped, Wires
  <1>8. ASSUME NEW j \in 1..ng PROVE P(gi[j].out) = gi[j].out + N
    BY <1>4, <1>5, <1>6
  <1>9. rho = [w \in 1..M |-> P(w)]
    BY DEF Wires
  <1> HIDE DEF P
  <1>10. ASSUME NEW j \in 1..ng
         PROVE  /\ DOMAIN ai[nf + j].ins = DOMAIN gi[j].ins
                /\ \A k \in DOMAIN gi[j].ins : ai[nf + j].ins[k] = rho[gi[j].ins[k]]
    <2> DEFINE ws == gi[j].ins
               us == ai[nf + j].ins
    <2>1. ws \in Seq(1..M) /\ us = PlugAll(from, to, N, ws)
      BY <1>2, <1>6
    <2> HIDE DEF ws, us
    <2>2. DOMAIN ws = 1..Len(ws) /\ \A k \in 1..Len(ws) : ws[k] \in 1..M
      BY <2>1, LenProperties, ElementOfSeq
    <2>3. us = [k \in DOMAIN ws |-> P(ws[k])]
      BY <2>1 DEF PlugAll, P
    <2> QED BY <2>2, <2>3, <1>9 DEF ws, us
  <1>11. ASSUME NEW j \in 1..ng
         PROVE  /\ ai[nf + j].out = rho[gi[j].out]
                /\ rho[gi[j].out] = gi[j].out + N /\ gi[j].out + N \in 1..(N + M)
                /\ \A w \in (1..M) \ {gi[j].out} : rho[w] # rho[gi[j].out]
    <2>1. gi[j].out \in 1..M /\ rho[gi[j].out] = gi[j].out + N
      BY <1>6, <1>8, <1>9
    <2>2. ai[nf + j].out = rho[gi[j].out]
      BY <1>2, <1>9, <2>1
    <2>3. gi[j].out + N \in 1..(N + M) /\ gi[j].out + N \notin 1..N
      <3> DEFINE o == gi[j].out
      <3>1. o \in 1..M
        BY <2>1
      <3>2. N \in Nat /\ M \in Nat
        BY <1>2
      <3> HIDE DEF o, M
      <3>3. o + N \in 1..(N + M) /\ o + N \notin 1..N
        BY <3>1, <3>2
      <3> QED BY <3>3 DEF o
    <2>4. ASSUME NEW w \in (1..M) \ {gi[j].out} PROVE rho[w] # gi[j].out + N
      <3> DEFINE o == gi[j].out
      <3>1. o \in 1..M /\ w # o
        BY <2>1
      <3>2. rho[w] = P(w)
        BY <1>9
      <3>3. CASE w \in Range(from)
        <4>1. P(w) \in 1..N
          BY <3>3, <1>4, <1>5 DEF P
        <4> QED BY <4>1, <3>2, <2>3
      <3>4. CASE w \notin Range(from)
        <4>1. P(w) = w + N
          BY <3>4, <1>4 DEF P
        <4> HIDE DEF o
        <4>2. w + N # o + N
          BY <3>1, <1>2
        <4> QED BY <4>1, <4>2, <3>2 DEF o
      <3> QED BY <3>3, <3>4
    <2> QED BY <2>1, <2>2, <2>3, <2>4
  <1>12. Copied(g.graph, a.graph, rho, nf)
    <2>1. Wires(g.graph) = 1..M /\ Wires(a.graph) = 1..(N + M)
      BY <1>2 DEF Wires
    <2>2. ASSUME NEW i \in 1..ng
          PROVE  /\ ai[nf + i].op = gi[i].op
                 /\ DOMAIN ai[nf + i].ins = DOMAIN gi[i].ins
                 /\ \A k \in DOMAIN gi[i].ins : ai[nf + i].ins[k] = rho[gi[i].ins[k]]
                 /\ gi[i].out \in 1..M /\ ai[nf + i].out = rho[gi[i].out]
                 /\ ai[nf + i].out \in 1..(N + M)
                 /\ \A w \in (1..M) \ {gi[i].out} : rho[w] # rho[gi[i].out]
      <3> HIDE DEF M, gi, ai, ng
      <3>1. ai[nf + i].out \in 1..(N + M)
        BY <1>11
      <3> QED BY <3>1, <1>2, <1>6, <1>10, <1>11
    <2> HIDE DEF M
    <2> QED BY <2>1, <2>2 DEF Copied
  <1>13. Renamed(g.graph, rho) = {gi[j].out + N : j \in 1..ng}
    <2>1. \A j \in 1..ng : rho[gi[j].out] = gi[j].out + N
      BY <1>11
    <2>2. Renamed(g.graph, rho) = {rho[gi[j].out] : j \in 1..ng}
      BY <1>2 DEF Renamed
    <2> HIDE DEF gi, ng
    <2> QED BY <2>1, <2>2
  <1>14. ASSUME NEW j \in 1..ng PROVE gi[j].out + N \notin 1..N
    <2> DEFINE o == gi[j].out
    <2>1. o \in 1..M /\ N \in Nat
      BY <1>2, <1>6
    <2> HIDE DEF o, M
    <2>2. o + N \notin 1..N
      BY <2>1
    <2> QED BY <2>2 DEF o
  <1>15. ASSUME NEW w \in Range(g.inputs), NEW j \in 1..ng PROVE w + N # gi[j].out + N
    <2> DEFINE o == gi[j].out
    <2>1. w \in 1..M /\ o \in 1..M /\ w # o /\ N \in Nat
      BY <1>2, <1>6, <1>7
    <2> HIDE DEF o, M
    <2>2. w + N # o + N
      BY <2>1
    <2> QED BY <2>2 DEF o
  <1> QED BY <1>12, <1>13, <1>14, <1>15 DEF CopyAfter

\* A merged netlist runs both its parts.
LEMMA PluggedRuns ==
  ASSUME NEW f, NEW g, NEW a, NEW from, NEW to,
         Netlist(f), Netlist(g), Plugged(a, f, g, from, to),
         NEW v, NEW vf, NEW vg, NEW ef, NEW eg,
         Len(a.inputs) = Len(v), Len(f.inputs) = Len(vf), Len(g.inputs) = Len(vg),
         Leaves(f, vf, ef), Leaves(g, vg, eg), Feeds(a, f, g, from, to, v, vf, vg, ef)
  PROVE  \E env : Leaves(a, v, env) /\ Joined(env, f, g, from, to, ef, eg)
  <1> DEFINE N == WireCount(f.graph)
             M == WireCount(g.graph)
             nf == Len(f.graph.instrs)
             ng == Len(g.graph.instrs)
             P(w) == Plug(from, to, N, w)
             id == [w \in Wires(f.graph) |-> w]
             rho == [w \in Wires(g.graph) |-> P(w)]
             in == InputEnv(a.graph, a.inputs, v)
             inF == InputEnv(f.graph, f.inputs, vf)
             inG == InputEnv(g.graph, g.inputs, vg)
  <1>1. Netlist(a)
    BY MergedNetlist
  <1>2. PICK F : IsRun(f, vf, F)
    BY RunExists
  <1>3. PICK G : IsRun(g, vg, G)
    BY RunExists
  <1>4. PICK A : IsRun(a, v, A)
    BY <1>1, RunExists
  <1>5. ShapedGraph(f.graph) /\ ShapedGraph(g.graph)
    BY DEF Netlist, Shaped, ShapedGraph
  <1>6. IsMerge(a.graph, f.graph, g.graph, from, to)
    BY <1>5, Merged DEF Plugged
  <1>7. /\ N \in Nat /\ M \in Nat /\ nf \in Nat /\ ng \in Nat
        /\ WireCount(a.graph) = N + M
        /\ Len(a.graph.instrs) = nf + ng
        /\ DOMAIN f.graph.instrs = 1..nf /\ DOMAIN g.graph.instrs = 1..ng
        /\ \A i \in 1..nf : a.graph.instrs[i] = f.graph.instrs[i]
    BY <1>6 DEF IsMerge
  <1>8. /\ Wires(f.graph) = 1..N /\ Wires(g.graph) = 1..M
        /\ Wires(f.graph) \subseteq Wires(a.graph)
    BY <1>7 DEF Wires
  <1>9. /\ F[0] = Ok(inF) /\ G[0] = Ok(inG) /\ A[0] = Ok(in)
        /\ \A i \in 1..nf : Follows(f.graph, F[i - 1], i, F[i])
        /\ \A i \in 1..ng : Follows(g.graph, G[i - 1], i, G[i])
        /\ \A i \in 1..(nf + ng) : Follows(a.graph, A[i - 1], i, A[i])
        /\ F[nf].err = "none" /\ F[nf].val = ef
        /\ G[ng].err = "none" /\ G[ng].val = eg
        /\ Interpret(a.graph, a.inputs, v) = A[nf + ng]
    BY <1>2, <1>3, <1>4, <1>7 DEF IsRun, Leaves
  <1>10. /\ DOMAIN in = Range(a.inputs) /\ DOMAIN inF = Range(f.inputs)
         /\ DOMAIN inG = Range(g.inputs)
    BY <1>1, InputsDriven DEF InputEnv
  <1>11. /\ Range(f.inputs) \subseteq 1..N /\ Range(g.inputs) \subseteq 1..M
         /\ Range(a.inputs) = Range(f.inputs) \cup {w + N : w \in Range(g.inputs) \ Range(from)}
         /\ Range(from) \subseteq Range(g.inputs)
    BY RangeOfSeq DEF Netlist, Shaped, Wires, Plugged
  <1>12. /\ \A w \in Range(f.inputs) : in[w] = inF[w]
         /\ \A w \in Range(g.inputs) \ Range(from) : in[w + N] = inG[w]
         /\ \A w \in Range(from) : P(w) \in DOMAIN ef /\ ef[P(w)] = inG[w]
    BY DEF Feeds
  <1>13. ASSUME NEW w \in 1..M, w \notin Range(from) PROVE P(w) = w + N
    <2>1. from \in Seq(1..M) /\ to \in Seq(1..N) /\ Len(from) = Len(to)
      BY DEF Plugged, Wires
    <2> QED BY <2>1, <1>7, <1>13, PlugWire
  <1>14. /\ DOMAIN ef \subseteq 1..N /\ DOMAIN eg \subseteq 1..M
         /\ Range(f.inputs) \subseteq DOMAIN ef /\ Range(g.inputs) \subseteq DOMAIN eg
    BY <1>8 DEF Leaves
  <1>15. Copied(f.graph, a.graph, id, 0) /\ Renamed(f.graph, id) \subseteq 1..N
    <2>1. Copied(f.graph, a.graph, id, 0) /\ Renamed(f.graph, id) = DrivenBy(f)
      BY <1>7, <1>8, CopyInPlace
    <2>2. DrivenBy(f) \subseteq 1..N
      BY <1>8 DEF DrivenBy, Netlist, Shaped
    <2> QED BY <2>1, <2>2
  <1>16. /\ Copied(g.graph, a.graph, rho, nf)
         /\ Renamed(g.graph, rho) \cap (1..N) = {}
         /\ \A w \in Range(g.inputs) : w + N \notin Renamed(g.graph, rho)
    <2>1. rho = [w \in Wires(g.graph) |-> Plug(from, to, N, w)]
      OBVIOUS
    <2> HIDE DEF rho
    <2>2. CopyAfter(a, g, rho, nf, N)
      BY <2>1, CopyPlugged
    <2> QED BY <2>2 DEF CopyAfter
  <1>17. (\A w \in 1..N : id[w] = w) /\ (\A w \in 1..M : rho[w] = P(w))
    BY <1>8
  <1> HIDE DEF N, M, nf, ng, P, id, rho, in, inF, inG
  <1>18. Mirrors(f.graph, id, in, F[0], A[0])
    <2>1. /\ F[0].err = "none" /\ F[0].val = inF /\ A[0].err = "none" /\ A[0].val = in
      BY <1>9 DEF Ok
    <2>2. \A w \in DOMAIN inF : id[w] \in DOMAIN in /\ in[id[w]] = inF[w]
      BY <1>10, <1>11, <1>12, <1>17
    <2>3. DOMAIN inF \subseteq Wires(f.graph)
      BY <1>8, <1>10, <1>11
    <2> QED BY <2>1, <2>2, <2>3 DEF Mirrors
  <1>19. Mirrors(f.graph, id, in, F[nf], A[nf])
    <2> DEFINE gg == f.graph
               hh == a.graph
    <2>1. 0 \in Nat /\ 0 + nf = nf /\ nf = Len(gg.instrs) /\ DOMAIN gg.instrs = 1..nf
      BY <1>7 DEF nf
    <2>2. ASSUME NEW i \in 1..nf PROVE Follows(hh, A[(0 + i) - 1], 0 + i, A[0 + i])
      <3>1. 0 + i = i /\ i \in 1..(nf + ng)
        BY <1>7
      <3> QED BY <3>1, <1>9
    <2>3. Copied(gg, hh, id, 0) /\ Mirrors(gg, id, in, F[0], A[0])
      BY <1>15, <1>18
    <2>4. \A i \in 1..nf : Follows(gg, F[i - 1], i, F[i])
      BY <1>9
    <2> HIDE DEF gg, hh
    <2>5. Mirrors(gg, id, in, F[nf], A[0 + nf])
      BY <2>1, <2>2, <2>3, <2>4, <1>7, CopyRuns
    <2> QED BY <2>1, <2>5 DEF gg
  <1> DEFINE mid == A[nf].val
  <1>20. /\ A[nf].err = "none"
         /\ \A w \in DOMAIN ef : w \in DOMAIN mid /\ mid[w] = ef[w]
         /\ \A x \in DOMAIN in \ (1..N) : x \in DOMAIN mid /\ mid[x] = in[x]
         /\ \A x \in DOMAIN mid : x \in DOMAIN in \/ x \in DOMAIN ef
    <2>1. /\ A[nf].err = "none"
          /\ \A w \in DOMAIN ef : id[w] \in DOMAIN mid /\ mid[id[w]] = ef[w]
          /\ \A x \in DOMAIN in \ Renamed(f.graph, id) : x \in DOMAIN mid /\ mid[x] = in[x]
          /\ \A x \in DOMAIN mid : x \in DOMAIN in \/ \E w \in DOMAIN ef : x = id[w]
      BY <1>9, <1>19 DEF Mirrors
    <2> HIDE DEF mid
    <2> QED BY <2>1, <1>14, <1>15, <1>17
  <1> HIDE DEF mid
  <1>21. Mirrors(g.graph, rho, mid, G[0], A[nf])
    <2>1. G[0].err = "none" /\ G[0].val = inG /\ A[nf].val = mid
      BY <1>9 DEF Ok, mid
    <2>2. ASSUME NEW w \in DOMAIN inG PROVE rho[w] \in DOMAIN mid /\ mid[rho[w]] = inG[w]
      <3>1. w \in Range(g.inputs) /\ w \in 1..M /\ rho[w] = P(w)
        BY <1>10, <1>11, <1>17
      <3>2. CASE w \in Range(from)
        BY <3>1, <3>2, <1>12, <1>20
      <3>3. CASE w \notin Range(from)
        <4>1. P(w) = w + N /\ w + N \in DOMAIN in /\ in[w + N] = inG[w]
          BY <3>1, <3>3, <1>10, <1>11, <1>12, <1>13
        <4>2. w + N \notin 1..N
          BY <3>1, <1>7
        <4> QED BY <4>1, <4>2, <3>1, <1>20
      <3> QED BY <3>2, <3>3
    <2>3. DOMAIN inG \subseteq Wires(g.graph)
      BY <1>8, <1>10, <1>11
    <2> QED BY <2>1, <2>2, <2>3, <1>20 DEF Mirrors
  <1>22. Mirrors(g.graph, rho, mid, G[ng], A[nf + ng])
    <2> DEFINE gg == g.graph
               hh == a.graph
    <2>1. ng = Len(gg.instrs) /\ DOMAIN gg.instrs = 1..ng
      BY <1>7 DEF ng
    <2>2. ASSUME NEW i \in 1..ng PROVE Follows(hh, A[(nf + i) - 1], nf + i, A[nf + i])
      <3>1. nf + i \in 1..(nf + ng)
        BY <1>7
      <3> QED BY <3>1, <1>9
    <2>3. Copied(gg, hh, rho, nf) /\ Mirrors(gg, rho, mid, G[0], A[nf])
      BY <1>16, <1>21
    <2>4. \A i \in 1..ng : Follows(gg, G[i - 1], i, G[i])
      BY <1>9
    <2> HIDE DEF gg, hh
    <2>5. Mirrors(gg, rho, mid, G[ng], A[nf + ng])
      BY <2>1, <2>2, <2>3, <2>4, <1>7, CopyRuns
    <2> QED BY <2>5 DEF gg
  <1> DEFINE env == A[nf + ng].val
  <1>23. /\ A[nf + ng].err = "none"
         /\ \A w \in DOMAIN eg : rho[w] \in DOMAIN env /\ env[rho[w]] = eg[w]
         /\ \A x \in DOMAIN mid \ Renamed(g.graph, rho) : x \in DOMAIN env /\ env[x] = mid[x]
         /\ \A x \in DOMAIN env : x \in DOMAIN mid \/ \E w \in DOMAIN eg : x = rho[w]
    BY <1>9, <1>22 DEF Mirrors
  <1>24. Leaves(a, v, env)
    <2>1. nf + ng = Len(a.graph.instrs)
      BY <1>7
    <2> QED BY <2>1, <1>1, <1>4, <1>23, RunKeepsInputs
  <1> HIDE DEF env
  <1>25. \A w \in DOMAIN ef : w \in DOMAIN env /\ env[w] = ef[w]
    BY <1>14, <1>16, <1>20, <1>23
  <1>26. \A w \in DOMAIN eg : P(w) \in DOMAIN env /\ env[P(w)] = eg[w]
    BY <1>14, <1>17, <1>23
  <1>27. ASSUME NEW x \in DOMAIN env
         PROVE  x \in DOMAIN ef \/ \E w \in DOMAIN eg : x = P(w)
    <2>1. CASE \E w \in DOMAIN eg : x = rho[w]
      BY <2>1, <1>14, <1>17
    <2>2. CASE x \in DOMAIN in
      <3>1. CASE x \in Range(f.inputs)
        BY <3>1, <1>14
      <3>2. CASE x \notin Range(f.inputs)
        <4>1. PICK w \in Range(g.inputs) \ Range(from) : x = w + N
          BY <3>2, <2>2, <1>10, <1>11
        <4>2. x = P(w) /\ w \in DOMAIN eg
          BY <4>1, <1>11, <1>13, <1>14
        <4> QED BY <4>2
      <3> QED BY <3>1, <3>2
    <2>3. CASE x \in DOMAIN ef
      BY <2>3
    <2> QED BY <2>1, <2>2, <2>3, <1>20, <1>23
  <1>28. Joined(env, f, g, from, to, ef, eg)
    BY <1>25, <1>26, <1>27 DEF Joined, P, N
  <1> QED BY <1>24, <1>28

---------------------------------------------------------------------------
(* What composition and tensor compute *)

\* a computes x from v, and every value on the way fits its wire.
Computes(a, v, x) == Evaluate(a, v) = Ok(x) /\ ValuesFit(a, v)

Reads(env, ws, x) ==
  /\ \A k \in DOMAIN ws : ws[k] \in DOMAIN env
  /\ x = [k \in DOMAIN ws |-> env[ws[k]]]

EnvFits(env, wires) == \A w \in DOMAIN env : Len(env[w]) = Width(wires[w])

LEMMA ComputesLeaves ==
  ASSUME NEW a, Netlist(a), NEW v, Len(a.inputs) = Len(v), NEW x, Computes(a, v, x)
  PROVE  \E env : Leaves(a, v, env) /\ Reads(env, a.outputs, x) /\ EnvFits(env, a.graph.wires)
  <1> DEFINE r == Interpret(a.graph, a.inputs, v)
             env == r.val
             ws == a.outputs
  <1>1. PICK f : IsRun(a, v, f)
    BY RunExists
  <1>2. r.err = "none" /\ ReadAll(env, ws) = Ok(x)
    <2> HIDE DEF r
    <2>1. (IF r.err # "none" THEN r ELSE ReadAll(r.val, ws)) = Ok(x)
      BY DEF Computes, Evaluate, r
    <2>2. Ok(x).err = "none"
      BY DEF Ok
    <2> QED BY <2>1, <2>2
  <1>3. Reads(env, ws, x)
    <2> HIDE DEF env, ws
    <2>1. Ok(x).err = "none" /\ Ok(x).val = x /\ Fail("UndefinedSignal").err # "none"
      BY DEF Ok, Fail
    <2>2. \A k \in DOMAIN ws : ws[k] \in DOMAIN env
      BY <1>2, <2>1 DEF ReadAll
    <2> DEFINE y == [k \in DOMAIN ws |-> env[ws[k]]]
    <2>3. Ok(y) = Ok(x)
      BY <1>2, <2>2 DEF ReadAll
    <2> HIDE DEF y
    <2>4. y = x
      BY <2>3 DEF Ok
    <2> QED BY <2>2, <2>4 DEF Reads, y
  <1>4. Leaves(a, v, env)
    <2> DEFINE n == Len(a.graph.instrs)
    <2>1. r = f[n] /\ f[n].err = "none"
      BY <1>1, <1>2 DEF IsRun
    <2> HIDE DEF n, r
    <2>2. Leaves(a, v, f[n].val)
      BY <1>1, <2>1, RunKeepsInputs DEF n
    <2> QED BY <2>1, <2>2
  <1>5. EnvFits(env, a.graph.wires)
    BY DEF Computes, ValuesFit, EnvFits
  <1> QED BY <1>3, <1>4, <1>5

LEMMA LeavesComputes ==
  ASSUME NEW a, NEW v, NEW x, NEW env,
         Leaves(a, v, env), Reads(env, a.outputs, x), EnvFits(env, a.graph.wires)
  PROVE  Computes(a, v, x)
  <1> DEFINE r == Interpret(a.graph, a.inputs, v)
  <1>1. r.err = "none" /\ r.val = env
    BY DEF Leaves
  <1> HIDE DEF r
  <1>2. ReadAll(env, a.outputs) = Ok(x)
    BY DEF Reads, ReadAll
  <1>3. Evaluate(a, v) = Ok(x)
    BY <1>1, <1>2 DEF Evaluate, r
  <1>4. ValuesFit(a, v)
    BY <1>1 DEF ValuesFit, EnvFits, r
  <1> QED BY <1>3, <1>4 DEF Computes

\* What two parts leave on wires of equal types fits the merged wires.
LEMMA JoinedFits ==
  ASSUME NEW f, NEW g, NEW a, NEW from, NEW to,
         Netlist(f), Netlist(g), Plugged(a, f, g, from, to),
         Agree(f.graph.wires, to, g.graph.wires, from),
         NEW ef, DOMAIN ef \subseteq Wires(f.graph), EnvFits(ef, f.graph.wires),
         NEW eg, DOMAIN eg \subseteq Wires(g.graph), EnvFits(eg, g.graph.wires),
         NEW env, Joined(env, f, g, from, to, ef, eg)
  PROVE  EnvFits(env, a.graph.wires)
  <1> DEFINE N == WireCount(f.graph)
             M == WireCount(g.graph)
             fw == f.graph.wires
             gw == g.graph.wires
             aw == a.graph.wires
             P(w) == Plug(from, to, N, w)
  <1>1. /\ N \in Nat /\ M \in Nat /\ Beside(aw, fw, N, gw, M)
    BY MergedTypes DEF Plugged, Netlist, Shaped, ShapedGraph
  <1>2. PluggedTypes(aw, fw, N, gw, M, from, to)
    BY <1>1 DEF PluggedTypes, Plugged, Wires
  <1>3. /\ \A w \in DOMAIN ef : env[w] = ef[w] /\ w \in 1..N /\ Len(ef[w]) = Width(fw[w])
        /\ \A w \in DOMAIN eg : env[P(w)] = eg[w] /\ w \in 1..M /\ Len(eg[w]) = Width(gw[w])
        /\ \A x \in DOMAIN env : x \in DOMAIN ef \/ \E w \in DOMAIN eg : x = P(w)
    BY DEF Joined, EnvFits, Wires
  <1> HIDE DEF N, M, fw, gw, aw
  <1>4. ASSUME NEW w \in 1..M PROVE aw[P(w)] = gw[w]
    BY <1>2, PlugTyped
  <1> HIDE DEF P
  <1>5. ASSUME NEW x \in DOMAIN env PROVE Len(env[x]) = Width(aw[x])
    <2>1. CASE x \in DOMAIN ef
      BY <2>1, <1>1, <1>3 DEF Beside
    <2>2. CASE \E w \in DOMAIN eg : x = P(w)
      <3>1. PICK w \in DOMAIN eg : x = P(w)
        BY <2>2
      <3> QED BY <3>1, <1>3, <1>4
    <2> QED BY <2>1, <2>2, <1>3
  <1> QED BY <1>5 DEF EnvFits, aw

\* A plugged input takes the output of its first position.
LEMMA PlugFirst ==
  ASSUME NEW S, NEW T, NEW from \in Seq(S), NEW to \in Seq(T), Len(from) = Len(to),
         NEW N, NEW w \in Range(from)
  PROVE  /\ FirstAt(from, w) \in 1..Len(from) /\ from[FirstAt(from, w)] = w
         /\ Plug(from, to, N, w) = to[FirstAt(from, w)]
  <1> DEFINE n == Len(from)
             at == {k \in 1..n : from[k] = w}
             m == Min(at)
  <1>1. n \in Nat /\ DOMAIN from = 1..n
    BY LenProperties
  <1>2. at # {}
    BY <1>1 DEF Range
  <1>3. Plug(from, to, N, w) = to[m]
    BY <1>2 DEF Plug
  <1>4. m \in at /\ \A j \in at : m =< j
    <2>1. at \in SUBSET (1..n) /\ n \in Int
      BY <1>1
    <2>2. \E k \in at : \A j \in at : k =< j
      <3> HIDE DEF at, n
      <3> QED BY <2>1, <1>2, LeastExists
    <2> HIDE DEF at
    <2> QED BY <2>2 DEF Min
  <1>5. m \in 1..n /\ from[m] = w /\ \A j \in 1..(m - 1) : from[j] # from[m]
    <2> HIDE DEF m
    <2>1. m \in 1..n /\ from[m] = w
      BY <1>4
    <2>2. ASSUME NEW j \in 1..(m - 1), from[j] = w PROVE FALSE
      <3>1. j \in at /\ ~(m =< j)
        BY <1>1, <2>1, <2>2
      <3> QED BY <3>1, <1>4
    <2> QED BY <2>1, <2>2
  <1> HIDE DEF m
  <1>6. FirstAt(from, from[m]) = m
    BY <1>5, FirstIs
  <1> QED BY <1>3, <1>5, <1>6

LEMMA ComposeComputes ==
  ASSUME NEW f, NEW g, NEW d, NEW c, NEW e, Netlist(f), Netlist(g),
         Len(f.outputs) = Len(g.inputs), TypedEnds(f, d, c), TypedEnds(g, c, e),
         NEW v, Len(f.inputs) = Len(v), NEW x, Computes(f, v, x), NEW y, Computes(g, x, y)
  PROVE  Computes(Compose(f, g), v, y)
  <1> DEFINE a == Compose(f, g)
             N == WireCount(f.graph)
             M == WireCount(g.graph)
             from == g.inputs
             to == f.outputs
             ends == g.outputs
             P(w) == Plug(from, to, N, w)
  <1>1. /\ Plugged(a, f, g, from, to) /\ Netlist(a)
        /\ a.inputs = f.inputs /\ a.outputs = PlugAll(from, to, N, ends)
    BY ComposePlugs, ComposeSound DEF Compose, Arrow
  <1> HIDE DEF a
  <1>2. /\ from \in Seq(1..M) /\ to \in Seq(1..N) /\ ends \in Seq(1..M)
        /\ Len(from) = Len(to)
    BY DEF Netlist, Shaped, Wires
  <1>3. PICK ef : Leaves(f, v, ef) /\ Reads(ef, to, x) /\ EnvFits(ef, f.graph.wires)
    BY ComputesLeaves
  <1>4. /\ \A k \in 1..Len(from) : to[k] \in DOMAIN ef /\ x[k] = ef[to[k]]
        /\ Len(from) = Len(x)
    <2> HIDE DEF from, to
    <2>1. DOMAIN to = 1..Len(to) /\ Len(to) \in Nat
      BY <1>2, LenProperties
    <2>2. x = [k \in 1..Len(to) |-> ef[to[k]]] /\ \A k \in 1..Len(to) : to[k] \in DOMAIN ef
      BY <1>3, <2>1 DEF Reads
    <2>3. x \in [1..Len(to) -> Range(x)]
      BY <2>2 DEF Range
    <2>4. Len(x) = Len(to)
      BY <2>1, <2>3, FunctionIsSeq
    <2> QED BY <1>2, <2>2, <2>4
  <1>5. PICK eg : Leaves(g, x, eg) /\ Reads(eg, ends, y) /\ EnvFits(eg, g.graph.wires)
    BY <1>4, ComputesLeaves
  <1>6. Feeds(a, f, g, from, to, v, v, x, ef)
    <2> DEFINE in == InputEnv(a.graph, a.inputs, v)
               inF == InputEnv(f.graph, f.inputs, v)
               inG == InputEnv(g.graph, g.inputs, x)
    <2>1. /\ in = [w \in Range(a.inputs) |-> v[FirstAt(a.inputs, w)]]
          /\ inF = [w \in Range(f.inputs) |-> v[FirstAt(f.inputs, w)]]
          /\ inG = [w \in Range(from) |-> x[FirstAt(from, w)]]
      BY <1>1, InputsDriven DEF InputEnv
    <2>2. \A w \in Range(f.inputs) : in[w] = inF[w]
      BY <1>1, <2>1
    <2>3. ASSUME NEW w \in Range(from) PROVE P(w) \in DOMAIN ef /\ ef[P(w)] = inG[w]
      <3>1. FirstAt(from, w) \in 1..Len(from) /\ P(w) = to[FirstAt(from, w)]
        <4> HIDE DEF from, to, N
        <4> QED BY <1>2, PlugFirst
      <3>2. inG[w] = x[FirstAt(from, w)]
        BY <2>1
      <3> HIDE DEF P, inG
      <3> QED BY <3>1, <3>2, <1>4
    <2> QED BY <2>2, <2>3 DEF Feeds
  <1>7. PICK env : Leaves(a, v, env) /\ Joined(env, f, g, from, to, ef, eg)
    BY <1>1, <1>3, <1>4, <1>5, <1>6, PluggedRuns
  <1>8. EnvFits(env, a.graph.wires)
    <2>1. Agree(f.graph.wires, to, g.graph.wires, from)
      <3> DEFINE fw == f.graph.wires
                 gw == g.graph.wires
      <3>1. DOMAIN from = 1..Len(from) /\ DOMAIN to = 1..Len(from)
        BY <1>2, LenProperties
      <3>2. [k \in DOMAIN to |-> fw[to[k]]] = [k \in DOMAIN from |-> gw[from[k]]]
        BY DEF TypedEnds, Types
      <3> HIDE DEF from, to, fw, gw
      <3>3. Agree(fw, to, gw, from)
        BY <3>1, <3>2 DEF Agree
      <3> QED BY <3>3 DEF fw, gw
    <2>2. DOMAIN ef \subseteq Wires(f.graph) /\ DOMAIN eg \subseteq Wires(g.graph)
      BY <1>3, <1>5 DEF Leaves
    <2> HIDE DEF from, to
    <2> QED BY <2>1, <2>2, <1>1, <1>3, <1>5, <1>7, JoinedFits
  <1>9. Reads(env, a.outputs, y)
    <2>1. \A w \in DOMAIN eg : P(w) \in DOMAIN env /\ env[P(w)] = eg[w]
      BY <1>7 DEF Joined
    <2>2. y = [k \in DOMAIN ends |-> eg[ends[k]]] /\ \A k \in DOMAIN ends : ends[k] \in DOMAIN eg
      BY <1>5 DEF Reads
    <2>3. a.outputs = [k \in DOMAIN ends |-> P(ends[k])]
      BY <1>1 DEF PlugAll
    <2> HIDE DEF P, ends
    <2> QED BY <2>1, <2>2, <2>3 DEF Reads
  <1> QED BY <1>7, <1>8, <1>9, LeavesComputes DEF a

\* Where the wires of s and of t come first in r, t's shifted by N.
Firsts(r, s, t, N) ==
  /\ \A w \in Range(s) : FirstAt(s, w) \in 1..Len(s) /\ FirstAt(r, w) = FirstAt(s, w)
  /\ \A w \in Range(t) : /\ FirstAt(t, w) \in 1..Len(t)
                        /\ FirstAt(r, w + N) = Len(s) + FirstAt(t, w)

\* The first position of a wire in one of two lists, the second shifted past
\* the wires of the first.
LEMMA FirstBeside ==
  ASSUME NEW N \in Nat, NEW M \in Nat, NEW s \in Seq(1..N), NEW t \in Seq(1..M),
         NEW r, r = s \o ShiftWires(t, N)
  PROVE  Firsts(r, s, t, N)
  <1> DEFINE u == ShiftWires(t, N)
  <1>1. /\ u \in Seq(1..(N + M)) /\ Len(u) = Len(t)
        /\ Len(s) \in Nat /\ Len(t) \in Nat /\ DOMAIN s = 1..Len(s) /\ DOMAIN t = 1..Len(t)
        /\ \A k \in 1..Len(s) : s[k] \in 1..N
        /\ \A k \in 1..Len(t) : t[k] \in 1..M
    BY ShiftedWires, LenProperties, ElementOfSeq
  <1>2. \A k \in 1..Len(t) : u[k] = t[k] + N
    BY <1>1 DEF ShiftWires
  <1> HIDE DEF u
  <1>3. IsConcat(r, s, u)
    <2>1. s \in Seq(Range(s)) /\ u \in Seq(Range(u)) /\ r = s \o u
      BY <1>1, SeqOfRange DEF u
    <2> QED BY <2>1, ConcatSplits
  <1>4. /\ r \in Seq(Range(r)) /\ Len(r) = Len(s) + Len(t)
        /\ \A k \in 1..Len(s) : r[k] = s[k]
        /\ \A k \in 1..Len(t) : r[Len(s) + k] = t[k] + N
    BY <1>1, <1>2, <1>3 DEF IsConcat
  <1>5. ASSUME NEW w \in Range(s)
        PROVE  FirstAt(s, w) \in 1..Len(s) /\ FirstAt(r, w) = FirstAt(s, w)
    <2> DEFINE k == FirstAt(s, w)
    <2>1. k \in 1..Len(s) /\ s[k] = w /\ \A j \in 1..(k - 1) : s[j] # w
      <3>1. \E i \in DOMAIN s : s[i] = w
        BY DEF Range
      <3> QED BY <3>1, FirstPosition
    <2> HIDE DEF k
    <2>2. k \in 1..Len(r) /\ r[k] = w /\ \A j \in 1..(k - 1) : r[j] # w
      BY <2>1, <1>1, <1>4
    <2>3. FirstAt(r, r[k]) = k
      BY <2>2, <1>4, FirstIs
    <2> QED BY <2>1, <2>2, <2>3 DEF k
  <1>6. ASSUME NEW w \in Range(t)
        PROVE  FirstAt(t, w) \in 1..Len(t) /\ FirstAt(r, w + N) = Len(s) + FirstAt(t, w)
    <2> DEFINE k == FirstAt(t, w)
               p == Len(s) + k
    <2>1. k \in 1..Len(t) /\ t[k] = w /\ \A j \in 1..(k - 1) : t[j] # w
      <3>1. \E i \in DOMAIN t : t[i] = w
        BY DEF Range
      <3> QED BY <3>1, FirstPosition
    <2> HIDE DEF k
    <2>2. p \in 1..Len(r) /\ r[p] = w + N /\ w \in 1..M
      BY <2>1, <1>1, <1>4
    <2>3. ASSUME NEW j \in 1..(p - 1) PROVE r[j] # w + N
      <3>1. CASE j <= Len(s)
        <4>1. r[j] \in 1..N /\ w + N \notin 1..N
          BY <3>1, <1>1, <1>4, <2>2
        <4> QED BY <4>1
      <3>2. CASE ~(j <= Len(s))
        <4>1. j \in 1..(Len(s) + Len(t))
          BY <1>1, <2>1
        <4>2. PICK i \in 1..Len(t) : j = Len(s) + i
          BY <3>2, <4>1, <1>1, InSecondPart
        <4>3. i \in 1..(k - 1)
          <5>1. Len(s) \in Nat /\ k \in Int /\ i \in Int /\ 1 <= i
            BY <1>1, <2>1
          <5>2. Len(s) + i <= Len(s) + k - 1
            BY <4>2, <5>1
          <5> QED BY <5>1, <5>2
        <4>4. r[j] = t[i] + N /\ t[i] \in 1..M /\ t[i] # w
          BY <4>2, <4>3, <1>1, <1>4, <2>1
        <4> DEFINE q == t[i]
        <4>5. q \in 1..M /\ q # w /\ r[j] = q + N
          BY <4>4
        <4> HIDE DEF q
        <4> QED BY <4>5, <2>2
      <3> QED BY <3>1, <3>2
    <2> HIDE DEF p
    <2>4. FirstAt(r, r[p]) = p
      <3>1. \A j \in 1..(p - 1) : r[j] # r[p]
        BY <2>2, <2>3
      <3> QED BY <3>1, <2>2, <1>4, FirstIs
    <2> QED BY <2>1, <2>2, <2>4 DEF k, p
  <1> QED BY <1>5, <1>6 DEF Firsts

\* v lists what l lists and then what r lists.
IsBeside(v, l, r) ==
  /\ Len(v) = Len(l) + Len(r)
  /\ \A k \in 1..Len(l) : v[k] = l[k]
  /\ \A k \in 1..Len(r) : v[Len(l) + k] = r[k]

LEMMA TensorComputes ==
  ASSUME NEW f, NEW g, Netlist(f), Netlist(g), NEW v, NEW l, NEW r, IsBeside(v, l, r),
         Len(f.inputs) = Len(l), Len(g.inputs) = Len(r),
         NEW x, Computes(f, l, x), NEW y, Computes(g, r, y)
  PROVE  Computes(Tensor(f, g), v, x \o y)
  <1> DEFINE a == Tensor(f, g)
             N == WireCount(f.graph)
             M == WireCount(g.graph)
             P(w) == Plug(<<>>, <<>>, N, w)
             fin == f.inputs
             gin == g.inputs
             fout == f.outputs
             gout == g.outputs
             ws == a.outputs
  <1>1. /\ Plugged(a, f, g, <<>>, <<>>) /\ Netlist(a)
        /\ Len(a.inputs) = Len(fin) + Len(gin)
        /\ a.inputs = fin \o ShiftWires(gin, N)
        /\ a.outputs = fout \o ShiftWires(gout, N)
    BY TensorPlugs, TensorSound DEF Tensor, Arrow
  <1> HIDE DEF a
  <1>2. /\ fin \in Seq(1..N) /\ gin \in Seq(1..M) /\ fout \in Seq(1..N) /\ gout \in Seq(1..M)
        /\ N \in Nat /\ M \in Nat
    BY LenProperties DEF Netlist, Shaped, Wires, WireCount
  <1>3. PICK ef : Leaves(f, l, ef) /\ Reads(ef, fout, x) /\ EnvFits(ef, f.graph.wires)
    BY ComputesLeaves
  <1>4. PICK eg : Leaves(g, r, eg) /\ Reads(eg, gout, y) /\ EnvFits(eg, g.graph.wires)
    BY ComputesLeaves
  <1>5. \A w : P(w) = w + N
    BY PlugNothing
  <1>6. Feeds(a, f, g, <<>>, <<>>, v, l, r, ef)
    <2> DEFINE in == InputEnv(a.graph, a.inputs, v)
               inF == InputEnv(f.graph, f.inputs, l)
               inG == InputEnv(g.graph, g.inputs, r)
               as == a.inputs
    <2>1. /\ in = [w \in Range(as) |-> v[FirstAt(as, w)]]
          /\ inF = [w \in Range(fin) |-> l[FirstAt(fin, w)]]
          /\ inG = [w \in Range(gin) |-> r[FirstAt(gin, w)]]
      BY <1>1, InputsDriven DEF InputEnv
    <2>2. Range(as) = Range(fin) \cup {w + N : w \in Range(gin)} /\ Range(<<>>) = {}
      <3>1. Range(<<>>) = {}
        BY DEF Range
      <3>2. Range(as) = Range(fin) \cup {w + N : w \in Range(gin) \ Range(<<>>)}
        BY <1>1 DEF Plugged
      <3> QED BY <3>1, <3>2
    <2>3. Firsts(as, fin, gin, N)
      <3>1. as = fin \o ShiftWires(gin, N)
        BY <1>1
      <3> HIDE DEF as, fin, gin, N, M
      <3> QED BY <3>1, <1>2, FirstBeside
    <2>4. \A w \in Range(fin) : in[w] = inF[w]
      <3>1. Len(fin) = Len(l)
        OBVIOUS
      <3> HIDE DEF in, inF, inG, as, fin, gin, N, M
      <3> QED BY <3>1, <2>1, <2>2, <2>3 DEF IsBeside, Firsts
    <2>5. \A w \in Range(gin) : in[w + N] = inG[w]
      <3>1. Len(fin) = Len(l) /\ Len(gin) = Len(r)
        OBVIOUS
      <3> HIDE DEF in, inF, inG, as, fin, gin, N, M
      <3> QED BY <3>1, <2>1, <2>2, <2>3 DEF IsBeside, Firsts
    <2> HIDE DEF in, inF, inG
    <2> QED BY <2>2, <2>4, <2>5 DEF Feeds, in, inF, inG
  <1>7. PICK env : Leaves(a, v, env) /\ Joined(env, f, g, <<>>, <<>>, ef, eg)
    <2>1. Len(a.inputs) = Len(v)
      BY <1>1 DEF IsBeside
    <2> QED BY <2>1, <1>1, <1>3, <1>4, <1>6, PluggedRuns
  <1>8. EnvFits(env, a.graph.wires)
    <2>1. Agree(f.graph.wires, <<>>, g.graph.wires, <<>>)
      BY DEF Agree
    <2>2. DOMAIN ef \subseteq Wires(f.graph) /\ DOMAIN eg \subseteq Wires(g.graph)
      BY <1>3, <1>4 DEF Leaves
    <2> QED BY <2>1, <2>2, <1>1, <1>3, <1>4, <1>7, JoinedFits
  <1>9. Reads(env, ws, x \o y)
    <2> DEFINE u == ShiftWires(gout, N)
    <2>1. /\ \A w \in DOMAIN ef : w \in DOMAIN env /\ env[w] = ef[w]
          /\ \A w \in DOMAIN eg : w + N \in DOMAIN env /\ env[w + N] = eg[w]
      BY <1>5, <1>7 DEF Joined
    <2>2. /\ x = [k \in DOMAIN fout |-> ef[fout[k]]]
          /\ \A k \in DOMAIN fout : fout[k] \in DOMAIN ef
          /\ y = [k \in DOMAIN gout |-> eg[gout[k]]]
          /\ \A k \in DOMAIN gout : gout[k] \in DOMAIN eg
      BY <1>3, <1>4 DEF Reads
    <2> HIDE DEF fin, gin, fout, gout
    <2>3. /\ Len(fout) \in Nat /\ DOMAIN fout = 1..Len(fout)
          /\ Len(gout) \in Nat /\ DOMAIN gout = 1..Len(gout)
      BY <1>2, LenProperties
    <2>4. u \in Seq(1..(N + M)) /\ Len(u) = Len(gout)
      <3> HIDE DEF N, M
      <3> QED BY <1>2, ShiftedWires
    <2>5. \A k \in 1..Len(gout) : u[k] = gout[k] + N
      BY <2>3 DEF ShiftWires
    <2>6. ws = fout \o u
      BY <1>1 DEF fout, gout
    <2> HIDE DEF u, ws, N, M
    <2>7. IsConcat(ws, fout, u)
      <3>1. fout \in Seq(Range(fout)) /\ u \in Seq(Range(u))
        BY <1>2, <2>4, SeqOfRange
      <3> QED BY <3>1, <2>6, ConcatSplits
    <2>8. x \in Seq(Range(x)) /\ Len(x) = Len(fout) /\ y \in Seq(Range(y)) /\ Len(y) = Len(gout)
      <3>1. x \in [1..Len(fout) -> Range(x)] /\ y \in [1..Len(gout) -> Range(y)]
        BY <2>2, <2>3 DEF Range
      <3> QED BY <3>1, <2>3, FunctionIsSeq
    <2> DEFINE xy == x \o y
    <2>9. IsConcat(xy, x, y)
      BY <2>8, ConcatSplits
    <2> HIDE DEF xy
    <2> DEFINE n == Len(fout) + Len(gout)
    <2>10. /\ DOMAIN ws = 1..n /\ DOMAIN xy = 1..n
           /\ \A k \in 1..Len(fout) : ws[k] = fout[k] /\ xy[k] = x[k]
           /\ \A k \in 1..Len(gout) : ws[Len(fout) + k] = u[k] /\ xy[Len(fout) + k] = y[k]
      BY <2>4, <2>7, <2>8, <2>9 DEF IsConcat
    <2>11. ASSUME NEW k \in 1..n PROVE ws[k] \in DOMAIN env /\ xy[k] = env[ws[k]]
      <3>1. CASE k <= Len(fout)
        <4>1. k \in 1..Len(fout)
          BY <3>1, <2>3
        <4>2. ws[k] = fout[k] /\ xy[k] = x[k] /\ x[k] = ef[fout[k]] /\ fout[k] \in DOMAIN ef
          BY <4>1, <2>2, <2>3, <2>10
        <4> QED BY <4>2, <2>1
      <3>2. CASE ~(k <= Len(fout))
        <4>1. PICK j \in 1..Len(gout) : k = Len(fout) + j
          BY <3>2, <2>3, InSecondPart
        <4>2. /\ ws[k] = gout[j] + N /\ xy[k] = y[j]
              /\ y[j] = eg[gout[j]] /\ gout[j] \in DOMAIN eg
          BY <4>1, <2>2, <2>3, <2>5, <2>10
        <4> QED BY <4>2, <2>1
      <3> QED BY <3>1, <3>2
    <2>12. xy = [k \in 1..n |-> env[ws[k]]]
      <3>1. xy = [k \in DOMAIN xy |-> xy[k]]
        <4>1. xy \in Seq(Range(xy))
          BY <2>9 DEF IsConcat
        <4>2. xy \in [1..Len(xy) -> Range(xy)]
          BY <4>1, LenProperties
        <4> QED BY <4>2
      <3> QED BY <3>1, <2>10, <2>11
    <2> QED BY <2>10, <2>11, <2>12 DEF Reads, xy
  <1> QED BY <1>7, <1>8, <1>9, LeavesComputes DEF a

---------------------------------------------------------------------------
(* The values of a layout *)

Widths(layout) == [k \in DOMAIN layout |-> Width(layout[k])]

IsLayout(d) == d \in Seq(Range(d)) /\ \A k \in DOMAIN d : Width(d[k]) \in Nat

\* One sequence of bits per wire, as wide as the wire.
IsValues(v, d) ==
  /\ v \in Seq(Range(v)) /\ Len(v) = Len(d)
  /\ \A k \in 1..Len(d) : v[k] \in BitSeq(Width(d[k]))

LEMMA LayoutFacts ==
  ASSUME NEW d, IsLayout(d)
  PROVE  /\ Len(d) \in Nat /\ DOMAIN d = 1..Len(d)
         /\ Widths(d) \in Seq(Nat) /\ Len(Widths(d)) = Len(d)
         /\ \A k \in 1..Len(d) : Widths(d)[k] = Width(d[k])
  <1> DEFINE ws == Widths(d)
  <1>1. Len(d) \in Nat /\ DOMAIN d = 1..Len(d)
    BY LenProperties DEF IsLayout
  <1>2. \A k \in 1..Len(d) : ws[k] = Width(d[k])
    BY <1>1 DEF Widths
  <1>3. ws \in [1..Len(d) -> Nat]
    BY <1>1 DEF Widths, IsLayout
  <1> HIDE DEF ws
  <1>4. ws \in Seq(Nat) /\ Len(ws) = Len(d)
    BY <1>1, <1>3, FunctionIsSeq
  <1> QED BY <1>1, <1>2, <1>4 DEF ws

LEMMA ValuesAre ==
  ASSUME NEW d, IsLayout(d), NEW v
  PROVE  v \in Values(d) <=> IsValues(v, d)
  <1> DEFINE ws == Widths(d)
  <1>1. /\ Len(d) \in Nat /\ ws \in Seq(Nat) /\ Len(ws) = Len(d)
        /\ \A k \in 1..Len(d) : ws[k] = Width(d[k])
    BY LayoutFacts
  <1>2. Values(d) = {Chunks(bits, ws) : bits \in BitSeq(Total(ws))}
    BY DEF Values, Widths
  <1> HIDE DEF ws
  <1>3. v \in Values(d) <=> IsPieces(v, ws)
    <2>1. ASSUME v \in Values(d) PROVE IsPieces(v, ws)
      BY <2>1, <1>1, <1>2, ChunksArePieces
    <2>2. ASSUME IsPieces(v, ws) PROVE v \in Values(d)
      BY <2>2, <1>1, <1>2, PiecesAreChunks
    <2> QED BY <2>1, <2>2
  <1>4. IsPieces(v, ws) <=> IsValues(v, d)
    <2>1. v \in Seq(Range(v)) => DOMAIN v = 1..Len(v)
      BY LenProperties
    <2> QED BY <2>1, <1>1 DEF IsPieces, IsValues
  <1> QED BY <1>3, <1>4

LEMMA LayoutsBeside ==
  ASSUME NEW c, NEW d, IsLayout(c), IsLayout(d)
  PROVE  IsLayout(c \o d) /\ IsConcat(c \o d, c, d)
  <1> DEFINE l == c \o d
  <1>1. IsConcat(l, c, d)
    BY ConcatSplits DEF IsLayout
  <1> HIDE DEF l
  <1>2. Len(c) \in Nat /\ DOMAIN c = 1..Len(c) /\ Len(d) \in Nat /\ DOMAIN d = 1..Len(d)
    BY LayoutFacts
  <1>3. ASSUME NEW k \in 1..(Len(c) + Len(d)) PROVE Width(l[k]) \in Nat
    <2>1. CASE k <= Len(c)
      <3>1. k \in 1..Len(c)
        BY <2>1, <1>2
      <3> QED BY <3>1, <1>1, <1>2 DEF IsConcat, IsLayout
    <2>2. CASE ~(k <= Len(c))
      <3>1. PICK j \in 1..Len(d) : k = Len(c) + j
        BY <2>2, <1>2, InSecondPart
      <3> QED BY <3>1, <1>1, <1>2 DEF IsConcat, IsLayout
    <2> QED BY <2>1, <2>2
  <1>4. IsLayout(l)
    BY <1>1, <1>3 DEF IsLayout, IsConcat
  <1> QED BY <1>1, <1>4 DEF l

\* Values of two layouts, one after the other.
LEMMA ValuesBeside ==
  ASSUME NEW c, NEW d, IsLayout(c), IsLayout(d), NEW x \in Values(c), NEW y \in Values(d)
  PROVE  x \o y \in Values(c \o d)
  <1> DEFINE l == c \o d
             v == x \o y
  <1>1. IsValues(x, c) /\ IsValues(y, d)
    BY ValuesAre
  <1>2. IsConcat(v, x, y)
    BY <1>1, ConcatSplits DEF IsValues
  <1>3. IsLayout(l) /\ IsConcat(l, c, d)
    BY LayoutsBeside
  <1>4. Len(c) \in Nat /\ Len(d) \in Nat /\ Len(x) = Len(c) /\ Len(y) = Len(d)
    BY <1>1, LayoutFacts DEF IsValues
  <1> HIDE DEF l, v
  <1>5. ASSUME NEW k \in 1..(Len(c) + Len(d)) PROVE v[k] \in BitSeq(Width(l[k]))
    <2>1. CASE k <= Len(c)
      <3>1. k \in 1..Len(c)
        BY <2>1, <1>4
      <3> QED BY <3>1, <1>1, <1>2, <1>3, <1>4 DEF IsConcat, IsValues
    <2>2. CASE ~(k <= Len(c))
      <3>1. PICK j \in 1..Len(d) : k = Len(c) + j
        BY <2>2, <1>4, InSecondPart
      <3> QED BY <3>1, <1>1, <1>2, <1>3, <1>4 DEF IsConcat, IsValues
    <2> QED BY <2>1, <2>2
  <1>6. IsValues(v, l)
    BY <1>2, <1>3, <1>4, <1>5 DEF IsValues, IsConcat
  <1>7. v \in Values(l)
    BY <1>3, <1>6, ValuesAre
  <1> QED BY <1>7 DEF v, l

\* And split again.
LEMMA ValuesSplit ==
  ASSUME NEW c, NEW d, IsLayout(c), IsLayout(d), NEW v \in Values(c \o d)
  PROVE  /\ Left(v, c) \in Values(c) /\ Right(v, c) \in Values(d)
         /\ IsBeside(v, Left(v, c), Right(v, c))
  <1> DEFINE l == c \o d
             m == Len(c)
             n == Len(d)
             left == SubSeq(v, 1, m)
             right == SubSeq(v, m + 1, Len(v))
  <1>1. IsLayout(l) /\ IsConcat(l, c, d)
    BY LayoutsBeside
  <1>2. IsValues(v, l)
    BY <1>1, ValuesAre
  <1>3. m \in Nat /\ n \in Nat
    BY LayoutFacts
  <1> HIDE DEF l
  <1>4. /\ v \in Seq(Range(v)) /\ Len(v) = m + n
        /\ \A k \in 1..(m + n) : v[k] \in BitSeq(Width(l[k]))
        /\ \A k \in 1..m : l[k] = c[k]
        /\ \A k \in 1..n : l[m + k] = d[k]
    BY <1>1, <1>2 DEF IsValues, IsConcat
  <1> HIDE DEF m, n
  <1>5. \A k \in 1..(m + n) : v[k] \in Range(v)
    BY <1>4, ElementOfSeq
  <1>6. left \in Seq(Range(v)) /\ Len(left) = m /\ \A k \in 1..m : left[k] = v[k]
    <2>1. 1 \in Int /\ m \in Int /\ \A i \in 1..m : v[i] \in Range(v)
      BY <1>3, <1>5
    <2>2. /\ left \in Seq(Range(v)) /\ Len(left) = IF 1 <= m THEN m - 1 + 1 ELSE 0
          /\ \A i \in 1..(m - 1 + 1) : left[i] = v[1 + i - 1]
      BY <2>1, SubSeqProperties
    <2>3. ASSUME NEW k \in 1..m PROVE left[k] = v[k]
      <3>1. k \in 1..(m - 1 + 1) /\ 1 + k - 1 = k
        BY <1>3
      <3> QED BY <3>1, <2>2
    <2> QED BY <2>2, <2>3, <1>3
  <1>7. right \in Seq(Range(v)) /\ Len(right) = n /\ \A k \in 1..n : right[k] = v[m + k]
    <2> DEFINE a == m + 1
               b == m + n
    <2>1. a \in Int /\ b \in Int /\ \A i \in a..b : v[i] \in Range(v)
      BY <1>3, <1>5
    <2>2. right = SubSeq(v, a, b)
      BY <1>4
    <2> HIDE DEF right
    <2>3. /\ right \in Seq(Range(v)) /\ Len(right) = IF a <= b THEN b - a + 1 ELSE 0
          /\ \A i \in 1..(b - a + 1) : right[i] = v[a + i - 1]
      <3> HIDE DEF a, b
      <3> QED BY <2>1, <2>2, SubSeqProperties
    <2>4. ASSUME NEW k \in 1..n PROVE right[k] = v[m + k]
      <3>1. k \in 1..(b - a + 1) /\ a + k - 1 = m + k
        BY <1>3
      <3> QED BY <3>1, <2>3
    <2> QED BY <2>3, <2>4, <1>3
  <1> HIDE DEF left, right
  <1>8. left \in Seq(Range(left)) /\ right \in Seq(Range(right))
    BY <1>6, <1>7, SeqOfRange
  <1>9. IsValues(left, c) /\ IsValues(right, d)
    <2>1. ASSUME NEW k \in 1..m PROVE left[k] \in BitSeq(Width(c[k]))
      <3>1. k \in 1..(m + n)
        BY <1>3
      <3> QED BY <3>1, <1>4, <1>6
    <2>2. ASSUME NEW k \in 1..n PROVE right[k] \in BitSeq(Width(d[k]))
      <3>1. m + k \in 1..(m + n)
        BY <1>3
      <3> QED BY <3>1, <1>4, <1>7
    <2> QED BY <2>1, <2>2, <1>6, <1>7, <1>8 DEF IsValues, m, n
  <1>10. left \in Values(c) /\ right \in Values(d)
    BY <1>9, ValuesAre
  <1>11. IsBeside(v, left, right)
    BY <1>4, <1>6, <1>7 DEF IsBeside
  <1> QED BY <1>10, <1>11 DEF left, right, m, Left, Right

---------------------------------------------------------------------------
(* What an arrow denotes *)

\* f computes d's values into c's, as D says.
Meant(f, d, c, D) ==
  /\ DOMAIN D = Values(d)
  /\ \A v \in Values(d) : D[v] \in Values(c) /\ Computes(f, v, D[v])

\* A netlist between two layouts that computes D.
Means(f, d, c, D) ==
  /\ Netlist(f) /\ Ends(f, d, c) /\ TypedEnds(f, d, c)
  /\ IsLayout(d) /\ IsLayout(c) /\ Meant(f, d, c, D)

LEMMA ComposeMeans ==
  ASSUME NEW f, NEW g, NEW d, NEW c, NEW e, NEW D, NEW G,
         Means(f, d, c, D), Means(g, c, e, G)
  PROVE  Meant(Compose(f, g), d, e, [v \in Values(d) |-> G[D[v]]])
  <1> DEFINE a == Compose(f, g)
  <1> SUFFICES ASSUME NEW v \in Values(d)
               PROVE  G[D[v]] \in Values(e) /\ Computes(a, v, G[D[v]])
    BY DEF Meant
  <1>1. D[v] \in Values(c) /\ Computes(f, v, D[v])
    BY DEF Means, Meant
  <1>2. G[D[v]] \in Values(e) /\ Computes(g, D[v], G[D[v]])
    BY <1>1 DEF Means, Meant
  <1>3. Len(f.inputs) = Len(v) /\ Len(f.outputs) = Len(g.inputs)
    BY ValuesAre DEF Means, Ends, IsValues
  <1>4. Netlist(f) /\ Netlist(g) /\ TypedEnds(f, d, c) /\ TypedEnds(g, c, e)
    BY DEF Means
  <1> DEFINE x == D[v]
             y == G[D[v]]
  <1>5. Computes(f, v, x) /\ Computes(g, x, y)
    BY <1>1, <1>2
  <1> HIDE DEF x, y, a
  <1>6. Computes(a, v, y)
    BY <1>3, <1>4, <1>5, ComposeComputes DEF a
  <1> QED BY <1>2, <1>6 DEF y

LEMMA TensorMeans ==
  ASSUME NEW f, NEW g, NEW d1, NEW c1, NEW d2, NEW c2, NEW D, NEW G,
         Means(f, d1, c1, D), Means(g, d2, c2, G)
  PROVE  Meant(Tensor(f, g), d1 \o d2, c1 \o c2,
               [v \in Values(d1 \o d2) |-> D[Left(v, d1)] \o G[Right(v, d1)]])
  <1> DEFINE a == Tensor(f, g)
  <1> SUFFICES ASSUME NEW v \in Values(d1 \o d2)
               PROVE  /\ D[Left(v, d1)] \o G[Right(v, d1)] \in Values(c1 \o c2)
                      /\ Computes(a, v, D[Left(v, d1)] \o G[Right(v, d1)])
    BY DEF Meant
  <1> DEFINE l == Left(v, d1)
             r == Right(v, d1)
             x == D[l]
             y == G[r]
  <1>1. /\ Netlist(f) /\ Netlist(g)
        /\ IsLayout(d1) /\ IsLayout(d2) /\ IsLayout(c1) /\ IsLayout(c2)
        /\ Len(f.inputs) = Len(d1) /\ Len(g.inputs) = Len(d2)
    BY DEF Means, Ends
  <1>2. l \in Values(d1) /\ r \in Values(d2) /\ IsBeside(v, l, r)
    BY <1>1, ValuesSplit
  <1> HIDE DEF l, r
  <1>3. /\ x \in Values(c1) /\ Computes(f, l, x)
        /\ y \in Values(c2) /\ Computes(g, r, y)
    BY <1>2 DEF Means, Meant
  <1>4. Len(f.inputs) = Len(l) /\ Len(g.inputs) = Len(r)
    BY <1>1, <1>2, ValuesAre DEF IsValues
  <1> HIDE DEF x, y, a
  <1>5. x \o y \in Values(c1 \o c2)
    BY <1>1, <1>3, ValuesBeside
  <1>6. Computes(a, v, x \o y)
    BY <1>1, <1>2, <1>3, <1>4, TensorComputes DEF a
  <1> QED BY <1>5, <1>6 DEF x, y, l, r

\* Every generator computes what it means, on values that fit its wires.
GensMean == \A h \in Gens : \A v \in Values(Dom(h)) : Computes(ArrowOf(h), v, Meaning(h, v))

\* The function a generator means.
MeaningOf(h) == [v \in Values(Dom(h)) |-> Meaning(h, v)]

MeansInv == TypedInv /\ Means(arrow, dom, cod, denoted)

LEMMA GeneratorMeans ==
  ASSUME GensTyped, GensMean, NEW h \in Gens
  PROVE  Means(ArrowOf(h), Dom(h), Cod(h), MeaningOf(h))
  <1>1. Netlist(ArrowOf(h)) /\ Ends(ArrowOf(h), Dom(h), Cod(h))
    BY GensAssumption
  <1>2. IsLayout(Dom(h)) /\ IsLayout(Cod(h))
    BY <1>1, MeaningAssumption DEF IsLayout, Ends
  <1>3. TypedEnds(ArrowOf(h), Dom(h), Cod(h))
    BY DEF GensTyped
  <1>4. Meant(ArrowOf(h), Dom(h), Cod(h), MeaningOf(h))
    BY MeaningAssumption DEF GensMean, Meant, MeaningOf
  <1> QED BY <1>1, <1>2, <1>3, <1>4 DEF Means

LEMMA MeansStep == ASSUME GensTyped, GensMean, MeansInv, [Next]_vars PROVE MeansInv'
  <1>1. TypedInv'
    BY TypedStep DEF MeansInv
  <1>2. Means(arrow, dom, cod, denoted)
    BY DEF MeansInv
  <1>3. Netlist(arrow') /\ Ends(arrow', dom', cod') /\ TypedEnds(arrow', dom', cod')
    BY <1>1 DEF TypedInv, IInv, Netlist, Shaped, SingleDriver, ReadsInOrder, Known, Ends,
               TypedEnds, Types
  <1>4. ASSUME NEW h \in Gens, Then(h)
        PROVE  IsLayout(dom') /\ IsLayout(cod') /\ Meant(arrow', dom', cod', denoted')
    <2> DEFINE H == MeaningOf(h)
               D == [v \in Values(dom) |-> H[denoted[v]]]
    <2>1. Means(ArrowOf(h), cod, Cod(h), H)
      BY <1>4, GeneratorMeans DEF Then
    <2>2. Meant(Compose(arrow, ArrowOf(h)), dom, Cod(h), D)
      BY <1>2, <2>1, ComposeMeans
    <2>3. /\ arrow' = Compose(arrow, ArrowOf(h)) /\ dom' = dom /\ cod' = Cod(h)
          /\ denoted' = [v \in Values(dom) |-> Meaning(h, denoted[v])] /\ Dom(h) = cod
      BY <1>4 DEF Then
    <2>4. denoted' = D
      <3>1. \A v \in Values(dom) : denoted[v] \in Values(Dom(h))
        BY <1>2, <2>3 DEF Means, Meant
      <3>2. \A v \in Values(dom) : H[denoted[v]] = Meaning(h, denoted[v])
        BY <3>1 DEF MeaningOf
      <3> HIDE DEF H
      <3> QED BY <3>2, <2>3
    <2> HIDE DEF D
    <2> QED BY <1>2, <2>1, <2>2, <2>3, <2>4 DEF Means
  <1>5. ASSUME NEW h \in Gens, After(h)
        PROVE  IsLayout(dom') /\ IsLayout(cod') /\ Meant(arrow', dom', cod', denoted')
    <2> DEFINE H == MeaningOf(h)
               D == [v \in Values(Dom(h)) |-> denoted[H[v]]]
    <2>1. Means(ArrowOf(h), Dom(h), dom, H)
      BY <1>5, GeneratorMeans DEF After
    <2>2. Meant(Compose(ArrowOf(h), arrow), Dom(h), cod, D)
      BY <1>2, <2>1, ComposeMeans
    <2>3. /\ arrow' = Compose(ArrowOf(h), arrow) /\ dom' = Dom(h) /\ cod' = cod
          /\ denoted' = [v \in Values(Dom(h)) |-> denoted[Meaning(h, v)]]
      BY <1>5 DEF After
    <2>4. denoted' = D
      <3>1. \A v \in Values(Dom(h)) : H[v] = Meaning(h, v)
        BY DEF MeaningOf
      <3> HIDE DEF H
      <3> QED BY <3>1, <2>3
    <2> HIDE DEF D
    <2> QED BY <1>2, <2>1, <2>2, <2>3, <2>4 DEF Means
  <1>6. ASSUME NEW h \in Gens, Above(h)
        PROVE  IsLayout(dom') /\ IsLayout(cod') /\ Meant(arrow', dom', cod', denoted')
    <2> DEFINE H == MeaningOf(h)
               D == [v \in Values(dom \o Dom(h)) |-> denoted[Left(v, dom)] \o H[Right(v, dom)]]
    <2>1. Means(ArrowOf(h), Dom(h), Cod(h), H)
      BY GeneratorMeans
    <2>2. Meant(Tensor(arrow, ArrowOf(h)), dom \o Dom(h), cod \o Cod(h), D)
      BY <1>2, <2>1, TensorMeans
    <2>3. /\ arrow' = Tensor(arrow, ArrowOf(h)) /\ dom' = dom \o Dom(h) /\ cod' = cod \o Cod(h)
          /\ denoted' = [v \in Values(dom \o Dom(h)) |->
                           denoted[Left(v, dom)] \o Meaning(h, Right(v, dom))]
      BY <1>6 DEF Above
    <2>4. denoted' = D
      <3>1. \A v \in Values(dom \o Dom(h)) : Right(v, dom) \in Values(Dom(h))
        BY <1>2, <2>1, ValuesSplit DEF Means
      <3>2. \A v \in Values(dom \o Dom(h)) : H[Right(v, dom)] = Meaning(h, Right(v, dom))
        BY <3>1 DEF MeaningOf
      <3> HIDE DEF H
      <3> QED BY <3>2, <2>3
    <2>5. IsLayout(dom \o Dom(h)) /\ IsLayout(cod \o Cod(h))
      BY <1>2, <2>1, LayoutsBeside DEF Means
    <2> HIDE DEF D
    <2> QED BY <2>2, <2>3, <2>4, <2>5
  <1>7. ASSUME NEW h \in Gens, Below(h)
        PROVE  IsLayout(dom') /\ IsLayout(cod') /\ Meant(arrow', dom', cod', denoted')
    <2> DEFINE H == MeaningOf(h)
               D == [v \in Values(Dom(h) \o dom) |->
                       H[Left(v, Dom(h))] \o denoted[Right(v, Dom(h))]]
    <2>1. Means(ArrowOf(h), Dom(h), Cod(h), H)
      BY GeneratorMeans
    <2>2. Meant(Tensor(ArrowOf(h), arrow), Dom(h) \o dom, Cod(h) \o cod, D)
      BY <1>2, <2>1, TensorMeans
    <2>3. /\ arrow' = Tensor(ArrowOf(h), arrow) /\ dom' = Dom(h) \o dom /\ cod' = Cod(h) \o cod
          /\ denoted' = [v \in Values(Dom(h) \o dom) |->
                           Meaning(h, Left(v, Dom(h))) \o denoted[Right(v, Dom(h))]]
      BY <1>7 DEF Below
    <2>4. denoted' = D
      <3>1. \A v \in Values(Dom(h) \o dom) : Left(v, Dom(h)) \in Values(Dom(h))
        BY <1>2, <2>1, ValuesSplit DEF Means
      <3>2. \A v \in Values(Dom(h) \o dom) : H[Left(v, Dom(h))] = Meaning(h, Left(v, Dom(h)))
        BY <3>1 DEF MeaningOf
      <3> HIDE DEF H
      <3> QED BY <3>2, <2>3
    <2>5. IsLayout(Dom(h) \o dom) /\ IsLayout(Cod(h) \o cod)
      BY <1>2, <2>1, LayoutsBeside DEF Means
    <2> HIDE DEF D
    <2> QED BY <2>2, <2>3, <2>4, <2>5
  <1>8. ASSUME UNCHANGED vars
        PROVE  IsLayout(dom') /\ IsLayout(cod') /\ Meant(arrow', dom', cod', denoted')
    <2>1. arrow' = arrow /\ dom' = dom /\ cod' = cod /\ denoted' = denoted
      BY <1>8 DEF vars
    <2> QED BY <2>1, <1>2 DEF Means
  <1>9. IsLayout(dom') /\ IsLayout(cod') /\ Meant(arrow', dom', cod', denoted')
    BY <1>4, <1>5, <1>6, <1>7, <1>8 DEF Next
  <1>10. Means(arrow', dom', cod', denoted')
    BY <1>3, <1>9 DEF Means
  <1> QED BY <1>1, <1>10 DEF MeansInv

LEMMA MeansHolds == ASSUME GensTyped, GensMean PROVE Spec => []MeansInv
  <1>1. Init => MeansInv
    <2> SUFFICES ASSUME Init PROVE MeansInv
      OBVIOUS
    <2>1. PICK h \in Gens : /\ arrow = ArrowOf(h) /\ dom = Dom(h) /\ cod = Cod(h)
                            /\ denoted = MeaningOf(h)
      BY DEF Init, MeaningOf
    <2>2. Means(arrow, dom, cod, denoted)
      BY <2>1, GensTyped, GensMean, GeneratorMeans
    <2> QED BY <2>2 DEF MeansInv, TypedInv, IInv, Means
  <1>2. MeansInv /\ [Next]_vars => MeansInv'
    BY GensTyped, GensMean, MeansStep
  <1> QED BY <1>1, <1>2, PTL DEF Spec

\* Composition is composition: if each generator computes what it means, an
\* arrow grown by compose_arrows and tensor_arrows, in any order and on either
\* side, computes the composite of the meanings, on every value of its domain
\* (category_impl.rs:35-60).  Associativity and interchange are instances.
THEOREM CompositionDenotes == ASSUME GensTyped, GensMean PROVE Spec => []Denotes
  <1>1. MeansInv => Denotes
    BY DEF MeansInv, Means, Meant, Computes, Denotes
  <1>2. Spec => []MeansInv
    BY GensTyped, GensMean, MeansHolds
  <1> QED BY <1>1, <1>2, PTL

\* Nor does composing put a value on a wire it does not fit: the interpreter
\* never compares widths, and the emitters declare each wire with its own.
THEOREM ValuesKeepFitting == ASSUME GensTyped, GensMean PROVE Spec => []ValuesFitWires
  <1>1. MeansInv => ValuesFitWires
    BY DEF MeansInv, Means, Meant, Computes, ValuesFitWires
  <1>2. Spec => []MeansInv
    BY GensTyped, GensMean, MeansHolds
  <1> QED BY <1>1, <1>2, PTL
=============================================================================
