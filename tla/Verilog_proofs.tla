--------------------------- MODULE Verilog_proofs ---------------------------
(***************************************************************************)
(* EveryNetOnce, for every machine and every grouping of its state that    *)
(* EmissionsAssumption admits: each of the emitters declares every         *)
(* identifier once, drives every net it reads once, and none twice.        *)
(*                                                                         *)
(* An emitted module has families of declarations (ports, registers,       *)
(* arrays, nets) and of drivers (input ports, assigns, always_ff blocks).  *)
(* It is sound if no family names a wire twice, no two families name the   *)
(* same wire, and what is read is in some family; one lemma per emitter    *)
(* shows that its module is.                                               *)
(***************************************************************************)
EXTENDS VerilogLockstep, Interp_proofs

---------------------------------------------------------------------------
(* Modules whose families are apart                                        *)

\* A set of at most one element.
LEMMA CountsOne ==
  ASSUME NEW S, \A a, b \in S : a = b
  PROVE  Cardinality(S) = IF S = {} THEN 0 ELSE 1
  <1>1. CASE S = {}
    BY <1>1, FS_EmptySet
  <1>2. CASE S # {}
    <2>1. PICK a \in S : TRUE
      BY <1>2
    <2>2. S = {a}
      BY <2>1
    <2> QED BY <1>2, <2>2, FS_Singleton
  <1> QED BY <1>1, <1>2

\* The ports are the wires of I as inputs and those of O as outputs, each once.
PortsAre(ports, I, O) ==
  /\ \A j, k \in DOMAIN ports : ports[j].w = ports[k].w => j = k
  /\ \A k \in DOMAIN ports :
       \/ ports[k].w \in I /\ ports[k] = Port(ports[k].w, "Input")
       \/ ports[k].w \in O /\ ports[k].dir # "Input"
  /\ \A w \in I : \E k \in DOMAIN ports : ports[k] = Port(w, "Input")
  /\ \A w \in O : \E k \in DOMAIN ports : ports[k].w = w
  /\ I \cap O = {}

RegNames(v) == {v.regs[k] : k \in DOMAIN v.regs}
ArrNames(v) == {v.arrays[k].w : k \in DOMAIN v.arrays}
Assigned(v) == {v.assigns[k].lhs : k \in DOMAIN v.assigns}
Clocks(v) == {v.ffs[k].w : k \in DOMAIN v.ffs}

PortCount(ports, w) == Cardinality({k \in DOMAIN ports : ports[k].w = w})
InputCount(ports, w) == Cardinality({k \in DOMAIN ports : ports[k] = Port(w, "Input")})

NamedOnce(v) ==
  /\ \A j, k \in DOMAIN v.regs : v.regs[j] = v.regs[k] => j = k
  /\ \A j, k \in DOMAIN v.arrays : v.arrays[j].w = v.arrays[k].w => j = k
  /\ \A j, k \in DOMAIN v.assigns : v.assigns[j].lhs = v.assigns[k].lhs => j = k
  /\ \A j, k \in DOMAIN v.ffs : v.ffs[j].w = v.ffs[k].w => j = k

DeclaredApart(v, I, O) ==
  /\ (I \cup O) \cap RegNames(v) = {} /\ (I \cup O) \cap ArrNames(v) = {}
  /\ (I \cup O) \cap v.nets = {} /\ RegNames(v) \cap ArrNames(v) = {}
  /\ RegNames(v) \cap v.nets = {} /\ ArrNames(v) \cap v.nets = {}

DrivenApart(v, I) ==
  I \cap Assigned(v) = {} /\ I \cap Clocks(v) = {} /\ Assigned(v) \cap Clocks(v) = {}

SoundModule(v, I, O, tails) ==
  /\ PortsAre(v.ports, I, O) /\ NamedOnce(v)
  /\ DeclaredApart(v, I, O) /\ DrivenApart(v, I)
  /\ Read(v) \subseteq I \cup Assigned(v) \cup Clocks(v)
  /\ (Read(v) \cup Assigned(v)) \ tails \subseteq I \cup O \cup RegNames(v) \cup ArrNames(v) \cup v.nets

LEMMA PortCounts ==
  ASSUME NEW ports, NEW I, NEW O, PortsAre(ports, I, O), NEW w
  PROVE  /\ PortCount(ports, w) = IF w \in I \cup O THEN 1 ELSE 0
         /\ InputCount(ports, w) = IF w \in I THEN 1 ELSE 0
  <1> DEFINE S == {k \in DOMAIN ports : ports[k].w = w}
             T == {k \in DOMAIN ports : ports[k] = Port(w, "Input")}
  <1>1. Port(w, "Input").w = w /\ Port(w, "Input").dir = "Input"
    BY DEF Port
  <1>2. (\A a, b \in S : a = b) /\ T \subseteq S
    BY <1>1 DEF PortsAre
  <1>3. S = {} <=> w \notin I \cup O
    BY <1>1 DEF PortsAre
  <1>4. T = {} <=> w \notin I
    BY <1>1 DEF PortsAre
  <1>5. Cardinality(S) = IF S = {} THEN 0 ELSE 1
    <2> HIDE DEF S
    <2> QED BY <1>2, CountsOne
  <1>6. Cardinality(T) = IF T = {} THEN 0 ELSE 1
    <2>1. \A a, b \in T : a = b
      BY <1>2
    <2> HIDE DEF T
    <2> QED BY <2>1, CountsOne
  <1> HIDE DEF S, T
  <1>7. Cardinality(S) = (IF w \in I \cup O THEN 1 ELSE 0) /\ Cardinality(T) = IF w \in I THEN 1 ELSE 0
    BY <1>3, <1>4, <1>5, <1>6
  <1> QED BY <1>7 DEF S, T, PortCount, InputCount

LEMMA FamilyCounts ==
  ASSUME NEW v, NamedOnce(v), NEW w
  PROVE  /\ Cardinality({k \in DOMAIN v.regs : v.regs[k] = w}) = IF w \in RegNames(v) THEN 1 ELSE 0
         /\ Cardinality({k \in DOMAIN v.arrays : v.arrays[k].w = w}) = IF w \in ArrNames(v) THEN 1 ELSE 0
         /\ Cardinality({k \in DOMAIN v.assigns : v.assigns[k].lhs = w}) = IF w \in Assigned(v) THEN 1 ELSE 0
         /\ Cardinality({k \in DOMAIN v.ffs : v.ffs[k].w = w}) = IF w \in Clocks(v) THEN 1 ELSE 0
  <1> DEFINE R == {k \in DOMAIN v.regs : v.regs[k] = w}
             A == {k \in DOMAIN v.arrays : v.arrays[k].w = w}
             S == {k \in DOMAIN v.assigns : v.assigns[k].lhs = w}
             F == {k \in DOMAIN v.ffs : v.ffs[k].w = w}
  <1>1. /\ \A a, b \in R : a = b
        /\ \A a, b \in A : a = b
        /\ \A a, b \in S : a = b
        /\ \A a, b \in F : a = b
    BY DEF NamedOnce
  <1>2. /\ R = {} <=> w \notin RegNames(v)
        /\ A = {} <=> w \notin ArrNames(v)
        /\ S = {} <=> w \notin Assigned(v)
        /\ F = {} <=> w \notin Clocks(v)
    BY DEF RegNames, ArrNames, Assigned, Clocks
  <1> HIDE DEF R, A, S, F
  <1>3. /\ Cardinality(R) = IF R = {} THEN 0 ELSE 1
        /\ Cardinality(A) = IF A = {} THEN 0 ELSE 1
        /\ Cardinality(S) = IF S = {} THEN 0 ELSE 1
        /\ Cardinality(F) = IF F = {} THEN 0 ELSE 1
    BY <1>1, CountsOne
  <1>4. /\ Cardinality(R) = IF w \in RegNames(v) THEN 1 ELSE 0
        /\ Cardinality(A) = IF w \in ArrNames(v) THEN 1 ELSE 0
        /\ Cardinality(S) = IF w \in Assigned(v) THEN 1 ELSE 0
        /\ Cardinality(F) = IF w \in Clocks(v) THEN 1 ELSE 0
    BY <1>2, <1>3
  <1> QED BY <1>4 DEF R, A, S, F

\* Counting in families that are apart.
LEMMA SoundIsOnce ==
  ASSUME NEW v, NEW I, NEW O, NEW tails, SoundModule(v, I, O, tails), NEW names
  PROVE  OneOfEach(v, names, tails)
  <1>1. ASSUME NEW w
        PROVE  /\ Declarations(v, w) <= 1 /\ DriverCount(v, w) <= 1
               /\ w \in I \cup Assigned(v) \cup Clocks(v) => DriverCount(v, w) = 1
               /\ w \in I \cup O \cup RegNames(v) \cup ArrNames(v) \cup v.nets => Declarations(v, w) = 1
    <2> DEFINE Holds(S) == IF w \in S THEN 1 ELSE 0
    <2> DEFINE R == {k \in DOMAIN v.regs : v.regs[k] = w}
               A == {k \in DOMAIN v.arrays : v.arrays[k].w = w}
               S == {k \in DOMAIN v.assigns : v.assigns[k].lhs = w}
               F == {k \in DOMAIN v.ffs : v.ffs[k].w = w}
    <2>a. PortCount(v.ports, w) = Holds(I \cup O) /\ InputCount(v.ports, w) = Holds(I)
      BY PortCounts DEF SoundModule
    <2>b. /\ Cardinality(R) = Holds(RegNames(v)) /\ Cardinality(A) = Holds(ArrNames(v))
          /\ Cardinality(S) = Holds(Assigned(v)) /\ Cardinality(F) = Holds(Clocks(v))
      BY FamilyCounts DEF SoundModule
    <2>c. Declarations(v, w) = PortCount(v.ports, w) + Cardinality(R) + Cardinality(A) + Holds(v.nets)
      BY DEF Declarations, PortCount
    <2>d. DriverCount(v, w) = InputCount(v.ports, w) + Cardinality(S) + Cardinality(F)
      BY DEF DriverCount, InputCount
    <2>1. Declarations(v, w) = Holds(I \cup O) + Holds(RegNames(v)) + Holds(ArrNames(v)) + Holds(v.nets)
      BY <2>a, <2>b, <2>c
    <2>2. DriverCount(v, w) = Holds(I) + Holds(Assigned(v)) + Holds(Clocks(v))
      BY <2>a, <2>b, <2>d
    <2> HIDE DEF R, A, S, F
    <2>3. /\ ~(w \in I \cup O /\ w \in RegNames(v)) /\ ~(w \in I \cup O /\ w \in ArrNames(v))
          /\ ~(w \in I \cup O /\ w \in v.nets) /\ ~(w \in RegNames(v) /\ w \in ArrNames(v))
          /\ ~(w \in RegNames(v) /\ w \in v.nets) /\ ~(w \in ArrNames(v) /\ w \in v.nets)
      BY DEF SoundModule, DeclaredApart
    <2>4. ~(w \in I /\ w \in Assigned(v)) /\ ~(w \in I /\ w \in Clocks(v)) /\ ~(w \in Assigned(v) /\ w \in Clocks(v))
      BY DEF SoundModule, DrivenApart
    <2> QED BY <2>1, <2>2, <2>3, <2>4
  <1>2. /\ \A w \in Read(v) : w \in I \cup Assigned(v) \cup Clocks(v)
        /\ \A w \in (Read(v) \cup Assigned(v)) \ tails :
             w \in I \cup O \cup RegNames(v) \cup ArrNames(v) \cup v.nets
    BY DEF SoundModule
  <1>3. {v.assigns[k].lhs : k \in DOMAIN v.assigns} = Assigned(v)
    BY DEF Assigned
  <1> QED BY <1>1, <1>2, <1>3 DEF OneOfEach

---------------------------------------------------------------------------
(* The ends of a machine and its ports                                     *)

LEMMA PortListIs ==
  ASSUME NEW S, NEW ins \in Seq(S), NEW outs \in Seq(S), IsInjective(ins), IsInjective(outs),
         Range(ins) \cap Range(outs) = {}, NEW state
  PROVE  PortsAre(PortList(ins, outs, state), Range(ins), Range(outs))
  <1> DEFINE f == [k \in DOMAIN ins |-> Port(ins[k], "Input")]
             dir(k) == IF outs[k] \in state THEN "OutputReg" ELSE "Output"
             h == [k \in DOMAIN outs |-> Port(outs[k], dir(k))]
             n == Len(ins)
             o == Len(outs)
             ports == f \o h
  <1>1. n \in Nat /\ o \in Nat /\ DOMAIN ins = 1..n /\ DOMAIN outs = 1..o
    BY LenProperties
  <1>2. IsList(f, n) /\ IsList(h, o)
    BY <1>1 DEF IsList
  <1>3. IsJoin(f, n, h, o, ports)
    <2> HIDE DEF f, h, n, o
    <2> QED BY <1>1, <1>2, ListsJoin
  <1>4. /\ DOMAIN ports = 1..(n + o)
        /\ \A k \in 1..n : ports[k] = Port(ins[k], "Input")
        /\ \A k \in 1..o : ports[n + k] = Port(outs[k], dir(k))
    <2>1. \A k \in 1..n : f[k] = Port(ins[k], "Input")
      BY <1>1
    <2>2. \A k \in 1..o : h[k] = Port(outs[k], dir(k))
      BY <1>1
    <2> HIDE DEF f, h, n, o, ports, dir
    <2> QED BY <1>1, <1>3, <2>1, <2>2 DEF IsJoin, IsList
  <1>5. \A k \in 1..o : dir(k) # "Input"
    OBVIOUS
  <1>6. \A w, x : Port(w, x).w = w /\ Port(w, x).dir = x
    BY DEF Port
  <1>7. /\ \A i, j \in 1..n : ins[i] = ins[j] => i = j
        /\ \A i, j \in 1..o : outs[i] = outs[j] => i = j
        /\ \A i \in 1..n, j \in 1..o : ins[i] # outs[j]
    <2>1. \A i \in 1..n : ins[i] \in Range(ins)
      BY <1>1 DEF Range
    <2>2. \A j \in 1..o : outs[j] \in Range(outs)
      BY <1>1 DEF Range
    <2> QED BY <1>1, <2>1, <2>2 DEF IsInjective
  <1>8. ASSUME NEW k \in 1..(n + o), k \notin 1..n PROVE \E j \in 1..o : k = n + j
    <2>1. k - n \in 1..o /\ k = n + (k - n)
      BY <1>1, <1>8
    <2> QED BY <2>1
  <1>9. /\ \A k \in 1..n : ports[k].w = ins[k] /\ ports[k] = Port(ports[k].w, "Input")
        /\ \A k \in 1..o : ports[n + k].w = outs[k] /\ ports[n + k].dir # "Input"
    <2> HIDE DEF ports, dir, n, o
    <2> QED BY <1>4, <1>5, <1>6
  <1> HIDE DEF ports, dir, n, o, f, h
  <1>10. ASSUME NEW j \in DOMAIN ports, NEW k \in DOMAIN ports, ports[j].w = ports[k].w
         PROVE  j = k
    <2>1. CASE j \in 1..n /\ k \in 1..n
      BY <2>1, <1>7, <1>9, <1>10
    <2>2. CASE j \in 1..n /\ k \notin 1..n
      BY <2>2, <1>4, <1>7, <1>8, <1>9, <1>10
    <2>3. CASE j \notin 1..n /\ k \in 1..n
      BY <2>3, <1>4, <1>7, <1>8, <1>9, <1>10
    <2>4. CASE j \notin 1..n /\ k \notin 1..n
      BY <2>4, <1>4, <1>7, <1>8, <1>9, <1>10
    <2> QED BY <2>1, <2>2, <2>3, <2>4
  <1>11. ASSUME NEW k \in DOMAIN ports
         PROVE  \/ ports[k].w \in Range(ins) /\ ports[k] = Port(ports[k].w, "Input")
                \/ ports[k].w \in Range(outs) /\ ports[k].dir # "Input"
    <2>1. CASE k \in 1..n
      BY <2>1, <1>1, <1>9 DEF Range
    <2>2. CASE k \notin 1..n
      <3>1. PICK j \in 1..o : k = n + j
        BY <2>2, <1>4, <1>8
      <3>2. outs[j] \in Range(outs)
        BY <1>1 DEF Range
      <3> QED BY <3>1, <3>2, <1>9
    <2> QED BY <2>1, <2>2
  <1>12. ASSUME NEW w \in Range(ins) PROVE \E k \in DOMAIN ports : ports[k] = Port(w, "Input")
    <2>1. PICK i \in 1..n : w = ins[i]
      BY <1>1 DEF Range
    <2>2. i \in 1..(n + o)
      BY <1>1
    <2> QED BY <2>1, <2>2, <1>4
  <1>13. ASSUME NEW w \in Range(outs) PROVE \E k \in DOMAIN ports : ports[k].w = w
    <2>1. PICK i \in 1..o : w = outs[i]
      BY <1>1 DEF Range
    <2>2. n + i \in 1..(n + o)
      BY <1>1
    <2> QED BY <2>1, <2>2, <1>4, <1>9
  <1>14. PortsAre(ports, Range(ins), Range(outs))
    BY <1>10, <1>11, <1>12, <1>13 DEF PortsAre
  <1> QED BY <1>14 DEF PortList, ports, f, h, dir

LEMMA ToSetIsRange ==
  ASSUME NEW s PROVE ToSet(s) = Range(s)
  BY DEF ToSet, Range

\* How the accessors cut the inputs and outputs of a machine.
EndsFit(m) ==
  /\ DOMAIN StateIn(m) = 1..m.sc
  /\ \A i, j \in 1..m.sc : StateIn(m)[i] = StateIn(m)[j] => i = j
  /\ \A i \in 1..m.sc : StateIn(m)[i] \in Wires(m.graph) /\ StateIn(m)[i] \notin Range(DataIn(m))
  /\ DataIn(m) \in Seq(Wires(m.graph)) /\ IsInjective(DataIn(m))
  /\ \A w \in Range(m.inputs) : w \in Range(DataIn(m)) \/ \E i \in 1..m.sc : w = StateIn(m)[i]
  /\ Range(StateIn(m)) \subseteq Range(m.inputs) /\ Range(DataIn(m)) \subseteq Range(m.inputs)
  /\ \A i \in 1..m.sc : NextState(m)[i] \in Range(m.outputs)
  /\ DataOut(m) \in Seq(Wires(m.graph)) /\ IsInjective(DataOut(m))
  /\ Range(DataOut(m)) \subseteq Range(m.outputs)
  /\ Range(DataIn(m)) \cap Range(DataOut(m)) = {}

\* A list cut after its first n elements.
LEMMA CutList ==
  ASSUME NEW S, NEW s \in Seq(S), NEW n \in Nat, n <= Len(s)
  PROVE  /\ DOMAIN SubSeq(s, 1, n) = 1..n /\ \A i \in 1..n : SubSeq(s, 1, n)[i] = s[i]
         /\ SubSeq(s, n + 1, Len(s)) \in Seq(S)
         /\ DOMAIN SubSeq(s, n + 1, Len(s)) = 1..(Len(s) - n)
         /\ \A i \in 1..(Len(s) - n) : SubSeq(s, n + 1, Len(s))[i] = s[n + i]
  <1> DEFINE r == Len(s) - n
  <1>1. Len(s) \in Nat /\ IsList(s, Len(s)) /\ r \in Nat
    BY SeqIsList
  <1>2. 0 + n <= Len(s) /\ n + r <= Len(s) /\ 0 \in Nat /\ 0 + n = n /\ 0 + 1 = 1 /\ n + r = Len(s)
    BY <1>1
  <1>3. /\ IsList(SubSeq(s, 0 + 1, 0 + n), n)
        /\ \A i \in 1..n : SubSeq(s, 0 + 1, 0 + n)[i] = s[0 + i]
    BY <1>1, <1>2, PieceOfList
  <1>4. /\ IsList(SubSeq(s, n + 1, n + r), r)
        /\ \A i \in 1..r : SubSeq(s, n + 1, n + r)[i] = s[n + i]
    <2> HIDE DEF r
    <2> QED BY <1>1, <1>2, PieceOfList
  <1>5. \A i \in 1..n : 0 + i = i
    OBVIOUS
  <1>6. DOMAIN SubSeq(s, 1, n) = 1..n /\ \A i \in 1..n : SubSeq(s, 1, n)[i] = s[i]
    BY <1>2, <1>3, <1>5, ListIsSeq
  <1>7. /\ DOMAIN SubSeq(s, n + 1, Len(s)) = 1..r
        /\ \A i \in 1..r : SubSeq(s, n + 1, Len(s))[i] = s[n + i]
    <2> HIDE DEF r
    <2> QED BY <1>1, <1>2, <1>4, ListIsSeq
  <1>8. SubSeq(s, n + 1, Len(s)) \in Seq(S)
    <2>1. \A i \in (n + 1)..Len(s) : s[i] \in S
      BY <1>1, LenProperties, ElementOfSeq
    <2> QED BY <1>1, <2>1, SubSeqProperties
  <1> QED BY <1>6, <1>7, <1>8

LEMMA EndsOfMachine ==
  ASSUME NEW m, EmittableGraph(m)
  PROVE  EndsFit(m)
  <1> DEFINE n == Len(m.inputs)
             o == Len(m.outputs)
             c == m.sc
             W == Wires(m.graph)
             ins == m.inputs
             outs == m.outputs
  <1>1. ins \in Seq(W) /\ outs \in Seq(W)
    BY DEF EmittableGraph, Shaped
  <1>2. n \in Nat /\ o \in Nat /\ DOMAIN ins = 1..n /\ DOMAIN outs = 1..o
    <2> HIDE DEF W
    <2> QED BY <1>1, LenProperties
  <1>3. c \in Nat /\ c <= n /\ c <= o
    BY <1>2 DEF EmittableGraph
  <1>4. /\ DOMAIN StateIn(m) = 1..c /\ \A i \in 1..c : StateIn(m)[i] = ins[i]
        /\ DataIn(m) \in Seq(W) /\ DOMAIN DataIn(m) = 1..(n - c)
        /\ \A i \in 1..(n - c) : DataIn(m)[i] = ins[c + i]
    <2>1. StateIn(m) = SubSeq(ins, 1, c) /\ DataIn(m) = SubSeq(ins, c + 1, Len(ins))
      BY DEF StateIn, DataIn
    <2>2. n = Len(ins)
      OBVIOUS
    <2> HIDE DEF W, c, ins, n
    <2>3. /\ DOMAIN SubSeq(ins, 1, c) = 1..c /\ \A i \in 1..c : SubSeq(ins, 1, c)[i] = ins[i]
          /\ SubSeq(ins, c + 1, Len(ins)) \in Seq(W)
          /\ DOMAIN SubSeq(ins, c + 1, Len(ins)) = 1..(Len(ins) - c)
          /\ \A i \in 1..(Len(ins) - c) : SubSeq(ins, c + 1, Len(ins))[i] = ins[c + i]
      BY <1>1, <1>3, <2>2, CutList
    <2> QED BY <2>1, <2>2, <2>3
  <1>5. /\ \A i \in 1..c : NextState(m)[i] = outs[i]
        /\ DataOut(m) \in Seq(W) /\ DOMAIN DataOut(m) = 1..(o - c)
        /\ \A i \in 1..(o - c) : DataOut(m)[i] = outs[c + i]
    <2>1. NextState(m) = SubSeq(outs, 1, c) /\ DataOut(m) = SubSeq(outs, c + 1, Len(outs))
      BY DEF NextState, DataOut
    <2>2. o = Len(outs)
      OBVIOUS
    <2> HIDE DEF W, c, outs, o
    <2>3. /\ DOMAIN SubSeq(outs, 1, c) = 1..c /\ \A i \in 1..c : SubSeq(outs, 1, c)[i] = outs[i]
          /\ SubSeq(outs, c + 1, Len(outs)) \in Seq(W)
          /\ DOMAIN SubSeq(outs, c + 1, Len(outs)) = 1..(Len(outs) - c)
          /\ \A i \in 1..(Len(outs) - c) : SubSeq(outs, c + 1, Len(outs))[i] = outs[c + i]
      BY <1>1, <1>3, <2>2, CutList
    <2> QED BY <2>1, <2>2, <2>3
  <1>6. \A i, j \in 1..n : ins[i] = ins[j] => i = j
    BY <1>2 DEF EmittableGraph, IsInjective
  <1>7. \A i \in 1..n : ins[i] \in W /\ ins[i] \in Range(ins)
    <2> HIDE DEF W
    <2> QED BY <1>1, <1>2, ElementOfSeq DEF Range
  <1>8. \A i \in 1..o : outs[i] \in Range(outs)
    BY <1>2 DEF Range
  <1>9. IsInjective(DataOut(m)) /\ Range(DataIn(m)) \cap Range(DataOut(m)) = {}
    BY ToSetIsRange DEF EmittableGraph
  <1> HIDE DEF W, c, n, o, ins, outs
  <1>10. \A i, j \in 1..c : StateIn(m)[i] = StateIn(m)[j] => i = j
    BY <1>2, <1>3, <1>4, <1>6
  <1>11. \A i \in 1..(n - c) : c + i \in 1..n /\ c + i > c
    BY <1>2, <1>3
  <1>12. \A i \in 1..(o - c) : c + i \in 1..o
    BY <1>2, <1>3
  <1>13. \A i \in 1..c : StateIn(m)[i] \in W /\ StateIn(m)[i] \notin Range(DataIn(m))
    <2> SUFFICES ASSUME NEW i \in 1..c, NEW k \in 1..(n - c), StateIn(m)[i] = DataIn(m)[k] PROVE FALSE
      BY <1>2, <1>3, <1>4, <1>7 DEF Range
    <2> QED BY <1>2, <1>3, <1>4, <1>6, <1>11
  <1>14. IsInjective(DataIn(m))
    <2> SUFFICES ASSUME NEW i \in 1..(n - c), NEW k \in 1..(n - c), DataIn(m)[i] = DataIn(m)[k] PROVE i = k
      BY <1>4 DEF IsInjective
    <2>1. c + i = c + k
      BY <1>4, <1>6, <1>11
    <2> QED BY <2>1, <1>2, <1>3
  <1>15. ASSUME NEW w \in Range(ins)
         PROVE  w \in Range(DataIn(m)) \/ \E i \in 1..c : w = StateIn(m)[i]
    <2>1. PICK k \in 1..n : w = ins[k]
      BY <1>2 DEF Range
    <2>2. CASE k <= c
      BY <2>1, <2>2, <1>2, <1>3, <1>4
    <2>3. CASE ~(k <= c)
      <3>1. k - c \in 1..(n - c) /\ c + (k - c) = k
        BY <2>3, <1>2, <1>3
      <3> QED BY <3>1, <2>1, <1>4 DEF Range
    <2> QED BY <2>2, <2>3
  <1>16. Range(StateIn(m)) \subseteq Range(ins) /\ Range(DataIn(m)) \subseteq Range(ins)
    <2>1. \A i \in 1..c : i \in 1..n
      BY <1>2, <1>3
    <2>2. \A i \in 1..c : StateIn(m)[i] \in Range(ins)
      BY <2>1, <1>4, <1>7
    <2>3. \A i \in 1..(n - c) : DataIn(m)[i] \in Range(ins)
      BY <1>4, <1>7, <1>11
    <2> QED BY <2>2, <2>3, <1>4 DEF Range
  <1>17. \A i \in 1..c : NextState(m)[i] \in Range(outs)
    BY <1>2, <1>3, <1>5, <1>8
  <1>18. Range(DataOut(m)) \subseteq Range(outs)
    <2>1. \A i \in 1..(o - c) : DataOut(m)[i] \in Range(outs)
      BY <1>5, <1>8, <1>12
    <2> QED BY <2>1, <1>5 DEF Range
  <1> USE <1>4, <1>5, <1>9, <1>10, <1>13, <1>14, <1>15, <1>16, <1>17, <1>18
  <1> QED BY DEF EndsFit, W, c, ins, outs

---------------------------------------------------------------------------
(* The netlist and its statements                                          *)

\* op_to_expr reads nothing but the operands.
LEMMA ReadsOperands ==
  ASSUME NEW g, NEW op, NEW ins, op.op \in OpNames, Accepts(op, ins),
         NEW W, ins \in Seq(W)
  PROVE  ReadBy(OpExpr(g, op, ins)) \subseteq Range(ins)
  <1>1. DOMAIN ins = 1..Arity(op)
    BY LenProperties DEF Accepts
  <1>2. \A k \in 1..Arity(op) : ins[k] \in Range(ins)
    BY <1>1 DEF Range
  <1>3. CASE op.op = "Const"
    BY <1>3 DEF OpExpr, ReadBy, Literal
  <1>4. CASE op.op \in {"Not", "Reg", "Slice", "ArrayTail"}
    <2>1. ins[1] \in Range(ins)
      BY <1>2, <1>4 DEF Arity
    <2>2. /\ ReadBy(Wire(ins[1])) = {ins[1]} /\ ReadBy(NotExpr(ins[1])) = {ins[1]}
          /\ \A lo, hi : ReadBy(SliceExpr(ins[1], lo, hi)) = {ins[1]}
      BY DEF ReadBy, Wire, NotExpr, SliceExpr
    <2>3. \/ OpExpr(g, op, ins) \in {Wire(ins[1]), NotExpr(ins[1])}
          \/ \E lo, hi : OpExpr(g, op, ins) = SliceExpr(ins[1], lo, hi)
      BY <1>4 DEF OpExpr
    <2> QED BY <2>1, <2>2, <2>3
  <1>5. CASE op.op \in {"Bin", "Concat", "ArrayShiftIn"}
    <2>1. ins[1] \in Range(ins) /\ ins[2] \in Range(ins)
      BY <1>2, <1>5 DEF Arity
    <2>2. /\ ReadBy(Wire(ins[1])) = {ins[1]}
          /\ ReadBy(ConcatExpr(ins[2], ins[1])) = {ins[2], ins[1]}
          /\ \A bin : ReadBy(Binary(bin, ins[1], ins[2])) = {ins[1], ins[2]}
      BY DEF ReadBy, Wire, ConcatExpr, Binary
    <2>3. \/ OpExpr(g, op, ins) \in {Wire(ins[1]), ConcatExpr(ins[2], ins[1])}
          \/ \E bin : OpExpr(g, op, ins) = Binary(bin, ins[1], ins[2])
      BY <1>5 DEF OpExpr
    <2> QED BY <2>1, <2>2, <2>3
  <1>6. CASE op.op = "Mux"
    <2>1. ins[1] \in Range(ins) /\ ins[2] \in Range(ins) /\ ins[3] \in Range(ins)
      BY <1>2, <1>6 DEF Arity
    <2>2. ReadBy(OpExpr(g, op, ins)) = {ins[1], ins[2], ins[3]}
      BY <1>6 DEF ReadBy, OpExpr, MuxExpr
    <2> QED BY <2>1, <2>2
  <1> QED BY <1>3, <1>4, <1>5, <1>6 DEF OpNames

Instrs(m) == DOMAIN m.graph.instrs
OutOf(m, e) == m.graph.instrs[e].out
OperandsOf(m, e) == Range(m.graph.instrs[e].ins)

\* w is an input or driven by an instruction.
Valued(m, w) == w \in Range(m.inputs) \/ \E j \in Instrs(m) : w = OutOf(m, j)

Statement(m, e) == InstructionStmt(m.graph, m.graph.instrs[e])

NetlistFit(m) ==
  /\ Instrs(m) = 1..Len(m.graph.instrs)
  /\ \A e \in Instrs(m) :
       /\ OutOf(m, e) \in Wires(m.graph) /\ OutOf(m, e) \notin Range(m.inputs)
       /\ \A j \in Instrs(m) : OutOf(m, j) = OutOf(m, e) => j = e
       /\ \A w \in OperandsOf(m, e) : Valued(m, w)
       /\ Statement(m, e).lhs = OutOf(m, e)
       /\ ReadBy(Statement(m, e).rhs) \subseteq OperandsOf(m, e)
  /\ \A w \in Known(m, Len(m.graph.instrs) + 1) : Valued(m, w)
  /\ \A w \in Range(m.outputs) : Valued(m, w)
  /\ \A w \in Range(m.inputs) \cup Range(m.outputs) : w \in Wires(m.graph)

LEMMA NetlistOfMachine ==
  ASSUME NEW m, EmittableGraph(m)
  PROVE  NetlistFit(m)
  <1> DEFINE g == m.graph
             n == Len(g.instrs)
             W == Wires(g)
  <1>1. /\ g.instrs \in Seq(Range(g.instrs)) /\ m.inputs \in Seq(W) /\ m.outputs \in Seq(W)
        /\ \A e \in DOMAIN g.instrs : g.instrs[e].ins \in Seq(W) /\ g.instrs[e].out \in W
    BY DEF EmittableGraph, Shaped
  <1>2. n \in Nat /\ Instrs(m) = 1..n
    <2> DEFINE S == Range(g.instrs)
    <2>1. g.instrs \in Seq(S)
      BY <1>1
    <2> HIDE DEF S
    <2> QED BY <2>1, LenProperties DEF Instrs
  <1>3. \A i \in 1..(n + 1) : \A w \in Known(m, i) : Valued(m, w)
    <2> SUFFICES ASSUME NEW i \in 1..(n + 1), NEW w \in Known(m, i), w \notin Range(m.inputs)
                 PROVE  \E j \in Instrs(m) : w = OutOf(m, j)
      BY DEF Valued
    <2>1. PICK j \in 1..(i - 1) : w = g.instrs[j].out
      BY DEF Known
    <2>2. j \in 1..n
      BY <1>2
    <2> QED BY <2>1, <2>2, <1>2 DEF OutOf
  <1>4. ASSUME NEW e \in Instrs(m)
        PROVE  /\ OutOf(m, e) \in Wires(m.graph) /\ OutOf(m, e) \notin Range(m.inputs)
               /\ \A j \in Instrs(m) : OutOf(m, j) = OutOf(m, e) => j = e
               /\ \A w \in OperandsOf(m, e) : Valued(m, w)
               /\ Statement(m, e).lhs = OutOf(m, e)
               /\ ReadBy(Statement(m, e).rhs) \subseteq OperandsOf(m, e)
    <2>1. OutOf(m, e) \in Wires(m.graph) /\ OutOf(m, e) \notin Range(m.inputs)
      BY DEF EmittableGraph, SingleDriver, Instrs, OutOf
    <2>2. \A j \in Instrs(m) : OutOf(m, j) = OutOf(m, e) => j = e
      BY DEF EmittableGraph, SingleDriver, Instrs, OutOf
    <2>3. \A w \in OperandsOf(m, e) : Valued(m, w)
      <3>1. OperandsOf(m, e) \subseteq Known(m, e)
        BY DEF EmittableGraph, ReadsInOrder, OperandsOf, Instrs
      <3>2. e \in 1..(n + 1)
        BY <1>2
      <3> QED BY <3>1, <3>2, <1>3
    <2>4. Statement(m, e).lhs = OutOf(m, e)
      BY DEF Statement, InstructionStmt, Assign, OutOf
    <2>5. ReadBy(Statement(m, e).rhs) \subseteq OperandsOf(m, e)
      <3> DEFINE op == g.instrs[e].op
                 ins == g.instrs[e].ins
      <3>1. op.op \in OpNames /\ Accepts(op, ins)
        BY DEF EmittableGraph, Instrs
      <3>2. ins \in Seq(W)
        BY <1>1 DEF Instrs
      <3>3. Statement(m, e).rhs = OpExpr(g, op, ins)
        BY DEF Statement, InstructionStmt, Assign
      <3>4. OperandsOf(m, e) = Range(ins)
        BY DEF OperandsOf
      <3> HIDE DEF op, ins, W, g
      <3> QED BY <3>1, <3>2, <3>3, <3>4, ReadsOperands
    <2> QED BY <2>1, <2>2, <2>3, <2>4, <2>5
  <1>5. \A w \in Known(m, n + 1) : Valued(m, w)
    <2>1. n + 1 \in 1..(n + 1)
      BY <1>2
    <2> QED BY <2>1, <1>3
  <1>6. Range(m.outputs) \subseteq Known(m, n + 1)
    BY DEF EmittableGraph, ReadsInOrder
  <1>7. \A w \in Range(m.inputs) \cup Range(m.outputs) : w \in W
    <2> HIDE DEF W
    <2> QED BY <1>1, ElementOfSeq, LenProperties DEF Range
  <1> QED BY <1>2, <1>4, <1>5, <1>6, <1>7 DEF NetlistFit

---------------------------------------------------------------------------
(* What the emitters have in common                                        *)

LEMMA ReadWithin ==
  ASSUME NEW v, NEW I, NEW O, PortsAre(v.ports, I, O), NEW S, O \subseteq S,
         \A k \in DOMAIN v.assigns : ReadBy(v.assigns[k].rhs) \subseteq S,
         \A k \in DOMAIN v.ffs : v.ffs[k].next \in S,
         \A k \in DOMAIN v.arrays : v.arrays[k].input \in S
  PROVE  Read(v) \subseteq S
  <1>1. ASSUME NEW k \in DOMAIN v.ports, v.ports[k].dir # "Input" PROVE v.ports[k].w \in S
    <2>1. Port(v.ports[k].w, "Input").dir = "Input"
      BY DEF Port
    <2>2. v.ports[k] # Port(v.ports[k].w, "Input")
      BY <1>1, <2>1
    <2> QED BY <2>2 DEF PortsAre
  <1>2. UNION {ReadBy(v.assigns[k].rhs) : k \in DOMAIN v.assigns} \subseteq S
    OBVIOUS
  <1>3. {v.ports[k].w : k \in {j \in DOMAIN v.ports : v.ports[j].dir # "Input"}} \subseteq S
    BY <1>1
  <1>4. {v.ffs[k].next : k \in DOMAIN v.ffs} \subseteq S /\ {v.arrays[k].input : k \in DOMAIN v.arrays} \subseteq S
    OBVIOUS
  <1> QED BY <1>2, <1>3, <1>4 DEF Read

\* The ports of a machine.
LEMMA PortsOfMachine ==
  ASSUME NEW m, EndsFit(m), NEW state
  PROVE  PortsAre(PortList(DataIn(m), DataOut(m), state), Range(DataIn(m)), Range(DataOut(m)))
  <1> DEFINE W == Wires(m.graph)
  <1>1. /\ DataIn(m) \in Seq(W) /\ DataOut(m) \in Seq(W)
        /\ IsInjective(DataIn(m)) /\ IsInjective(DataOut(m))
        /\ Range(DataIn(m)) \cap Range(DataOut(m)) = {}
    BY DEF EndsFit
  <1> HIDE DEF W
  <1> QED BY <1>1, PortListIs

\* The parts of a module for a machine whose state wires in grouped are in
\* arrays: the instructions in kept are assigned, those that drive a wire of
\* left are not, and each of tails is a grouped wire read off its array.
PartsFit(m, v, grouped, kept, left, tails) ==
  LET O == Range(DataOut(m))
      single == (1..m.sc) \ grouped
  IN  /\ grouped \subseteq 1..m.sc /\ kept \subseteq Instrs(m)
      /\ PortsAre(v.ports, Range(DataIn(m)), O) /\ NamedOnce(v)
      /\ RegNames(v) = {StateIn(m)[i] : i \in {j \in single : StateIn(m)[j] \notin O}}
      /\ Clocks(v) = {StateIn(m)[i] : i \in single}
      /\ v.nets = Wires(m.graph) \ (Range(m.inputs) \cup O \cup left)
      /\ Assigned(v) = {OutOf(m, e) : e \in kept} \cup tails
      /\ \A e \in Instrs(m) : e \in kept <=> OutOf(m, e) \notin left
      /\ \A w \in tails : \E i \in grouped : w = StateIn(m)[i]
      /\ \A w \in ArrNames(v) : w \notin Wires(m.graph) \/ (w \notin O /\ \E i \in grouped : w = StateIn(m)[i])
      /\ \A w \in Read(v) :
           Valued(m, w) /\ w \notin left /\ \A i \in grouped : w = StateIn(m)[i] => w \in tails

LEMMA PartsSound ==
  ASSUME NEW m, EndsFit(m), NetlistFit(m),
         NEW v, NEW grouped, NEW kept, NEW left, NEW tails, PartsFit(m, v, grouped, kept, left, tails)
  PROVE  SoundModule(v, Range(DataIn(m)), Range(DataOut(m)), tails)
  <1> DEFINE I == Range(DataIn(m))
             O == Range(DataOut(m))
             X == Range(m.inputs)
             W == Wires(m.graph)
             s(i) == StateIn(m)[i]
             single == (1..m.sc) \ grouped
  <1>1. /\ \A i, j \in 1..m.sc : s(i) = s(j) => i = j
        /\ \A i \in 1..m.sc : s(i) \in W /\ s(i) \notin I /\ s(i) \in X
        /\ \A w \in X : w \in I \/ \E i \in 1..m.sc : w = s(i)
        /\ I \subseteq X
    BY DEF EndsFit, Range
  <1>2. O \subseteq W /\ X \subseteq W
    BY DEF EndsFit, NetlistFit
  <1>3. \A e \in Instrs(m) : OutOf(m, e) \in W /\ OutOf(m, e) \notin X
    BY DEF NetlistFit
  <1>4. /\ grouped \subseteq 1..m.sc /\ kept \subseteq Instrs(m)
        /\ PortsAre(v.ports, I, O) /\ NamedOnce(v)
        /\ RegNames(v) = {s(i) : i \in {j \in single : s(j) \notin O}}
        /\ Clocks(v) = {s(i) : i \in single}
        /\ v.nets = W \ (X \cup O \cup left)
        /\ Assigned(v) = {OutOf(m, e) : e \in kept} \cup tails
        /\ \A e \in Instrs(m) : e \in kept <=> OutOf(m, e) \notin left
        /\ \A w \in tails : \E i \in grouped : w = s(i)
        /\ \A w \in ArrNames(v) : w \notin W \/ (w \notin O /\ \E i \in grouped : w = s(i))
        /\ \A w \in Read(v) :
             Valued(m, w) /\ w \notin left /\ \A i \in grouped : w = s(i) => w \in tails
    BY DEF PartsFit
  <1>5. \A w : Valued(m, w) <=> w \in X \/ \E j \in Instrs(m) : w = OutOf(m, j)
    BY DEF Valued
  <1> HIDE DEF I, O, X, W, s
  <1>6. DeclaredApart(v, I, O)
    BY <1>1, <1>2, <1>4 DEF DeclaredApart
  <1>7. DrivenApart(v, I)
    BY <1>1, <1>3, <1>4 DEF DrivenApart
  <1>8. ASSUME NEW w \in Read(v) PROVE w \in I \cup Assigned(v) \cup Clocks(v)
    BY <1>1, <1>4, <1>5
  <1>9. ASSUME NEW w \in Read(v), w \notin tails
        PROVE  w \in I \cup O \cup RegNames(v) \cup ArrNames(v) \cup v.nets
    BY <1>1, <1>3, <1>4, <1>5, <1>9
  <1>10. ASSUME NEW w \in Assigned(v), w \notin tails
         PROVE  w \in I \cup O \cup RegNames(v) \cup ArrNames(v) \cup v.nets
    BY <1>3, <1>4, <1>10
  <1>11. SoundModule(v, I, O, tails)
    BY <1>4, <1>6, <1>7, <1>8, <1>9, <1>10 DEF SoundModule
  <1> QED BY <1>11 DEF I, O

---------------------------------------------------------------------------
(* The three emitters                                                      *)

\* build_module, for a machine without state.
LEMMA CombinationalSound ==
  ASSUME NEW m, EndsFit(m), NetlistFit(m), m.sc = 0, NEW tails, tails = {}
  PROVE  SoundModule(BuildModule(m.graph, DataIn(m), DataOut(m)),
                     Range(DataIn(m)), Range(DataOut(m)), tails)
  <1> DEFINE v == BuildModule(m.graph, DataIn(m), DataOut(m))
             O == Range(DataOut(m))
  <1>1. /\ v.ports = PortList(DataIn(m), DataOut(m), {})
        /\ v.regs = <<>> /\ v.arrays = <<>> /\ v.ffs = <<>>
        /\ v.nets = Wires(m.graph) \ (Range(DataIn(m)) \cup O)
        /\ v.assigns = [e \in Instrs(m) |-> Statement(m, e)]
    BY ToSetIsRange DEF BuildModule, Statement, Instrs
  <1>2. DOMAIN v.regs = {} /\ DOMAIN v.arrays = {} /\ DOMAIN v.ffs = {}
    <2> HIDE DEF v
    <2> QED BY <1>1
  <1>3. DOMAIN v.assigns = Instrs(m) /\ \A e \in Instrs(m) : v.assigns[e] = Statement(m, e)
    <2> HIDE DEF v
    <2> QED BY <1>1
  <1>4. PortsAre(v.ports, Range(DataIn(m)), O)
    <2>1. v.ports = PortList(DataIn(m), DataOut(m), {})
      BY <1>1
    <2> HIDE DEF v
    <2> QED BY <2>1, PortsOfMachine
  <1> HIDE DEF v
  <1>5. 1..m.sc = {} /\ Range(m.inputs) = Range(DataIn(m))
    <2>1. 1..m.sc = {}
      OBVIOUS
    <2> QED BY <2>1 DEF EndsFit
  <1>6. NamedOnce(v)
    BY <1>2, <1>3 DEF NamedOnce, NetlistFit
  <1>7. Assigned(v) = {OutOf(m, e) : e \in Instrs(m)}
    BY <1>3 DEF Assigned, NetlistFit
  <1>8. RegNames(v) = {} /\ Clocks(v) = {} /\ ArrNames(v) = {}
    BY <1>2 DEF RegNames, Clocks, ArrNames
  <1>9. \A w \in Read(v) : Valued(m, w)
    <2> DEFINE S == {w \in Wires(m.graph) : Valued(m, w)}
    <2>1. O \subseteq S
      BY DEF EndsFit, NetlistFit
    <2>2. ASSUME NEW k \in DOMAIN v.assigns PROVE ReadBy(v.assigns[k].rhs) \subseteq S
      <3>1. ASSUME NEW w, Valued(m, w) PROVE w \in Wires(m.graph)
        BY <3>1 DEF Valued, NetlistFit
      <3> QED BY <3>1, <1>3 DEF NetlistFit
    <2> HIDE DEF S, O
    <2>3. Read(v) \subseteq S
      BY <1>2, <1>4, <2>1, <2>2, ReadWithin
    <2> QED BY <2>3 DEF S
  <1> DEFINE grouped == {}
             left == {}
             kept == Instrs(m)
  <1>10. PartsFit(m, v, grouped, kept, left, tails)
    BY <1>1, <1>4, <1>5, <1>6, <1>7, <1>8, <1>9 DEF PartsFit
  <1> HIDE DEF grouped, left, kept
  <1>11. SoundModule(v, Range(DataIn(m)), O, tails)
    BY <1>10, PartsSound
  <1> QED BY <1>11 DEF v

\* The families of registers, nets and blocks both synchronous emitters have.
FamiliesFit(m, v, grouped) ==
  /\ \A j, k \in DOMAIN v.regs : v.regs[j] = v.regs[k] => j = k
  /\ \A j, k \in DOMAIN v.ffs : v.ffs[j].w = v.ffs[k].w => j = k
  /\ RegNames(v) = {StateIn(m)[i] : i \in {j \in (1..m.sc) \ grouped : StateIn(m)[j] \notin Range(DataOut(m))}}
  /\ Clocks(v) = {StateIn(m)[i] : i \in (1..m.sc) \ grouped}
  /\ \A k \in DOMAIN v.ffs : k \in (1..m.sc) \ grouped /\ v.ffs[k].next = NextState(m)[k]

LEMMA StateFamilies ==
  ASSUME NEW m, EndsFit(m), NEW v, NEW grouped, NEW chunks,
         v.regs = RegDecls(m, grouped), v.ffs = ScalarBlocks(m, chunks, grouped)
  PROVE  FamiliesFit(m, v, grouped)
  <1> DEFINE s(i) == StateIn(m)[i]
             single == (1..m.sc) \ grouped
             ports == {j \in single : s(j) \notin Range(DataOut(m))}
  <1>1. \A i, j \in 1..m.sc : s(i) = s(j) => i = j
    BY DEF EndsFit
  <1>2. DOMAIN v.regs = ports /\ \A i \in ports : v.regs[i] = s(i)
    BY ToSetIsRange DEF RegDecls
  <1>3. DOMAIN v.ffs = single /\ \A i \in single : v.ffs[i].w = s(i) /\ v.ffs[i].next = NextState(m)[i]
    BY DEF ScalarBlocks
  <1>4. single \subseteq 1..m.sc /\ ports \subseteq single
    OBVIOUS
  <1>5. RegNames(v) = {s(i) : i \in ports} /\ Clocks(v) = {s(i) : i \in single}
    <2> HIDE DEF s, single, ports
    <2> QED BY <1>2, <1>3 DEF RegNames, Clocks
  <1>6. /\ \A j, k \in DOMAIN v.regs : v.regs[j] = v.regs[k] => j = k
        /\ \A j, k \in DOMAIN v.ffs : v.ffs[j].w = v.ffs[k].w => j = k
        /\ \A k \in DOMAIN v.ffs : k \in single /\ v.ffs[k].next = NextState(m)[k]
    <2> HIDE DEF s, single, ports
    <2>1. \A j, k \in DOMAIN v.regs : v.regs[j] = v.regs[k] => j = k
      BY <1>1, <1>2, <1>4
    <2>a. \A k \in DOMAIN v.ffs : k \in 1..m.sc /\ v.ffs[k].w = s(k)
      BY <1>3, <1>4
    <2>2. \A j, k \in DOMAIN v.ffs : v.ffs[j].w = v.ffs[k].w => j = k
      BY <1>1, <2>a
    <2>3. \A k \in DOMAIN v.ffs : k \in single /\ v.ffs[k].next = NextState(m)[k]
      BY <1>3
    <2> QED BY <2>1, <2>2, <2>3
  <1> QED BY <1>5, <1>6 DEF FamiliesFit

\* What DetectedApart says of one wire.
LEMMA ApartFromDetected ==
  ASSUME NEW m, DetectedApart(m), EmittableGraph(m)
  PROVE  /\ \A w \in Range(DataOut(m)) : w \notin Suppressed(m) /\ \A i \in Detected(m) : w # StateIn(m)[i]
         /\ \A k \in (1..m.sc) \ Detected(m) :
              NextState(m)[k] \notin Suppressed(m) /\ \A i \in Detected(m) : NextState(m)[k] # StateIn(m)[i]
         /\ \A k \in Detected(m) :
              LET w == m.graph.instrs[Min(ShiftsInto(m, k))].ins[2]
              IN  w \notin Suppressed(m) /\ \A i \in Detected(m) : w # StateIn(m)[i]
         /\ \A e \in Instrs(m) : \A w \in OperandsOf(m, e) :
              ReadsTail(m, m.graph.instrs[e]) \/ OutOf(m, e) \in Suppressed(m)
                \/ (w \notin Suppressed(m) /\ \A i \in Detected(m) : w # StateIn(m)[i])
  <1> DEFINE instrs  == m.graph.instrs
             arrays  == {StateIn(m)[i] : i \in Detected(m)}
             nexts   == {NextState(m)[i] : i \in Detected(m)}
             tails   == {e \in DOMAIN instrs : instrs[e].op.op = "ArrayTail" /\ instrs[e].ins[1] \in arrays}
             shifts  == {e \in DOMAIN instrs : instrs[e].out \in nexts}
             fed     == {instrs[Min(ShiftsInto(m, i))].ins[2] : i \in Detected(m)}
             others  == DOMAIN instrs \ (tails \cup shifts)
             read    == StillRead(m, others, Detected(m), fed)
  <1>1. read \cap (arrays \cup nexts) = {}
    BY DEF DetectedApart
  <1>2. /\ Range(DataOut(m)) \subseteq read /\ fed \subseteq read
        /\ {NextState(m)[k] : k \in (1..m.sc) \ Detected(m)} \subseteq read
        /\ \A e \in others : OperandsOf(m, e) \subseteq read
    <2> HIDE DEF others, fed
    <2> QED BY ToSetIsRange DEF StillRead, OperandsOf
  <1>3. nexts = Suppressed(m)
    BY DEF Suppressed
  <1>4. ASSUME NEW e \in Instrs(m), ~ReadsTail(m, instrs[e]), OutOf(m, e) \notin Suppressed(m)
        PROVE  e \in others
    <2>1. e \notin tails
      BY <1>4 DEF ReadsTail
    <2>2. e \notin shifts
      BY <1>3, <1>4 DEF OutOf
    <2> QED BY <2>1, <2>2 DEF Instrs
  <1> HIDE DEF read, others, tails, shifts
  <1>5. \A w \in read : w \notin Suppressed(m) /\ \A i \in Detected(m) : w # StateIn(m)[i]
    BY <1>1, <1>3
  <1> QED BY <1>2, <1>4, <1>5

LEMMA EmittedAre ==
  ASSUME NEW m, NetlistFit(m)
  PROVE  /\ Emitted(m) \subseteq Instrs(m)
         /\ \A e \in Instrs(m) : e \in Emitted(m) <=> OutOf(m, e) \notin Suppressed(m)
  <1> DEFINE tails == {e \in Instrs(m) : ReadsTail(m, m.graph.instrs[e])}
             driven == {OutOf(m, e) : e \in tails}
  <1>1. Emitted(m) = tails \cup {e \in Instrs(m) : OutOf(m, e) \notin Suppressed(m) \cup driven}
    BY DEF Emitted, Instrs, OutOf
  <1>2. ASSUME NEW e \in tails PROVE OutOf(m, e) \notin Suppressed(m)
    <2>1. SUFFICES ASSUME NEW i \in Detected(m), OutOf(m, e) = NextState(m)[i] PROVE FALSE
      BY DEF Suppressed
    <2>2. PICK j \in Instrs(m) : OutOf(m, j) = NextState(m)[i] /\ m.graph.instrs[j].op.op = "ArrayShiftIn"
      BY DEF Detected, IsDetected, ShiftsInto, Instrs, OutOf
    <2>3. j = e
      BY <2>1, <2>2 DEF NetlistFit
    <2> QED BY <2>2, <2>3 DEF ReadsTail
  <1>3. ASSUME NEW e \in Instrs(m), OutOf(m, e) \in driven PROVE e \in tails
    BY <1>3 DEF NetlistFit
  <1> HIDE DEF tails, driven
  <1>4. tails \subseteq Instrs(m)
    BY DEF tails
  <1> QED BY <1>1, <1>2, <1>3, <1>4

\* build_sync_module
LEMMA DetectingSound ==
  ASSUME NEW m, EmittableGraph(m), EndsFit(m), NetlistFit(m), DetectedApart(m),
         NEW tails, tails = {}
  PROVE  SoundModule(BuildSyncModule(m).val, Range(DataIn(m)), Range(DataOut(m)), tails)
  <1> DEFINE v == BuildSyncModule(m).val
             O == Range(DataOut(m))
             D == Detected(m)
             chunks == Chunks(m.init, Widths(m.graph, StateIn(m)))
             Stmt(e) == IF ReadsTail(m, m.graph.instrs[e]) THEN TailStmt(m.graph.instrs[e]) ELSE Statement(m, e)
             W == Wires(m.graph)
  <1>1. Len(m.init) = Total(Widths(m.graph, StateIn(m)))
    BY DEF EmittableGraph, CompactWidths
  <1>2. /\ v.ports = PortList(DataIn(m), DataOut(m), ToSet(StateIn(m)))
        /\ v.regs = RegDecls(m, D) /\ v.arrays = DetectArrays(m, chunks)
        /\ v.nets = NetDecls(m, Suppressed(m)) /\ v.ffs = ScalarBlocks(m, chunks, D)
        /\ v.assigns = [e \in Emitted(m) |-> Stmt(e)]
    <2> HIDE DEF chunks, D
    <2> QED BY <1>1 DEF BuildSyncModule, When, Ok, Statement, chunks, D
  <1>3. D \subseteq 1..m.sc
    BY DEF Detected
  <1>4. PortsAre(v.ports, Range(DataIn(m)), O)
    <2>1. v.ports = PortList(DataIn(m), DataOut(m), ToSet(StateIn(m)))
      BY <1>2
    <2> HIDE DEF v
    <2> QED BY <2>1, PortsOfMachine
  <1>5. FamiliesFit(m, v, D)
    <2>1. v.regs = RegDecls(m, D) /\ v.ffs = ScalarBlocks(m, chunks, D)
      BY <1>2
    <2> HIDE DEF v, chunks, D
    <2> QED BY <2>1, StateFamilies
  <1>6. /\ DOMAIN v.arrays = D
        /\ \A i \in D : /\ v.arrays[i].w = StateIn(m)[i]
                        /\ v.arrays[i].input = m.graph.instrs[Min(ShiftsInto(m, i))].ins[2]
    <2>1. v.arrays = [i \in D |-> ArrayOf(m, i, chunks[i])]
      BY <1>2 DEF DetectArrays
    <2> HIDE DEF v, chunks, D
    <2> QED BY <2>1 DEF ArrayOf
  <1>7. /\ Emitted(m) \subseteq Instrs(m)
        /\ \A e \in Instrs(m) : e \in Emitted(m) <=> OutOf(m, e) \notin Suppressed(m)
    BY EmittedAre
  <1>8. /\ DOMAIN v.assigns = Emitted(m)
        /\ \A e \in Emitted(m) : /\ v.assigns[e].lhs = OutOf(m, e)
                                 /\ v.assigns[e].rhs = Stmt(e).rhs
    <2>1. \A e \in Emitted(m) : Stmt(e).lhs = OutOf(m, e)
      BY <1>7 DEF TailStmt, Assign, OutOf, NetlistFit
    <2>2. v.assigns = [e \in Emitted(m) |-> Stmt(e)]
      BY <1>2
    <2> HIDE DEF v, Stmt
    <2> QED BY <2>1, <2>2
  <1>9. \A e \in Emitted(m) :
          \/ ReadBy(Stmt(e).rhs) = {}
          \/ ~ReadsTail(m, m.graph.instrs[e]) /\ ReadBy(Stmt(e).rhs) \subseteq OperandsOf(m, e)
    <2>1. ASSUME NEW e \in Emitted(m), ReadsTail(m, m.graph.instrs[e]) PROVE ReadBy(Stmt(e).rhs) = {}
      BY <2>1 DEF TailStmt, Assign, ArrayIndex, ReadBy
    <2>2. ASSUME NEW e \in Emitted(m), ~ReadsTail(m, m.graph.instrs[e])
          PROVE  ReadBy(Stmt(e).rhs) \subseteq OperandsOf(m, e)
      BY <2>2, <1>7 DEF NetlistFit
    <2> QED BY <2>1, <2>2
  <1>10. v.nets = W \ (Range(m.inputs) \cup O \cup Suppressed(m))
    BY <1>2, ToSetIsRange DEF NetDecls
  <1> HIDE DEF v, Stmt, chunks
  <1>11. NamedOnce(v)
    <2>1. \A j, k \in DOMAIN v.arrays : v.arrays[j].w = v.arrays[k].w => j = k
      BY <1>3, <1>6 DEF EndsFit
    <2>2. \A j, k \in DOMAIN v.assigns : v.assigns[j].lhs = v.assigns[k].lhs => j = k
      BY <1>7, <1>8 DEF NetlistFit
    <2> QED BY <1>5, <2>1, <2>2 DEF NamedOnce, FamiliesFit
  <1>12. Assigned(v) = {OutOf(m, e) : e \in Emitted(m)}
    BY <1>8 DEF Assigned
  <1>13. \A w \in ArrNames(v) : w \notin O /\ \E i \in D : w = StateIn(m)[i]
    <2>1. \A w \in ArrNames(v) : \E i \in D : w = StateIn(m)[i]
      BY <1>6 DEF ArrNames
    <2> QED BY <2>1, ApartFromDetected
  <1> DEFINE S == {w \in W : Valued(m, w) /\ w \notin Suppressed(m) /\ \A i \in D : w # StateIn(m)[i]}
  <1>14. Read(v) \subseteq S
    <2>0. \A w : Valued(m, w) => w \in W
      BY DEF Valued, NetlistFit
    <2>1. O \subseteq S
      BY <2>0, ApartFromDetected DEF EndsFit, NetlistFit
    <2>2. ASSUME NEW e \in DOMAIN v.assigns PROVE ReadBy(v.assigns[e].rhs) \subseteq S
      <3>1. e \in Emitted(m) /\ e \in Instrs(m) /\ OutOf(m, e) \notin Suppressed(m)
        BY <1>7, <1>8
      <3>2. \A w \in OperandsOf(m, e) : ReadsTail(m, m.graph.instrs[e]) \/ w \in S
        BY <3>1, <2>0, ApartFromDetected DEF NetlistFit
      <3> HIDE DEF S
      <3> QED BY <3>1, <3>2, <1>8, <1>9
    <2>3. ASSUME NEW k \in DOMAIN v.ffs PROVE v.ffs[k].next \in S
      <3>1. k \in (1..m.sc) \ D /\ v.ffs[k].next = NextState(m)[k]
        BY <1>5 DEF FamiliesFit
      <3>2. Valued(m, NextState(m)[k])
        BY <3>1 DEF EndsFit, NetlistFit
      <3> QED BY <3>1, <3>2, <2>0, ApartFromDetected
    <2>4. ASSUME NEW k \in DOMAIN v.arrays PROVE v.arrays[k].input \in S
      <3> DEFINE e == Min(ShiftsInto(m, k))
                 n == Len(m.graph.instrs)
      <3>1. k \in D /\ v.arrays[k].input = m.graph.instrs[e].ins[2]
        BY <1>6
      <3>2. e \in ShiftsInto(m, k)
        <4>1. n \in Nat /\ n \in Int
          <5> DEFINE T == Range(m.graph.instrs)
          <5>1. m.graph.instrs \in Seq(T)
            BY DEF EmittableGraph, Shaped
          <5> HIDE DEF T
          <5> QED BY <5>1, LenProperties
        <4>2. ShiftsInto(m, k) \in SUBSET (1..n)
          BY DEF ShiftsInto, NetlistFit, Instrs
        <4>3. ShiftsInto(m, k) # {}
          BY <3>1 DEF Detected, IsDetected
        <4> HIDE DEF n
        <4> QED BY <4>1, <4>2, <4>3, LeastIsMember
      <3> HIDE DEF e
      <3>3. m.graph.instrs[e].ins[2] \in OperandsOf(m, e) /\ e \in Instrs(m)
        <4> DEFINE ins == m.graph.instrs[e].ins
        <4>1. e \in Instrs(m) /\ m.graph.instrs[e].op.op = "ArrayShiftIn"
          BY <3>2 DEF ShiftsInto, Instrs
        <4>2. ins \in Seq(W) /\ Len(ins) = 2
          BY <4>1 DEF EmittableGraph, Shaped, Accepts, Arity, Instrs
        <4>3. 2 \in DOMAIN ins
          <5> HIDE DEF ins, W
          <5> QED BY <4>2, LenProperties
        <4> QED BY <4>1, <4>3 DEF OperandsOf, Range
      <3>4. Valued(m, m.graph.instrs[e].ins[2])
        BY <3>3 DEF NetlistFit
      <3> QED BY <3>1, <3>4, <2>0, ApartFromDetected DEF e
    <2> HIDE DEF S, O
    <2> QED BY <1>4, <2>1, <2>2, <2>3, <2>4, ReadWithin
  <1> DEFINE left == Suppressed(m)
             kept == Emitted(m)
  <1>15. \A w \in Read(v) : Valued(m, w) /\ w \notin left /\ \A i \in D : w = StateIn(m)[i] => w \in tails
    BY <1>14
  <1>16. PartsFit(m, v, D, kept, left, tails)
    <2> HIDE DEF D
    <2> QED BY <1>3, <1>4, <1>5, <1>7, <1>10, <1>11, <1>12, <1>13, <1>15 DEF PartsFit, FamiliesFit
  <1> HIDE DEF left, kept, D
  <1>17. SoundModule(v, Range(DataIn(m)), O, tails)
    BY <1>16, PartsSound
  <1> QED BY <1>17 DEF v

\* w may be read beside the caller's arrays.
MayRead(m, groups, w) ==
  w \notin ShiftedNexts(m, groups) /\ \A i \in Grouped(groups) : w = StateIn(m)[i] => w \in Tails(m, groups)

\* What GroupsApart says of one wire.
LEMMA ApartFromGroups ==
  ASSUME NEW m, NEW groups, GroupsApart(m, groups)
  PROVE  /\ \A w \in Range(DataOut(m)) : MayRead(m, groups, w)
         /\ \A k \in (1..m.sc) \ Grouped(groups) : MayRead(m, groups, NextState(m)[k])
         /\ \A k \in DOMAIN groups : MayRead(m, groups, groups[k].input)
         /\ \A e \in Instrs(m) : OutOf(m, e) \notin ShiftedNexts(m, groups) =>
              \A w \in OperandsOf(m, e) : MayRead(m, groups, w)
  <1> DEFINE instrs  == m.graph.instrs
             shifted == ShiftedNexts(m, groups)
             kept    == {e \in DOMAIN instrs : instrs[e].out \notin shifted}
             fed     == {groups[k].input : k \in DOMAIN groups}
             hidden  == {StateIn(m)[i] : i \in Grouped(groups)} \ Tails(m, groups)
             read    == StillRead(m, kept, Grouped(groups), fed)
  <1>1. read \cap (hidden \cup shifted) = {}
    BY DEF GroupsApart
  <1>2. /\ Range(DataOut(m)) \subseteq read /\ fed \subseteq read
        /\ {NextState(m)[k] : k \in (1..m.sc) \ Grouped(groups)} \subseteq read
        /\ \A e \in kept : OperandsOf(m, e) \subseteq read
    <2> HIDE DEF kept, fed
    <2> QED BY ToSetIsRange DEF StillRead, OperandsOf
  <1>3. \A e \in Instrs(m) : OutOf(m, e) \notin shifted => e \in kept
    BY DEF OutOf, Instrs
  <1> HIDE DEF read, kept
  <1>4. \A w \in read : MayRead(m, groups, w)
    BY <1>1 DEF MayRead
  <1> QED BY <1>2, <1>3, <1>4

\* Where the tails of the caller's arrays are.
LEMMA TailsApart ==
  ASSUME NEW m, EndsFit(m), NEW groups, SpecsFit(m, groups)
  PROVE  /\ Grouped(groups) \subseteq 1..m.sc
         /\ \A k \in DOMAIN groups : \E i \in Grouped(groups) : TailMember(m, groups[k]) = StateIn(m)[i]
         /\ \A j, k \in DOMAIN groups : TailMember(m, groups[j]) = TailMember(m, groups[k]) => j = k
  <1> DEFINE t(k) == groups[k].start + groups[k].depth - 1
  <1>1. Grouped(groups) \subseteq 1..m.sc
    BY DEF Grouped, SpecsFit
  <1>2. ASSUME NEW k \in DOMAIN groups
        PROVE  t(k) \in Members(groups[k]) /\ TailMember(m, groups[k]) = StateIn(m)[t(k)]
               /\ t(k) \in 1..m.sc /\ t(k) \in Grouped(groups)
    <2>1. groups[k].start \in Nat /\ groups[k].depth \in Nat \ {0} /\ Members(groups[k]) \subseteq 1..m.sc
      BY DEF SpecsFit
    <2>2. t(k) \in Members(groups[k])
      BY <2>1 DEF Members
    <2> QED BY <2>1, <2>2 DEF TailMember, Grouped
  <1> HIDE DEF t
  <1>3. ASSUME NEW j \in DOMAIN groups, NEW k \in DOMAIN groups,
               TailMember(m, groups[j]) = TailMember(m, groups[k])
        PROVE  j = k
    <2>1. t(j) = t(k)
      BY <1>2, <1>3 DEF EndsFit
    <2>2. t(j) \in Members(groups[j]) /\ t(j) \in Members(groups[k])
      BY <2>1, <1>2
    <2> QED BY <2>2 DEF SpecsFit
  <1> QED BY <1>1, <1>2, <1>3

\* build_sync_module_with_arrays
LEMMA GroupedSound ==
  ASSUME NEW m, EmittableGraph(m), EndsFit(m), NetlistFit(m),
         NEW groups, groups \in Seq(Range(groups)), SpecsFit(m, groups), GroupsApart(m, groups)
  PROVE  SoundModule(BuildSyncModuleWithArrays(m, groups).val,
                     Range(DataIn(m)), Range(DataOut(m)), Tails(m, groups))
  <1> DEFINE v == BuildSyncModuleWithArrays(m, groups).val
             O == Range(DataOut(m))
             G == Grouped(groups)
             chunks == Chunks(m.init, Widths(m.graph, StateIn(m)))
             left == ShiftedNexts(m, groups)
             kept == {e \in Instrs(m) : OutOf(m, e) \notin left}
             n == Len(m.graph.instrs)
             K == DOMAIN groups
             extra == {n + k : k \in K}
             Stmt(e) == IF e \in kept THEN Statement(m, e) ELSE GroupTail(m, groups[e - n])
             W == Wires(m.graph)
             tails == Tails(m, groups)
  <1>1. Len(m.init) = Total(Widths(m.graph, StateIn(m)))
    BY DEF EmittableGraph, CompactWidths
  <1>2. /\ v.ports = PortList(DataIn(m), DataOut(m), ToSet(StateIn(m)))
        /\ v.regs = RegDecls(m, G) /\ v.arrays = GroupArrays(groups)
        /\ v.nets = NetDecls(m, left) /\ v.ffs = ScalarBlocks(m, chunks, G)
        /\ v.assigns = [e \in kept \cup extra |-> Stmt(e)]
    <2> DEFINE shifted == ShiftedNexts(m, groups)
               g == m.graph
               held == {e \in DOMAIN g.instrs : g.instrs[e].out \notin shifted}
               more == {Len(g.instrs) + k : k \in DOMAIN groups}
               Tail1(e) == IF e \in held THEN InstructionStmt(g, g.instrs[e])
                           ELSE GroupTail(m, groups[e - Len(g.instrs)])
    <2>1. /\ v.ports = PortList(DataIn(m), DataOut(m), ToSet(StateIn(m)))
          /\ v.regs = RegDecls(m, G) /\ v.arrays = GroupArrays(groups)
          /\ v.nets = NetDecls(m, shifted) /\ v.ffs = ScalarBlocks(m, chunks, G)
          /\ v.assigns = [e \in held \cup more |-> Tail1(e)]
      <3> HIDE DEF chunks, G, shifted, held, more
      <3> QED BY <1>1 DEF BuildSyncModuleWithArrays, When, Ok, chunks, G, shifted, held, more
    <2>2. held = kept /\ more = extra
      BY DEF Instrs, OutOf
    <2>3. \A e : Tail1(e) = Stmt(e)
      BY <2>2 DEF Statement
    <2> HIDE DEF v, held, more, kept, extra, Tail1, Stmt, chunks, G
    <2> QED BY <2>1, <2>2, <2>3
  <1>3. n \in Nat /\ Instrs(m) = 1..n
    <2> DEFINE T == Range(m.graph.instrs)
    <2>1. m.graph.instrs \in Seq(T)
      BY DEF EmittableGraph, Shaped
    <2> HIDE DEF T
    <2> QED BY <2>1, LenProperties DEF Instrs
  <1>4. K = 1..Len(groups) /\ Len(groups) \in Nat
    <2> DEFINE T == Range(groups)
    <2>1. groups \in Seq(T)
      OBVIOUS
    <2> HIDE DEF T
    <2> QED BY <2>1, LenProperties
  <1>5. PortsAre(v.ports, Range(DataIn(m)), O)
    <2>1. v.ports = PortList(DataIn(m), DataOut(m), ToSet(StateIn(m)))
      BY <1>2
    <2> HIDE DEF v
    <2> QED BY <2>1, PortsOfMachine
  <1>6. FamiliesFit(m, v, G)
    <2>1. v.regs = RegDecls(m, G) /\ v.ffs = ScalarBlocks(m, chunks, G)
      BY <1>2
    <2> HIDE DEF v, chunks, G
    <2> QED BY <2>1, StateFamilies
  <1>7. DOMAIN v.arrays = K /\ \A k \in K : v.arrays[k].w = groups[k].name /\ v.arrays[k].input = groups[k].input
    <2>1. v.arrays = GroupArrays(groups)
      BY <1>2
    <2> HIDE DEF v
    <2> QED BY <2>1 DEF GroupArrays
  <1>8. \A k \in K : n + k \notin kept /\ (n + k) - n = k
    <2>1. \A k \in K : k \in Nat \ {0}
      BY <1>4
    <2>2. \A e \in kept : e \in 1..n
      BY <1>3
    <2> HIDE DEF n, K, kept
    <2> QED BY <1>3, <2>1, <2>2
  <1>9. DOMAIN v.assigns = kept \cup extra /\ \A e \in kept \cup extra : v.assigns[e] = Stmt(e)
    <2>1. v.assigns = [e \in kept \cup extra |-> Stmt(e)]
      BY <1>2
    <2> HIDE DEF v, Stmt, kept, extra
    <2> QED BY <2>1
  <1>10. /\ \A e \in kept : v.assigns[e] = Statement(m, e)
         /\ \A k \in K : v.assigns[n + k] = GroupTail(m, groups[k])
    <2>1. \A k \in K : n + k \in extra
      OBVIOUS
    <2> HIDE DEF v, kept, extra, K, n
    <2> QED BY <2>1, <1>8, <1>9
  <1>11. v.nets = W \ (Range(m.inputs) \cup O \cup left)
    BY <1>2, ToSetIsRange DEF NetDecls
  <1>12. \A k : /\ GroupTail(m, groups[k]).lhs = TailMember(m, groups[k])
                /\ ReadBy(GroupTail(m, groups[k]).rhs) = {}
    BY DEF GroupTail, Assign, ArrayIndex, ReadBy
  <1>13. \A e \in kept : e \in Instrs(m) /\ Statement(m, e).lhs = OutOf(m, e)
    BY DEF NetlistFit
  <1>14. \A k \in K : TailMember(m, groups[k]) \in Range(m.inputs)
    <2>1. \A i \in 1..m.sc : StateIn(m)[i] \in Range(m.inputs)
      BY DEF EndsFit, Range
    <2> QED BY <2>1, TailsApart
  <1>15. /\ \A e \in Instrs(m) : e \in kept <=> OutOf(m, e) \notin left
         /\ kept \subseteq Instrs(m)
    OBVIOUS
  <1> DEFINE S == {w \in W : Valued(m, w) /\ MayRead(m, groups, w)}
  <1>16. \A e \in kept : OperandsOf(m, e) \subseteq S
    <2>1. \A w : Valued(m, w) => w \in W
      BY DEF Valued, NetlistFit
    <2> QED BY <2>1, ApartFromGroups DEF NetlistFit
  <1> HIDE DEF v, Stmt, chunks, kept
  <1>17. ASSUME NEW e \in DOMAIN v.assigns
         PROVE  \/ e \in kept
                \/ \E k \in K : e = n + k
    BY <1>9
  <1> HIDE DEF n, extra
  <1>18. NamedOnce(v)
    <2>1. \A j, k \in DOMAIN v.arrays : v.arrays[j].w = v.arrays[k].w => j = k
      BY <1>7 DEF SpecsFit
    <2>2. ASSUME NEW j \in DOMAIN v.assigns, NEW k \in DOMAIN v.assigns, v.assigns[j].lhs = v.assigns[k].lhs
          PROVE  j = k
      <3>1. CASE j \in kept /\ k \in kept
        BY <3>1, <2>2, <1>10, <1>13 DEF NetlistFit
      <3>2. ASSUME NEW a \in kept, NEW b \in K PROVE v.assigns[a].lhs # v.assigns[n + b].lhs
        BY <1>10, <1>12, <1>13, <1>14 DEF NetlistFit
      <3>3. CASE j \notin kept /\ k \notin kept
        BY <3>3, <2>2, <1>10, <1>12, <1>17, TailsApart
      <3> QED BY <2>2, <3>1, <3>2, <3>3, <1>17
    <2> QED BY <1>6, <2>1, <2>2 DEF NamedOnce, FamiliesFit
  <1>19. Assigned(v) = {OutOf(m, e) : e \in kept} \cup tails
    <2>1. \A e \in kept : e \in DOMAIN v.assigns /\ v.assigns[e].lhs = OutOf(m, e)
      BY <1>9, <1>10, <1>13
    <2>2. \A k \in K : n + k \in DOMAIN v.assigns /\ v.assigns[n + k].lhs = TailMember(m, groups[k])
      BY <1>9, <1>10, <1>12 DEF extra
    <2>3. tails = {TailMember(m, groups[k]) : k \in K}
      BY DEF Tails
    <2> HIDE DEF tails, K
    <2> QED BY <2>1, <2>2, <2>3, <1>17 DEF Assigned
  <1>20. \A w \in ArrNames(v) : w \notin W
    BY <1>7 DEF ArrNames, SpecsFit
  <1>21. Read(v) \subseteq S
    <2>0. \A w : Valued(m, w) => w \in W
      BY DEF Valued, NetlistFit
    <2>1. O \subseteq S
      BY <2>0, ApartFromGroups DEF EndsFit, NetlistFit
    <2>2. ASSUME NEW e \in DOMAIN v.assigns PROVE ReadBy(v.assigns[e].rhs) \subseteq S
      <3>1. CASE e \in kept
        BY <3>1, <1>10, <1>13, <1>16 DEF NetlistFit
      <3>2. CASE \E k \in K : e = n + k
        BY <3>2, <1>10, <1>12
      <3> QED BY <3>1, <3>2, <1>17
    <2>3. ASSUME NEW k \in DOMAIN v.ffs PROVE v.ffs[k].next \in S
      <3>1. k \in (1..m.sc) \ G /\ v.ffs[k].next = NextState(m)[k]
        BY <1>6 DEF FamiliesFit
      <3>2. Valued(m, NextState(m)[k])
        BY <3>1 DEF EndsFit, NetlistFit
      <3> QED BY <3>1, <3>2, <2>0, ApartFromGroups
    <2>4. ASSUME NEW k \in DOMAIN v.arrays PROVE v.arrays[k].input \in S
      <3>1. k \in K /\ v.arrays[k].input = groups[k].input
        BY <1>7
      <3>2. Valued(m, groups[k].input)
        BY <3>1 DEF SpecsFit, NetlistFit
      <3> QED BY <3>1, <3>2, <2>0, ApartFromGroups
    <2> HIDE DEF S, O
    <2> QED BY <1>5, <2>1, <2>2, <2>3, <2>4, ReadWithin
  <1>22. \A w \in Read(v) : Valued(m, w) /\ w \notin left /\ \A i \in G : w = StateIn(m)[i] => w \in tails
    BY <1>21 DEF MayRead
  <1>23. \A w \in tails : \E i \in G : w = StateIn(m)[i]
    BY TailsApart DEF Tails
  <1>24. G \subseteq 1..m.sc
    BY TailsApart
  <1> HIDE DEF left, G, tails
  <1>25. PartsFit(m, v, G, kept, left, tails)
    BY <1>5, <1>6, <1>11, <1>15, <1>18, <1>19, <1>20, <1>22, <1>23, <1>24 DEF PartsFit, FamiliesFit
  <1>26. SoundModule(v, Range(DataIn(m)), O, tails)
    BY <1>25, PartsSound
  <1> QED BY <1>26 DEF v, tails

\* Naming no arrays is a grouping like any other.
LEMMA NothingGrouped ==
  ASSUME NEW m
  PROVE  /\ <<>> \in Seq(Range(<<>>)) /\ SpecsFit(m, <<>>) /\ GroupsApart(m, <<>>)
         /\ Tails(m, <<>>) = {}
  <1>1. DOMAIN <<>> = {}
    OBVIOUS
  <1>2. Grouped(<<>>) = {} /\ ShiftedNexts(m, <<>>) = {} /\ Tails(m, <<>>) = {}
    BY <1>1 DEF Grouped, ShiftedNexts, Tails
  <1>3. SpecsFit(m, <<>>)
    BY <1>1 DEF SpecsFit
  <1>4. GroupsApart(m, <<>>)
    BY <1>2 DEF GroupsApart
  <1>5. <<>> \in Seq(Range(<<>>))
    OBVIOUS
  <1> QED BY <1>2, <1>3, <1>4, <1>5

---------------------------------------------------------------------------
(* EveryNetOnce *)

\* The design is what is emitted for one of the emissions, on every edge.
EmittedDesign ==
  /\ \E e \in Emissions : machine = e.machine /\ specs = e.specs
  /\ design = SyncDesign(machine, specs)

LEMMA OneOfEachIn ==
  ASSUME NEW v, NEW names, NEW tails, OneOfEach(v, names, {})
  PROVE  OneOfEach(v, names, tails)
  BY DEF OneOfEach

\* Every module that can be emitted for a machine, with or without arrays.
LEMMA EmittersSound ==
  ASSUME NEW m, NEW groups, FitsEmitter(m, groups), NEW names
  PROVE  /\ OneOfEach(SyncDesign(m, groups).module, names, Tails(m, groups))
         /\ m.sc = 0 => OneOfEach(BuildModule(m.graph, DataIn(m), DataOut(m)), names, Tails(m, groups))
         /\ OneOfEach(BuildSyncModuleWithArrays(m, <<>>).val, names, Tails(m, groups))
  <1>1. EmittableGraph(m) /\ groups \in Seq(Range(groups))
        /\ IF groups = <<>> THEN DetectedApart(m) ELSE SpecsFit(m, groups) /\ GroupsApart(m, groups)
    BY DEF FitsEmitter
  <1>2. EndsFit(m) /\ NetlistFit(m)
    BY <1>1, EndsOfMachine, NetlistOfMachine
  <1> DEFINE none == {}
  <1>3. ASSUME groups = <<>> PROVE OneOfEach(SyncDesign(m, groups).module, names, Tails(m, groups))
    <2>1. SoundModule(BuildSyncModule(m).val, Range(DataIn(m)), Range(DataOut(m)), none)
      BY <1>1, <1>2, <1>3, DetectingSound
    <2>2. SyncDesign(m, groups).module = BuildSyncModule(m).val
      BY <1>3 DEF SyncDesign, Design
    <2>3. OneOfEach(SyncDesign(m, groups).module, names, none)
      BY <2>1, <2>2, SoundIsOnce
    <2> QED BY <2>3, OneOfEachIn
  <1>4. ASSUME groups # <<>> PROVE OneOfEach(SyncDesign(m, groups).module, names, Tails(m, groups))
    <2>1. SoundModule(BuildSyncModuleWithArrays(m, groups).val, Range(DataIn(m)), Range(DataOut(m)), Tails(m, groups))
      BY <1>1, <1>2, <1>4, GroupedSound
    <2>2. SyncDesign(m, groups).module = BuildSyncModuleWithArrays(m, groups).val
      BY <1>4 DEF SyncDesign, Design
    <2> QED BY <2>1, <2>2, SoundIsOnce
  <1>5. m.sc = 0 => OneOfEach(BuildModule(m.graph, DataIn(m), DataOut(m)), names, none)
    BY <1>2, CombinationalSound, SoundIsOnce
  <1>6. OneOfEach(BuildSyncModuleWithArrays(m, <<>>).val, names, none)
    <2>1. SoundModule(BuildSyncModuleWithArrays(m, <<>>).val, Range(DataIn(m)), Range(DataOut(m)), Tails(m, <<>>))
      BY <1>1, <1>2, NothingGrouped, GroupedSound
    <2> QED BY <2>1, NothingGrouped, SoundIsOnce
  <1> QED BY <1>3, <1>4, <1>5, <1>6, OneOfEachIn

LEMMA EmittedIsOnce == EmittedDesign => EveryNetOnce
  <1> SUFFICES ASSUME EmittedDesign, NEW d \in Designs
               PROVE  OneOfEach(d.module, Wires(M.graph) \cup ArrayNames(d), Tails(M, specs))
    BY DEF EveryNetOnce
  <1> DEFINE names == Wires(M.graph) \cup ArrayNames(d)
  <1>1. FitsEmitter(machine, specs)
    BY EmissionsAssumption DEF EmittedDesign
  <1>2. d = design \/ (machine.sc = 0 /\ d = CombDesign) \/ d = UngroupedDesign
    BY DEF Designs, M
  <1>3. /\ design = SyncDesign(machine, specs)
        /\ CombDesign.module = BuildModule(machine.graph, DataIn(machine), DataOut(machine))
        /\ UngroupedDesign.module = BuildSyncModuleWithArrays(machine, <<>>).val
    BY DEF EmittedDesign, CombDesign, UngroupedDesign, Design, M
  <1> HIDE DEF names
  <1>4. OneOfEach(d.module, names, Tails(machine, specs))
    BY <1>1, <1>2, <1>3, EmittersSound
  <1> QED BY <1>4 DEF names, M

\* Whatever emitter a machine goes through, its module declares every
\* identifier once, gives every net it reads exactly one driver and no net two.
THEOREM NetsAlwaysOnce == Spec => []EveryNetOnce
  <1>1. Init => EmittedDesign
    BY DEF Init, EmittedDesign
  <1>2. EmittedDesign /\ [Next]_vars => EmittedDesign'
    BY DEF EmittedDesign, Next, Edge, Reset, vars
  <1> QED BY <1>1, <1>2, EmittedIsOnce, PTL DEF Spec
=============================================================================
