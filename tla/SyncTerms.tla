----------------------------- MODULE SyncTerms -----------------------------
(***************************************************************************)
(* Machines as terms: how each was assembled with the library and the      *)
(* composition functions (Build), and what its documentation says it does, *)
(* on numbers (Start and React).  A state is the list of the numbers its   *)
(* state wires hold, data the list of the numbers on the data wires.       *)
(*                                                                         *)
(* React is read off the docs, not off the code: the counter outputs its   *)
(* count before incrementing, the accumulator the sum including this       *)
(* cycle's input, compose_sync runs f and then g on f's output, par_sync   *)
(* runs both, feedback_sync gives f its own previous output.  A register   *)
(* is the braid read as state (x) input -> next state (x) output.          *)
(***************************************************************************)
EXTENDS SyncMachine

Lib(name, n) == [t |-> name, n |-> n]
Register(n, init) == [t |-> "register", n |-> n, init |-> init]
Lift(gate, n) == [t |-> "lift", gate |-> gate, n |-> n]
Delay(ew, d, init) == [t |-> "delay", ew |-> ew, d |-> d, init |-> init]
Seq2(f, g) == [t |-> "compose", f |-> f, g |-> g]
Beside(f, g) == [t |-> "par", f |-> f, g |-> g]
Loop(f, init) == [t |-> "feedback", f |-> f, init |-> init]

GateArrow(gate, n) ==
  CASE gate = "not"   -> NotBits(n)
    [] gate = "lt"    -> CompareBits("Lt", n)
    [] gate = "wire"  -> WiredIdentity(<<BitsTy(n)>>)
    [] gate = "braid" -> WiredBraid(<<BitsTy(n)>>, <<BitsTy(n)>>)
    [] gate = "Add"   -> BinaryBits("Add", n)
    [] gate = "Sub"   -> BinaryBits("Sub", n)
    [] gate = "half"  -> HalfAdder

GateValue(gate, n, i) ==
  CASE gate = "not"   -> <<2^n - 1 - i[1]>>
    [] gate = "lt"    -> <<IF i[1] < i[2] THEN 1 ELSE 0>>
    [] gate = "wire"  -> i
    [] gate = "braid" -> <<i[2], i[1]>>
    [] gate = "Add"   -> <<(i[1] + i[2]) % 2^n>>
    [] gate = "Sub"   -> <<(i[1] - i[2]) % 2^n>>
    [] gate = "half"  -> <<(i[1] + i[2]) % 2, (i[1] + i[2]) \div 2>>

RECURSIVE Build(_)
Build(m) ==
  CASE m.t = "counter"      -> Counter(m.n)
    [] m.t = "down_counter" -> DownCounter(m.n)
    [] m.t = "accumulator"  -> Accumulator(m.n)
    [] m.t = "shift_left"   -> ShiftRegisterLeft(m.n)
    [] m.t = "toggle"       -> Toggle
    [] m.t = "register"     -> LET one == <<BitsTy(m.n)>>
                               IN  FromArrow(WiredBraid(one, one), one, one, one, m.init).val
    [] m.t = "delay"        -> DelayAndFlip(m.ew, m.d, m.init)
    [] m.t = "lift"         -> LiftComb(GateArrow(m.gate, m.n))
    [] m.t = "compose"      -> ComposeSync(Build(m.f), Build(m.g))
    [] m.t = "par"          -> ParSync(Build(m.f), Build(m.g))
    [] m.t = "feedback"     -> FeedbackSync(Build(m.f), m.init).val

RECURSIVE Start(_)
Start(m) ==
  CASE m.t \in {"counter", "accumulator", "shift_left", "toggle"} -> <<0>>
    [] m.t = "down_counter" -> <<2^m.n - 1>>
    [] m.t = "register" -> <<ToNat(m.init)>>
    [] m.t = "delay" -> LET compact == SplitAt(m.init, m.ew)
                        IN  <<ToNat(Replicate(compact[1], m.d)), ToNat(compact[2])>>
    [] m.t = "lift" -> <<>>
    [] m.t \in {"compose", "par"} -> Start(m.f) \o Start(m.g)
    [] m.t = "feedback" -> Start(m.f) \o <<ToNat(m.init)>>

Effect(next, out) == [next |-> next, out |-> out]

\* Number of data inputs of a term.
RECURSIVE Ports(_)
Ports(m) ==
  CASE m.t \in {"counter", "down_counter", "toggle"} -> 0
    [] m.t = "lift" -> IF m.gate \in {"not", "wire"} THEN 1 ELSE 2
    [] m.t = "compose" -> Ports(m.f)
    [] m.t = "par" -> Ports(m.f) + Ports(m.g)
    [] m.t = "feedback" -> Ports(m.f) - 1
    [] OTHER -> 1

\* State s and input i to next state and output.
RECURSIVE React(_, _, _)
React(m, s, i) ==
  CASE m.t = "counter"      -> Effect(<<(s[1] + 1) % 2^m.n>>, s)
    [] m.t = "down_counter" -> Effect(<<(s[1] - 1) % 2^m.n>>, s)
    [] m.t = "accumulator"  -> LET sum == (s[1] + i[1]) % 2^m.n IN Effect(<<sum>>, <<sum>>)
    [] m.t = "shift_left"   -> Effect(<<(2 * s[1] + i[1]) % 2^m.n>>, s)
    [] m.t = "toggle"       -> Effect(<<1 - s[1]>>, s)
    [] m.t = "register"     -> Effect(i, s)
    [] m.t = "delay" ->
         Effect(<<(s[1] * 2^m.ew + i[1]) % 2^(m.ew * m.d), 2^m.ew - 1 - s[2]>>,
                <<s[1] \div 2^(m.ew * (m.d - 1))>>)
    [] m.t = "lift" -> Effect(<<>>, GateValue(m.gate, m.n, i))
    [] m.t = "compose" ->
         LET n == Len(Start(m.f))
             f == React(m.f, SubSeq(s, 1, n), i)
             g == React(m.g, SubSeq(s, n + 1, Len(s)), f.out)
         IN  Effect(f.next \o g.next, g.out)
    [] m.t = "par" ->
         LET n == Len(Start(m.f))
             p == Ports(m.f)
             f == React(m.f, SubSeq(s, 1, n), SubSeq(i, 1, p))
             g == React(m.g, SubSeq(s, n + 1, Len(s)), SubSeq(i, p + 1, Len(i)))
         IN  Effect(f.next \o g.next, f.out \o g.out)
    [] m.t = "feedback" ->
         LET n == Len(s) - 1
             f == React(m.f, SubSeq(s, 1, n), i \o <<s[n + 1]>>)
         IN  Effect(f.next \o f.out, f.out)

Delta(m, s, i) == React(m, s, i).next

Lambda(m, s, i) == React(m, s, i).out
=============================================================================
