---------------------------- MODULE Interp_proofs ---------------------------
(***************************************************************************)
(* What the other proof modules need of sequences, of counting up to a     *)
(* number, and of interpret's fold.  Induction over 1..n is first order    *)
(* here: a set of steps that holds the first and, with each, the next one  *)
(* holds them all, since otherwise the steps outside have a least element. *)
(* With it a recursive function is shown to satisfy its own equation.      *)
(* Last, what merging two graphs does to their wires and instructions, for *)
(* arrows as for machines.                                                 *)
(***************************************************************************)
EXTENDS Circuits, SequenceTheorems, FiniteSetTheorems, TLAPS

---------------------------------------------------------------------------
(* Counting *)

\* A set of numbers up to n has a least element.  The initial segments of 1..n
\* are well founded under inclusion, and that order needs no induction here.
LEMMA LeastExists ==
  ASSUME NEW n \in Int, NEW at \in SUBSET (1..n), at # {}
  PROVE  \E k \in at : \A j \in at : k =< j
  <1> DEFINE T == {1..k : k \in at}
             R == StrictSubsetOrdering(1..n)
  <1>1. IsWellFoundedOn(R, FiniteSubsetsOf(1..n))
    BY FS_StrictSubsetOrderingWellFounded
  <1>2. \A k \in at : k \in Int /\ 1 <= k /\ k <= n
    OBVIOUS
  <1>3. T \subseteq FiniteSubsetsOf(1..n)
    <2>1. ASSUME NEW k \in at PROVE 1..k \in FiniteSubsetsOf(1..n)
      BY <1>2, FS_Interval DEF FiniteSubsetsOf
    <2> QED BY <2>1
  <1>4. T # {}
    OBVIOUS
  <1>5. \E x \in T : \A y \in T : <<y, x>> \notin R
    <2> HIDE DEF T, R
    <2> QED BY <1>1, <1>3, <1>4, WFMin
  <1>6. PICK k \in at : \A j \in at : <<1..j, 1..k>> \notin R
    BY <1>5
  <1>7. ASSUME NEW j \in at, j < k PROVE FALSE
    <2>1. 1..j \subseteq 1..k /\ 1..k \subseteq 1..n /\ 1..j \subseteq 1..n
      BY <1>2, <1>7
    <2>2. k \in 1..k /\ k \notin 1..j
      BY <1>2, <1>7
    <2>3. 1..j # 1..k
      BY <2>2
    <2>4. <<1..j, 1..k>> \in R
      BY <2>1, <2>3 DEF StrictSubsetOrdering
    <2> QED BY <2>4, <1>6
  <1>8. \A j \in at : k =< j
    BY <1>7, <1>2
  <1> QED BY <1>8

LEMMA LeastIsMember ==
  ASSUME NEW n \in Int, NEW at \in SUBSET (1..n), at # {}
  PROVE  Min(at) \in at
  BY LeastExists DEF Min

\* What is true of 0, and of each number after one it is true of, is true of
\* every number up to n.
LEMMA CountingUp ==
  ASSUME NEW n \in Nat, NEW P, 0 \in P,
         \A m \in 0..(n - 1) : m \in P => m + 1 \in P
  PROVE  \A m \in 0..n : m \in P
  <1> DEFINE rest == (1..n) \ P
  <1>1. rest = {}
    <2> SUFFICES ASSUME rest # {} PROVE FALSE
      OBVIOUS
    <2>1. rest \in SUBSET (1..n) /\ n \in Int
      OBVIOUS
    <2>2. PICK k \in rest : \A j \in rest : k =< j
      <3> HIDE DEF rest
      <3> QED BY <2>1, LeastExists
    <2>3. k - 1 \in 0..(n - 1) /\ k - 1 \notin rest /\ k = (k - 1) + 1
      BY <2>2
    <2>4. k - 1 \in P
      BY <2>3
    <2> QED BY <2>3, <2>4
  <1> QED BY <1>1

---------------------------------------------------------------------------
(* Sequences *)

LEMMA FunctionIsSeq ==
  ASSUME NEW S, NEW n \in Nat, NEW s \in [1..n -> S]
  PROVE  s \in Seq(S) /\ Len(s) = n
  <1>1. s \in Seq(S)
    BY SeqDef
  <1>2. DOMAIN s = 1..n /\ DOMAIN s = 1..Len(s) /\ Len(s) \in Nat
    BY <1>1, LenProperties
  <1> QED BY <1>1, <1>2

LEMMA InSecondPart ==
  ASSUME NEW a \in Nat, NEW b \in Nat, NEW i \in 1..(a + b), ~(i <= a)
  PROVE  \E j \in 1..b : i = a + j
  <1>1. i - a \in 1..b /\ i = a + (i - a)
    OBVIOUS
  <1> QED BY <1>1

\* Two sequences one after the other, whatever their elements are.
LEMMA ConcatOfAny ==
  ASSUME NEW S, NEW T, NEW s \in Seq(S), NEW t \in Seq(T)
  PROVE  /\ s \o t \in Seq(Range(s \o t))
         /\ Len(s) \in Nat /\ Len(t) \in Nat
         /\ Len(s \o t) = Len(s) + Len(t)
         /\ DOMAIN (s \o t) = 1..(Len(s) + Len(t))
         /\ \A i \in 1..Len(s) : (s \o t)[i] = s[i]
         /\ \A i \in 1..Len(t) : (s \o t)[Len(s) + i] = t[i]
         /\ Range(s \o t) = Range(s) \cup Range(t)
  <1>1. s \in Seq(S \cup T) /\ t \in Seq(S \cup T)
    BY SeqMonotonic
  <1>2. s \o t \in Seq(S \cup T) /\ s \o t \in Seq(Range(s \o t))
    BY <1>1, ConcatProperties, SeqOfRange
  <1>3. Len(s) \in Nat /\ Len(t) \in Nat
    BY LenProperties
  <1>4. /\ Len(s \o t) = Len(s) + Len(t)
        /\ \A i \in 1..(Len(s) + Len(t)) :
             (s \o t)[i] = IF i <= Len(s) THEN s[i] ELSE t[i - Len(s)]
    BY <1>1, ConcatProperties
  <1>5. \A i \in 1..Len(s) : (s \o t)[i] = s[i]
    BY <1>3, <1>4
  <1>6. ASSUME NEW i \in 1..Len(t) PROVE (s \o t)[Len(s) + i] = t[i]
    <2>1. Len(s) + i \in 1..(Len(s) + Len(t)) /\ ~(Len(s) + i <= Len(s))
           /\ (Len(s) + i) - Len(s) = i
      BY <1>3
    <2> QED BY <2>1, <1>4
  <1>7. Range(s \o t) = Range(s) \cup Range(t)
    BY <1>1, RangeConcatenation
  <1>8. DOMAIN (s \o t) = 1..(Len(s) + Len(t))
    BY <1>2, <1>4, LenProperties
  <1> QED BY <1>2, <1>3, <1>4, <1>5, <1>6, <1>7, <1>8

\* find_map's position: the first one that holds the wire.
LEMMA FirstPosition ==
  ASSUME NEW S, NEW ws \in Seq(S), NEW w, \E k \in DOMAIN ws : ws[k] = w
  PROVE  /\ FirstAt(ws, w) \in 1..Len(ws) /\ ws[FirstAt(ws, w)] = w
         /\ \A j \in 1..(FirstAt(ws, w) - 1) : ws[j] # w
  <1> DEFINE n == Len(ws)
             at == {k \in 1..n : ws[k] = w}
  <1>1. n \in Nat /\ DOMAIN ws = 1..n
    BY LenProperties
  <1>2. at # {} /\ at \in SUBSET (1..n)
    BY <1>1
  <1>3. PICK k \in at : \A j \in at : k =< j
    <2>1. n \in Int
      BY <1>1
    <2>2. \E k \in at : \A j \in at : k =< j
      <3> HIDE DEF at, n
      <3> QED BY <2>1, <1>2, LeastExists
    <2> QED BY <2>2
  <1>4. \A j \in 1..(k - 1) : ws[j] # w
    BY <1>1, <1>3
  <1>5. \E i \in DOMAIN ws : ws[i] = w /\ \A j \in 1..(i - 1) : ws[j] # w
    BY <1>1, <1>3, <1>4
  <1> HIDE DEF n
  <1> QED BY <1>1, <1>5 DEF FirstAt, n

LEMMA FirstIs ==
  ASSUME NEW S, NEW ws \in Seq(S), NEW k \in 1..Len(ws),
         \A j \in 1..(k - 1) : ws[j] # ws[k]
  PROVE  FirstAt(ws, ws[k]) = k
  <1> DEFINE i == FirstAt(ws, ws[k])
  <1>1. Len(ws) \in Nat /\ DOMAIN ws = 1..Len(ws)
    BY LenProperties
  <1>2. /\ i \in 1..Len(ws) /\ ws[i] = ws[k]
        /\ \A j \in 1..(i - 1) : ws[j] # ws[k]
    BY <1>1, FirstPosition
  <1> HIDE DEF i
  <1>3. ~(i < k) /\ ~(k < i)
    BY <1>1, <1>2
  <1> QED BY <1>1, <1>2, <1>3 DEF i

---------------------------------------------------------------------------
(* Totals and chunks *)

\* t lists the sums of the first 0, 1, ... n of the widths.
IsSums(widths, n, t) ==
  t = [k \in 0..n |-> IF k = 0 THEN 0 ELSE t[k - 1] + widths[k]]

LEMMA SumsExist ==
  ASSUME NEW widths, NEW n \in Nat
  PROVE  \E t : IsSums(widths, n, t)
  <1> DEFINE P == {m \in 0..n : \E t : IsSums(widths, m, t)}
  <1>1. 0 \in P
    <2> DEFINE t == [k \in 0..0 |-> 0]
    <2>1. IsSums(widths, 0, t)
      BY DEF IsSums
    <2> QED BY <2>1
  <1>2. ASSUME NEW m \in 0..(n - 1), m \in P PROVE m + 1 \in P
    <2>1. PICK t : IsSums(widths, m, t)
      BY <1>2
    <2> DEFINE u == [k \in 0..(m + 1) |-> IF k = m + 1 THEN t[m] + widths[k] ELSE t[k]]
               body == [k \in 0..(m + 1) |-> IF k = 0 THEN 0 ELSE u[k - 1] + widths[k]]
    <2>2. ASSUME NEW k \in 0..(m + 1) PROVE u[k] = body[k]
      <3>1. CASE k = m + 1
        <4>1. u[k] = t[m] + widths[k] /\ u[k - 1] = t[m] /\ k # 0
          BY <3>1
        <4> QED BY <4>1
      <3>2. CASE k # m + 1
        <4>1. k \in 0..m /\ u[k] = t[k]
          BY <3>2
        <4>2. t[k] = IF k = 0 THEN 0 ELSE t[k - 1] + widths[k]
          BY <4>1, <2>1 DEF IsSums
        <4>3. k # 0 => u[k - 1] = t[k - 1]
          BY <4>1
        <4> QED BY <4>1, <4>2, <4>3
      <3> QED BY <3>1, <3>2
    <2>3. u = body
      BY <2>2
    <2>4. IsSums(widths, m + 1, u)
      BY <2>3 DEF IsSums
    <2> QED BY <2>4
  <1>3. \A m \in 0..n : m \in P
    <2> HIDE DEF P
    <2> QED BY <1>1, <1>2, CountingUp
  <1> QED BY <1>3

\* The total is the last of them.
LEMMA TotalIsSum ==
  ASSUME NEW widths, Len(widths) \in Nat
  PROVE  \E t : IsSums(widths, Len(widths), t) /\ Total(widths) = t[Len(widths)]
  <1> DEFINE n == Len(widths)
             t == CHOOSE x : IsSums(widths, n, x)
  <1>1. IsSums(widths, n, t)
    BY SumsExist
  <1>2. Total(widths) = t[n]
    BY DEF Total, IsSums
  <1> QED BY <1>1, <1>2

LEMMA SumsSteps ==
  ASSUME NEW widths \in Seq(Nat), NEW n \in 0..Len(widths), NEW t, IsSums(widths, n, t)
  PROVE  /\ t[0] = 0
         /\ \A k \in 1..n : t[k] = t[k - 1] + widths[k]
         /\ \A k \in 0..n : t[k] \in Nat
  <1>1. ASSUME NEW k \in 0..n
        PROVE  t[k] = IF k = 0 THEN 0 ELSE t[k - 1] + widths[k]
    BY DEF IsSums
  <1>2. Len(widths) \in Nat /\ n \in Nat /\ \A k \in 1..n : widths[k] \in Nat
    BY LenProperties, ElementOfSeq
  <1>3. t[0] = 0
    BY <1>1, <1>2
  <1>4. ASSUME NEW k \in 1..n PROVE t[k] = t[k - 1] + widths[k]
    <2>1. k \in 0..n /\ k # 0
      BY <1>2
    <2> QED BY <2>1, <1>1
  <1> DEFINE P == {m \in 0..n : t[m] \in Nat}
  <1>5. 0 \in P
    BY <1>2, <1>3
  <1>6. ASSUME NEW m \in 0..(n - 1), m \in P PROVE m + 1 \in P
    <2>1. m + 1 \in 1..n /\ (m + 1) - 1 = m /\ m + 1 \in 0..n
      BY <1>2
    <2>2. t[m + 1] = t[m] + widths[m + 1] /\ t[m] \in Nat
      BY <2>1, <1>4, <1>6
    <2> QED BY <2>1, <2>2, <1>2
  <1>7. \A m \in 0..n : m \in P
    <2> HIDE DEF P
    <2> QED BY <1>2, <1>5, <1>6, CountingUp
  <1> QED BY <1>3, <1>4, <1>7

\* Sums of the same widths are the same.
LEMMA SumsAgree ==
  ASSUME NEW widths \in Seq(Nat), NEW n \in 0..Len(widths), NEW t, IsSums(widths, n, t),
         NEW prefix \in Seq(Nat), NEW m \in 0..Len(prefix), m <= n, NEW u, IsSums(prefix, m, u),
         \A k \in 1..m : prefix[k] = widths[k]
  PROVE  u[m] = t[m]
  <1>1. Len(widths) \in Nat /\ n \in Nat /\ Len(prefix) \in Nat /\ m \in Nat
    BY LenProperties
  <1>2. /\ t[0] = 0 /\ \A k \in 1..n : t[k] = t[k - 1] + widths[k]
        /\ u[0] = 0 /\ \A k \in 1..m : u[k] = u[k - 1] + prefix[k]
    BY SumsSteps
  <1> DEFINE P == {k \in 0..m : u[k] = t[k]}
  <1>3. 0 \in P
    BY <1>1, <1>2
  <1>4. ASSUME NEW k \in 0..(m - 1), k \in P PROVE k + 1 \in P
    <2>1. k + 1 \in 1..m /\ k + 1 \in 1..n /\ (k + 1) - 1 = k /\ k + 1 \in 0..m
      BY <1>1
    <2>2. u[k + 1] = u[k] + prefix[k + 1] /\ t[k + 1] = t[k] + widths[k + 1]
      BY <2>1, <1>2
    <2> QED BY <2>1, <2>2, <1>4
  <1>5. \A k \in 0..m : k \in P
    <2> HIDE DEF P
    <2> QED BY <1>1, <1>3, <1>4, CountingUp
  <1> QED BY <1>1, <1>5

\* t lists the totals of the prefixes of widths.
Running(widths, t) ==
  /\ Len(widths) \in Nat
  /\ t[0] = 0
  /\ \A k \in 1..Len(widths) : t[k] = t[k - 1] + widths[k]
  /\ \A k \in 0..Len(widths) : t[k] \in Nat
  /\ \A k \in 1..Len(widths) : widths[k] \in Nat
  /\ \A k \in 0..Len(widths) : Total(SubSeq(widths, 1, k)) = t[k]
  /\ Total(widths) = t[Len(widths)]

LEMMA RunningTotals ==
  ASSUME NEW widths \in Seq(Nat)
  PROVE  \E t : Running(widths, t)
  <1> DEFINE n == Len(widths)
  <1>1. n \in Nat /\ n \in 0..n /\ \A k \in 1..n : widths[k] \in Nat
    BY LenProperties, ElementOfSeq
  <1>2. PICK t : IsSums(widths, n, t) /\ Total(widths) = t[n]
    BY <1>1, TotalIsSum
  <1>3. /\ t[0] = 0
        /\ \A k \in 1..n : t[k] = t[k - 1] + widths[k]
        /\ \A k \in 0..n : t[k] \in Nat
    BY <1>1, <1>2, SumsSteps
  <1>4. ASSUME NEW k \in 0..n PROVE Total(SubSeq(widths, 1, k)) = t[k]
    <2> DEFINE prefix == SubSeq(widths, 1, k)
    <2>1. k \in Int /\ 1 \in Int /\ \A i \in 1..k : i \in 1..n /\ widths[i] \in Nat
      BY <1>1
    <2>2. /\ prefix \in Seq(Nat) /\ Len(prefix) = IF 1 <= k THEN k - 1 + 1 ELSE 0
          /\ \A i \in 1..(k - 1 + 1) : prefix[i] = widths[1 + i - 1]
      BY <2>1, SubSeqProperties
    <2>3. Len(prefix) = k /\ k \in Nat
      BY <2>2, <1>1
    <2>4. ASSUME NEW i \in 1..k PROVE prefix[i] = widths[i]
      <3>1. i \in 1..(k - 1 + 1) /\ 1 + i - 1 = i
        BY <2>1
      <3> QED BY <3>1, <2>2
    <2> HIDE DEF prefix
    <2>5. PICK u : IsSums(prefix, k, u) /\ Total(prefix) = u[k]
      BY <2>3, TotalIsSum
    <2>6. k \in 0..Len(prefix) /\ k <= n
      BY <2>3, <1>1
    <2>7. u[k] = t[k]
      BY <1>1, <1>2, <2>2, <2>4, <2>5, <2>6, SumsAgree
    <2> QED BY <2>5, <2>7 DEF prefix
  <1> QED BY <1>1, <1>2, <1>3, <1>4 DEF Running

LEMMA TotalsGrow ==
  ASSUME NEW widths, NEW t, Running(widths, t),
         NEW k \in 0..Len(widths), NEW j \in 0..k
  PROVE  t[j] <= t[k]
  <1> DEFINE n == Len(widths)
  <1>1. /\ n \in Nat /\ \A i \in 1..n : t[i] = t[i - 1] + widths[i]
        /\ \A i \in 0..n : t[i] \in Nat
        /\ \A i \in 1..n : widths[i] \in Nat
    BY DEF Running
  <1> DEFINE P == {d \in 0..(k - j) : t[j] <= t[j + d]}
  <1>2. 0 \in P /\ k - j \in Nat
    <2>1. j \in 0..n /\ t[j] \in Nat /\ j + 0 = j /\ k - j \in Nat
      BY <1>1
    <2> QED BY <2>1
  <1>3. ASSUME NEW d \in 0..((k - j) - 1), d \in P PROVE d + 1 \in P
    <2>1. /\ j + (d + 1) \in 1..n /\ (j + (d + 1)) - 1 = j + d /\ d + 1 \in 0..(k - j)
          /\ j + d \in 0..n /\ j \in 0..n
      BY <1>1
    <2>2. t[j + (d + 1)] = t[j + d] + widths[j + (d + 1)] /\ widths[j + (d + 1)] \in Nat
      BY <2>1, <1>1
    <2>3. t[j] <= t[j + d] /\ t[j] \in Nat /\ t[j + d] \in Nat
      BY <2>1, <1>1, <1>3
    <2> QED BY <2>1, <2>2, <2>3
  <1>4. \A d \in 0..(k - j) : d \in P
    <2> HIDE DEF P
    <2> QED BY <1>2, <1>3, CountingUp
  <1>5. k - j \in 0..(k - j) /\ j + (k - j) = k
    BY <1>1, <1>2
  <1> QED BY <1>4, <1>5

\* Every position up to the total lies in the chunk of one width.
LEMMA ChunkExists ==
  ASSUME NEW widths, NEW t, Running(widths, t), NEW i \in 1..Total(widths)
  PROVE  \E k \in 1..Len(widths) : t[k - 1] < i /\ i <= t[k]
  <1> DEFINE n == Len(widths)
             at == {k \in 1..n : i <= t[k]}
  <1>1. /\ n \in Nat /\ t[0] = 0 /\ t[n] \in Nat /\ i <= t[n] /\ Total(widths) = t[n]
        /\ \A k \in 0..n : t[k] \in Nat
    BY DEF Running
  <1>2. n # 0
    BY <1>1
  <1>3. n \in at
    BY <1>1, <1>2
  <1>4. PICK k \in at : \A j \in at : k =< j
    <2>1. at # {} /\ at \in SUBSET (1..n) /\ n \in Int
      BY <1>1, <1>3
    <2>2. \E k \in at : \A j \in at : k =< j
      <3> HIDE DEF at, n
      <3> QED BY <2>1, LeastExists
    <2> QED BY <2>2
  <1>5. k \in 1..n /\ i <= t[k]
    BY <1>4
  <1>6. t[k - 1] < i
    <2>1. CASE k = 1
      BY <2>1, <1>1
    <2>2. CASE k # 1
      <3>1. k - 1 \in 1..n /\ k - 1 \in 0..n /\ ~(k =< k - 1)
        BY <2>2, <1>1, <1>5
      <3>2. k - 1 \notin at /\ t[k - 1] \in Nat
        BY <3>1, <1>1, <1>4
      <3> QED BY <3>1, <3>2
    <2> QED BY <2>1, <2>2
  <1> QED BY <1>5, <1>6

LEMMA ChunkUnique ==
  ASSUME NEW widths, NEW t, Running(widths, t), NEW i \in Int,
         NEW k \in 1..Len(widths), t[k - 1] < i, i <= t[k],
         NEW j \in 1..Len(widths), t[j - 1] < i, i <= t[j]
  PROVE  j = k
  <1>1. Len(widths) \in Nat /\ \A m \in 0..Len(widths) : t[m] \in Nat
    BY DEF Running
  <1>2. ASSUME NEW l \in 1..Len(widths), NEW m \in 1..Len(widths), l < m,
               i <= t[l], t[m - 1] < i
        PROVE  FALSE
    <2>1. m - 1 \in 0..Len(widths) /\ l \in 0..(m - 1) /\ l \in 0..Len(widths)
      BY <1>1, <1>2
    <2>2. t[l] <= t[m - 1]
      BY <2>1, TotalsGrow
    <2>3. t[l] \in Nat /\ t[m - 1] \in Nat
      BY <2>1, <1>1
    <2> QED BY <2>2, <2>3, <1>2
  <1>3. ~(j < k) /\ ~(k < j)
    BY <1>2
  <1> QED BY <1>1, <1>3

\* v has one sequence of bits for each width, as wide as it says.
IsPieces(v, widths) ==
  /\ v \in Seq(Range(v))
  /\ Len(v) = Len(widths)
  /\ DOMAIN v = 1..Len(widths)
  /\ \A k \in 1..Len(widths) : v[k] \in BitSeq(widths[k])

\* A piece of a sequence of bits.
LEMMA PieceOfBits ==
  ASSUME NEW n \in Nat, NEW bits \in BitSeq(n), NEW a \in Nat, NEW b \in Nat, a + b <= n
  PROVE  /\ SubSeq(bits, a + 1, a + b) \in BitSeq(b)
         /\ \A i \in 1..b : SubSeq(bits, a + 1, a + b)[i] = bits[a + i]
  <1> DEFINE s == SubSeq(bits, a + 1, a + b)
  <1>1. \A i \in (a + 1)..(a + b) : bits[i] \in Bit
    BY DEF BitSeq
  <1>2. a + 1 \in Int /\ a + b \in Int
    OBVIOUS
  <1>3. /\ s \in Seq(Bit)
        /\ Len(s) = IF a + 1 <= a + b THEN a + b - (a + 1) + 1 ELSE 0
        /\ \A i \in 1..(a + b - (a + 1) + 1) : s[i] = bits[a + 1 + i - 1]
    BY <1>1, <1>2, SubSeqProperties
  <1>4. Len(s) = b /\ a + b - (a + 1) + 1 = b
    BY <1>3
  <1>5. s \in [1..b -> Bit]
    BY <1>3, <1>4, LenProperties
  <1>6. ASSUME NEW i \in 1..b PROVE s[i] = bits[a + i]
    <2>1. a + 1 + i - 1 = a + i /\ i \in 1..(a + b - (a + 1) + 1)
      BY <1>4
    <2> QED BY <2>1, <1>3
  <1> QED BY <1>5, <1>6 DEF BitSeq

\* The chunk of the k-th width.
LEMMA ChunkAt ==
  ASSUME NEW widths, NEW t, Running(widths, t), NEW s
  PROVE  Chunks(s, widths) = [k \in 1..Len(widths) |-> SubSeq(s, t[k - 1] + 1, t[k - 1] + widths[k])]
  <1>1. Len(widths) \in Nat /\ \A k \in 0..Len(widths) : Total(SubSeq(widths, 1, k)) = t[k]
    BY DEF Running
  <1>2. \A k \in 1..Len(widths) : Total(SubSeq(widths, 1, k - 1)) = t[k - 1]
    BY <1>1
  <1> QED BY <1>2 DEF Chunks

LEMMA ChunksArePieces ==
  ASSUME NEW widths \in Seq(Nat), NEW bits \in BitSeq(Total(widths))
  PROVE  IsPieces(Chunks(bits, widths), widths)
  <1> DEFINE v == Chunks(bits, widths)
             n == Len(widths)
  <1>1. PICK t : Running(widths, t)
    BY RunningTotals
  <1>2. /\ n \in Nat /\ \A k \in 1..n : t[k] = t[k - 1] + widths[k]
        /\ \A k \in 0..n : t[k] \in Nat
        /\ \A k \in 1..n : widths[k] \in Nat
        /\ Total(widths) = t[n]
    BY <1>1 DEF Running
  <1>3. v = [k \in 1..n |-> SubSeq(bits, t[k - 1] + 1, t[k - 1] + widths[k])]
    BY <1>1, ChunkAt
  <1>4. ASSUME NEW k \in 1..n PROVE v[k] \in BitSeq(widths[k])
    <2>1. k - 1 \in 0..n /\ k \in 0..n /\ n \in 0..n /\ k \in 0..n
      BY <1>2
    <2>2. t[k] <= t[n]
      BY <1>1, <1>2, <2>1, TotalsGrow
    <2>3. t[k - 1] \in Nat /\ widths[k] \in Nat /\ t[n] \in Nat /\ t[k - 1] + widths[k] <= t[n]
      BY <1>2, <2>1, <2>2
    <2>4. bits \in BitSeq(t[n])
      BY <1>2
    <2>5. SubSeq(bits, t[k - 1] + 1, t[k - 1] + widths[k]) \in BitSeq(widths[k])
      BY <2>3, <2>4, PieceOfBits
    <2> QED BY <1>3, <2>5
  <1>5. v \in [1..n -> Range(v)]
    BY <1>3 DEF Range
  <1> HIDE DEF v
  <1>6. v \in Seq(Range(v)) /\ Len(v) = n /\ DOMAIN v = 1..n
    BY <1>2, <1>5, FunctionIsSeq
  <1> QED BY <1>4, <1>6 DEF IsPieces, v

\* And every list of pieces is the chunks of some bits.
LEMMA PiecesAreChunks ==
  ASSUME NEW widths \in Seq(Nat), NEW v, IsPieces(v, widths)
  PROVE  \E bits \in BitSeq(Total(widths)) : v = Chunks(bits, widths)
  <1> DEFINE n == Len(widths)
  <1>1. PICK t : Running(widths, t)
    BY RunningTotals
  <1>2. /\ n \in Nat /\ \A k \in 1..n : t[k] = t[k - 1] + widths[k]
        /\ \A k \in 0..n : t[k] \in Nat
        /\ \A k \in 1..n : widths[k] \in Nat
        /\ Total(widths) = t[n]
    BY <1>1 DEF Running
  <1> DEFINE Chunk(i) == CHOOSE k \in 1..n : t[k - 1] < i /\ i <= t[k]
             bits == [i \in 1..t[n] |-> v[Chunk(i)][i - t[Chunk(i) - 1]]]
  <1>3. ASSUME NEW i \in 1..t[n]
        PROVE  Chunk(i) \in 1..n /\ t[Chunk(i) - 1] < i /\ i <= t[Chunk(i)]
    BY <1>1, <1>2, ChunkExists
  <1>4. bits \in BitSeq(t[n])
    <2>1. ASSUME NEW i \in 1..t[n] PROVE v[Chunk(i)][i - t[Chunk(i) - 1]] \in Bit
      <3> DEFINE k == Chunk(i)
      <3>1. k \in 1..n /\ t[k - 1] < i /\ i <= t[k]
        BY <1>3
      <3> HIDE DEF k
      <3>2. k - 1 \in 0..n /\ t[k] = t[k - 1] + widths[k] /\ t[k - 1] \in Nat /\ widths[k] \in Nat
        BY <3>1, <1>2
      <3>3. i - t[k - 1] \in 1..widths[k]
        BY <3>1, <3>2
      <3>4. v[k] \in [1..widths[k] -> Bit]
        BY <3>1 DEF IsPieces, BitSeq
      <3> QED BY <3>3, <3>4 DEF k
    <2> HIDE DEF Chunk
    <2> QED BY <2>1 DEF BitSeq
  <1>5. ASSUME NEW k \in 1..n
        PROVE  v[k] = SubSeq(bits, t[k - 1] + 1, t[k - 1] + widths[k])
    <2>1. /\ k - 1 \in 0..n /\ k \in 0..n /\ n \in 0..n
          /\ t[k - 1] \in Nat /\ widths[k] \in Nat /\ t[n] \in Nat
          /\ t[k] = t[k - 1] + widths[k]
      BY <1>2
    <2>2. t[k] <= t[n]
      BY <1>1, <1>2, <2>1, TotalsGrow
    <2>3. t[k - 1] + widths[k] <= t[n]
      BY <2>1, <2>2
    <2>4. ASSUME NEW i \in 1..widths[k] PROVE bits[t[k - 1] + i] = v[k][i]
      <3> DEFINE p == t[k - 1] + i
                 c == Chunk(p)
      <3>1. p \in 1..t[n] /\ t[k - 1] < p /\ p <= t[k] /\ p \in Int
        <4>1. i \in Nat /\ 1 <= i /\ i <= widths[k]
          BY <2>1
        <4> HIDE DEF n, Chunk, bits
        <4> QED BY <4>1, <2>1, <2>3
      <3>2. c \in 1..n /\ t[c - 1] < p /\ p <= t[c]
        BY <3>1, <1>3
      <3>3. bits[p] = v[c][p - t[c - 1]]
        BY <3>1
      <3> HIDE DEF c, p, Chunk, bits
      <3>4. c = k
        BY <1>1, <3>1, <3>2, ChunkUnique
      <3>5. p - t[k - 1] = i
        BY <2>1 DEF p
      <3> QED BY <3>3, <3>4, <3>5 DEF p
    <2> DEFINE s == SubSeq(bits, t[k - 1] + 1, t[k - 1] + widths[k])
    <2> HIDE DEF bits
    <2>5. s \in BitSeq(widths[k]) /\ \A i \in 1..widths[k] : s[i] = bits[t[k - 1] + i]
      BY <1>4, <2>1, <2>3, PieceOfBits
    <2>6. v[k] \in BitSeq(widths[k])
      BY DEF IsPieces
    <2> HIDE DEF s
    <2>7. \A i \in 1..widths[k] : v[k][i] = s[i]
      BY <2>4, <2>5
    <2>8. v[k] = s
      BY <2>5, <2>6, <2>7 DEF BitSeq
    <2> QED BY <2>8 DEF s
  <1> HIDE DEF bits
  <1>6. v = [k \in 1..n |-> v[k]]
    BY LenProperties DEF IsPieces
  <1>7. Chunks(bits, widths) = [k \in 1..n |-> SubSeq(bits, t[k - 1] + 1, t[k - 1] + widths[k])]
    BY <1>1, ChunkAt
  <1>8. [k \in 1..n |-> v[k]] = [k \in 1..n |-> SubSeq(bits, t[k - 1] + 1, t[k - 1] + widths[k])]
    BY <1>5
  <1> QED BY <1>2, <1>4, <1>6, <1>7, <1>8

---------------------------------------------------------------------------
(* Lists of n elements, whatever the elements are                          *)

IsList(v, n) == v = [i \in 1..n |-> v[i]]

LEMMA ListIsSeq ==
  ASSUME NEW n \in Nat, NEW v, IsList(v, n)
  PROVE  v \in Seq(Range(v)) /\ Len(v) = n /\ DOMAIN v = 1..n
  <1>1. v \in [1..n -> Range(v)] /\ DOMAIN v = 1..n
    BY DEF IsList, Range
  <1> QED BY <1>1, FunctionIsSeq

LEMMA SeqIsList ==
  ASSUME NEW S, NEW v \in Seq(S)
  PROVE  Len(v) \in Nat /\ IsList(v, Len(v))
  BY LenProperties DEF IsList

LEMMA ListsEqual ==
  ASSUME NEW n, NEW v, IsList(v, n), NEW w, IsList(w, n), \A i \in 1..n : v[i] = w[i]
  PROVE  v = w
  <1>1. [i \in 1..n |-> v[i]] = [i \in 1..n |-> w[i]]
    OBVIOUS
  <1> QED BY <1>1 DEF IsList

LEMMA PieceOfList ==
  ASSUME NEW n \in Nat, NEW v, IsList(v, n), NEW a \in Nat, NEW b \in Nat, a + b <= n
  PROVE  /\ IsList(SubSeq(v, a + 1, a + b), b)
         /\ \A i \in 1..b : SubSeq(v, a + 1, a + b)[i] = v[a + i]
  <1> DEFINE s == SubSeq(v, a + 1, a + b)
             S == Range(v)
  <1>1. \A i \in (a + 1)..(a + b) : v[i] \in S
    BY DEF IsList, Range
  <1>2. a + 1 \in Int /\ a + b \in Int
    OBVIOUS
  <1>3. /\ s \in Seq(S)
        /\ Len(s) = IF a + 1 <= a + b THEN a + b - (a + 1) + 1 ELSE 0
        /\ \A i \in 1..(a + b - (a + 1) + 1) : s[i] = v[a + 1 + i - 1]
    <2> HIDE DEF S
    <2> QED BY <1>1, <1>2, SubSeqProperties
  <1>4. Len(s) = b /\ a + b - (a + 1) + 1 = b
    BY <1>3
  <1>5. IsList(s, b)
    <2> HIDE DEF s, S
    <2> QED BY <1>3, <1>4, SeqIsList
  <1>6. ASSUME NEW i \in 1..b PROVE s[i] = v[a + i]
    <2>1. a + 1 + i - 1 = a + i /\ i \in 1..(a + b - (a + 1) + 1)
      BY <1>4
    <2> QED BY <2>1, <1>3
  <1> QED BY <1>5, <1>6

\* One list after another.
IsJoin(v, n, w, m, s) ==
  /\ IsList(s, n + m)
  /\ \A i \in 1..n : s[i] = v[i]
  /\ \A i \in 1..m : s[n + i] = w[i]

LEMMA ListsJoin ==
  ASSUME NEW n \in Nat, NEW v, IsList(v, n), NEW m \in Nat, NEW w, IsList(w, m)
  PROVE  IsJoin(v, n, w, m, v \o w)
  <1>1. v \in Seq(Range(v)) /\ Len(v) = n /\ w \in Seq(Range(w)) /\ Len(w) = m
    BY ListIsSeq
  <1> DEFINE S == Range(v)
             T == Range(w)
  <1>2. /\ v \o w \in Seq(Range(v \o w))
        /\ Len(v \o w) = Len(v) + Len(w)
        /\ \A i \in 1..Len(v) : (v \o w)[i] = v[i]
        /\ \A i \in 1..Len(w) : (v \o w)[Len(v) + i] = w[i]
    <2>1. v \in Seq(S) /\ w \in Seq(T)
      BY <1>1
    <2> HIDE DEF S, T
    <2> QED BY <2>1, ConcatOfAny
  <1>3. IsList(v \o w, n + m)
    BY <1>1, <1>2, SeqIsList
  <1> QED BY <1>1, <1>2, <1>3 DEF IsJoin

\* One list per width, of that many elements.
AreLists(v, widths) ==
  /\ IsList(v, Len(widths))
  /\ \A k \in 1..Len(widths) : IsList(v[k], widths[k])

LEMMA ChunksAreLists ==
  ASSUME NEW widths, NEW t, Running(widths, t), NEW s, IsList(s, Total(widths))
  PROVE  /\ AreLists(Chunks(s, widths), widths)
         /\ \A k \in 1..Len(widths) : \A i \in 1..widths[k] : Chunks(s, widths)[k][i] = s[t[k - 1] + i]
  <1> DEFINE v == Chunks(s, widths)
             n == Len(widths)
  <1>1. /\ n \in Nat /\ \A k \in 1..n : t[k] = t[k - 1] + widths[k]
        /\ \A k \in 0..n : t[k] \in Nat
        /\ \A k \in 1..n : widths[k] \in Nat
        /\ Total(widths) = t[n]
    BY DEF Running
  <1>2. v = [k \in 1..n |-> SubSeq(s, t[k - 1] + 1, t[k - 1] + widths[k])]
    BY ChunkAt
  <1>3. ASSUME NEW k \in 1..n
        PROVE  IsList(v[k], widths[k]) /\ \A i \in 1..widths[k] : v[k][i] = s[t[k - 1] + i]
    <2>1. k - 1 \in 0..n /\ k \in 0..n /\ n \in 0..n /\ k \in 0..n
      BY <1>1
    <2>2. t[k] <= t[n]
      BY <1>1, <2>1, TotalsGrow
    <2>3. t[k - 1] \in Nat /\ widths[k] \in Nat /\ t[n] \in Nat /\ t[k - 1] + widths[k] <= t[n]
      BY <1>1, <2>1, <2>2
    <2> DEFINE a == t[k - 1]
               b == widths[k]
               N == t[n]
    <2>4. a \in Nat /\ b \in Nat /\ N \in Nat /\ a + b <= N /\ IsList(s, N)
      BY <1>1, <2>3
    <2>5. v[k] = SubSeq(s, a + 1, a + b)
      BY <1>2
    <2> DEFINE piece == SubSeq(s, a + 1, a + b)
    <2> HIDE DEF a, b, N, v
    <2>6. IsList(piece, b) /\ \A i \in 1..b : piece[i] = s[a + i]
      BY <2>4, PieceOfList
    <2> QED BY <2>5, <2>6 DEF a, b
  <1>4. IsList(v, n)
    BY <1>2 DEF IsList
  <1> QED BY <1>3, <1>4 DEF AreLists

---------------------------------------------------------------------------
(* Lists glued together *)

\* f lists the first 1, 2, ... n of the lists of v glued together.
IsGlued(v, n, f) ==
  f = [i \in 1..n |-> IF i = 1 THEN v[i] ELSE f[i - 1] \o v[i]]

LEMMA GluedExist ==
  ASSUME NEW v, NEW n \in Nat
  PROVE  \E f : IsGlued(v, n, f)
  <1> DEFINE P == {m \in 0..n : \E f : IsGlued(v, m, f)}
  <1>1. 0 \in P
    <2> DEFINE f == [i \in 1..0 |-> 0]
    <2>1. IsGlued(v, 0, f)
      BY DEF IsGlued
    <2> QED BY <2>1
  <1>2. ASSUME NEW m \in 0..(n - 1), m \in P PROVE m + 1 \in P
    <2>1. PICK f : IsGlued(v, m, f)
      BY <1>2
    <2> DEFINE next == IF m = 0 THEN v[1] ELSE f[m] \o v[m + 1]
               h == [i \in 1..(m + 1) |-> IF i = m + 1 THEN next ELSE f[i]]
               body == [i \in 1..(m + 1) |-> IF i = 1 THEN v[i] ELSE h[i - 1] \o v[i]]
    <2>2. ASSUME NEW i \in 1..(m + 1) PROVE h[i] = body[i]
      <3>1. CASE i = m + 1
        <4>1. h[i] = next /\ (m # 0 => h[i - 1] = f[m])
          BY <3>1
        <4> QED BY <3>1, <4>1
      <3>2. CASE i # m + 1
        <4>1. i \in 1..m /\ h[i] = f[i]
          BY <3>2
        <4>2. f[i] = IF i = 1 THEN v[i] ELSE f[i - 1] \o v[i]
          BY <4>1, <2>1 DEF IsGlued
        <4>3. i # 1 => h[i - 1] = f[i - 1]
          BY <4>1
        <4> QED BY <4>1, <4>2, <4>3
      <3> QED BY <3>1, <3>2
    <2>3. h = body
      BY <2>2
    <2>4. IsGlued(v, m + 1, h)
      BY <2>3 DEF IsGlued
    <2> QED BY <2>4
  <1>3. \A m \in 0..n : m \in P
    <2> HIDE DEF P
    <2> QED BY <1>1, <1>2, CountingUp
  <1> QED BY <1>3

LEMMA FlattenGlues ==
  ASSUME NEW v, Len(v) \in Nat
  PROVE  /\ Len(v) = 0 => FlattenSeq(v) = v
         /\ Len(v) # 0 => \E f : IsGlued(v, Len(v), f) /\ FlattenSeq(v) = f[Len(v)]
  <1> DEFINE n == Len(v)
             f == CHOOSE x : IsGlued(v, n, x)
  <1>1. IsGlued(v, n, f)
    BY GluedExist
  <1>2. n # 0 => FlattenSeq(v) = f[n]
    BY DEF FlattenSeq, IsGlued
  <1>3. n = 0 => FlattenSeq(v) = v
    BY DEF FlattenSeq
  <1> QED BY <1>1, <1>2, <1>3

\* What is glued has every list where the widths before it end.
IsFlat(v, widths, t, n, s) ==
  /\ IsList(s, t[n])
  /\ \A k \in 1..n : \A i \in 1..widths[k] : s[t[k - 1] + i] = v[k][i]

LEMMA FlatStep ==
  ASSUME NEW widths, NEW t, Running(widths, t), NEW v, AreLists(v, widths),
         NEW m \in 0..(Len(widths) - 1), NEW s, IsFlat(v, widths, t, m, s)
  PROVE  IsFlat(v, widths, t, m + 1, s \o v[m + 1])
  <1> DEFINE n == Len(widths)
             q == m + 1
             r == s \o v[q]
  <1>1. /\ n \in Nat /\ \A k \in 1..n : t[k] = t[k - 1] + widths[k]
        /\ \A k \in 0..n : t[k] \in Nat
        /\ \A k \in 1..n : widths[k] \in Nat
    BY DEF Running
  <1>2. q \in 1..n /\ q - 1 = m /\ q \in 0..n /\ m \in 0..n /\ m \in Nat
    BY <1>1
  <1>3. t[q] = t[m] + widths[q] /\ t[m] \in Nat /\ widths[q] \in Nat
    BY <1>1, <1>2
  <1>4. IsList(s, t[m]) /\ IsList(v[q], widths[q])
    BY <1>2 DEF IsFlat, AreLists
  <1>5. IsJoin(s, t[m], v[q], widths[q], r)
    <2> HIDE DEF q
    <2> QED BY <1>3, <1>4, ListsJoin
  <1>6. IsList(r, t[q])
    BY <1>3, <1>5 DEF IsJoin
  <1>7. ASSUME NEW k \in 1..q, NEW i \in 1..widths[k]
        PROVE  r[t[k - 1] + i] = v[k][i]
    <2>1. CASE k = q
      <3>1. t[k - 1] = t[m] /\ i \in 1..widths[q]
        BY <1>2, <1>7, <2>1
      <3> HIDE DEF r
      <3>2. r[t[m] + i] = v[q][i]
        BY <1>5, <3>1 DEF IsJoin
      <3> QED BY <2>1, <3>1, <3>2
    <2>2. CASE k # q
      <3>1. k \in 1..m /\ k \in 1..n /\ k - 1 \in 0..n /\ k \in 0..m
        BY <1>2, <2>2
      <3>2. t[k] <= t[m] /\ t[k] = t[k - 1] + widths[k] /\ t[k - 1] \in Nat /\ widths[k] \in Nat
        BY <1>1, <1>2, <3>1, TotalsGrow
      <3>3. i \in Nat /\ 1 <= i /\ i <= widths[k]
        BY <1>7, <3>2
      <3> DEFINE p == t[k - 1] + i
      <3>4. p \in 1..t[m]
        <4> DEFINE a == t[k - 1]
                   b == widths[k]
        <4>1. a \in Nat /\ b \in Nat /\ t[k] = a + b /\ t[k] <= t[m] /\ t[m] \in Nat
              /\ i \in Nat /\ 1 <= i /\ i <= b
          BY <3>2, <3>3, <1>3
        <4> HIDE DEF a, b
        <4>2. a + i \in 1..t[m]
          BY <4>1
        <4> QED BY <4>2 DEF a
      <3>5. s[p] = v[k][i]
        BY <3>1, <1>7 DEF IsFlat
      <3> HIDE DEF p, r
      <3>6. r[p] = s[p]
        BY <1>5, <3>4 DEF IsJoin
      <3> QED BY <3>5, <3>6 DEF p
    <2> QED BY <2>1, <2>2
  <1> HIDE DEF q, r
  <1>8. IsFlat(v, widths, t, q, r)
    BY <1>6, <1>7 DEF IsFlat
  <1> QED BY <1>8 DEF q, r

LEMMA FlattenIsFlat ==
  ASSUME NEW widths, NEW t, Running(widths, t), NEW v, AreLists(v, widths)
  PROVE  IsFlat(v, widths, t, Len(widths), FlattenSeq(v))
  <1> DEFINE n == Len(widths)
  <1>1. n \in Nat /\ t[0] = 0 /\ t[1 - 1] = 0
    BY DEF Running
  <1>2. IsList(v, n)
    BY DEF AreLists
  <1>3. Len(v) = n /\ DOMAIN v = 1..n
    <2> HIDE DEF n
    <2> QED BY <1>1, <1>2, ListIsSeq
  <1>4. CASE n = 0
    <2>1. FlattenSeq(v) = v
      BY <1>1, <1>3, <1>4, FlattenGlues
    <2>2. IsFlat(v, widths, t, 0, v)
      BY <1>1, <1>2, <1>4 DEF IsFlat
    <2> QED BY <2>1, <2>2, <1>4
  <1>5. CASE n # 0
    <2>1. PICK f : IsGlued(v, n, f) /\ FlattenSeq(v) = f[n]
      BY <1>1, <1>3, <1>5, FlattenGlues
    <2>2. \A i \in 1..n : f[i] = IF i = 1 THEN v[i] ELSE f[i - 1] \o v[i]
      BY <2>1 DEF IsGlued
    <2> DEFINE P == {m \in 0..(n - 1) : IsFlat(v, widths, t, m + 1, f[m + 1])}
    <2>3. 0 \in P
      <3>1. f[1] = v[1] /\ 1 \in 1..n /\ t[1] = t[0] + widths[1] /\ widths[1] \in Nat
        BY <1>1, <1>5, <2>2 DEF Running
      <3>2. IsList(v[1], t[1]) /\ t[1] = widths[1]
        BY <3>1, <1>1 DEF AreLists
      <3>3. ASSUME NEW k \in 1..1, NEW i \in 1..widths[k] PROVE v[1][t[k - 1] + i] = v[k][i]
        <4>1. k = 1 /\ i \in Nat /\ t[k - 1] = 0
          BY <3>1, <3>3, <1>1
        <4> QED BY <4>1
      <3>4. IsFlat(v, widths, t, 1, v[1])
        BY <3>2, <3>3 DEF IsFlat
      <3>5. 0 \in 0..(n - 1) /\ 0 + 1 = 1
        BY <1>1, <1>5
      <3> QED BY <3>1, <3>4, <3>5
    <2>4. ASSUME NEW m \in 0..((n - 1) - 1), m \in P PROVE m + 1 \in P
      <3> DEFINE q == m + 1
      <3>1. q \in 0..(n - 1) /\ q + 1 \in 1..n /\ (q + 1) - 1 = q /\ q + 1 # 1
        BY <1>1
      <3>2. IsFlat(v, widths, t, q, f[q])
        BY <2>4
      <3>3. f[q + 1] = f[q] \o v[q + 1]
        BY <2>2, <3>1
      <3> HIDE DEF q
      <3>4. IsFlat(v, widths, t, q + 1, f[q + 1])
        BY <3>1, <3>2, <3>3, FlatStep
      <3> QED BY <3>1, <3>4 DEF q
    <2>5. \A m \in 0..(n - 1) : m \in P
      <3>1. n - 1 \in Nat
        BY <1>1, <1>5
      <3> HIDE DEF P, n
      <3> QED BY <2>3, <2>4, <3>1, CountingUp
    <2>6. n - 1 \in 0..(n - 1) /\ (n - 1) + 1 = n
      BY <1>1, <1>5
    <2> QED BY <2>1, <2>5, <2>6
  <1> QED BY <1>4, <1>5

\* Gluing chunks together undoes cutting them.
LEMMA FlattenChunks ==
  ASSUME NEW widths \in Seq(Nat), NEW s, IsList(s, Total(widths))
  PROVE  FlattenSeq(Chunks(s, widths)) = s
  <1> DEFINE n == Len(widths)
             v == Chunks(s, widths)
             u == FlattenSeq(v)
  <1>1. PICK t : Running(widths, t)
    BY RunningTotals
  <1>2. /\ n \in Nat /\ \A k \in 1..n : t[k] = t[k - 1] + widths[k]
        /\ \A k \in 0..n : t[k] \in Nat
        /\ \A k \in 1..n : widths[k] \in Nat
        /\ Total(widths) = t[n]
    BY <1>1 DEF Running
  <1>3. /\ AreLists(v, widths)
        /\ \A k \in 1..n : \A i \in 1..widths[k] : v[k][i] = s[t[k - 1] + i]
    BY <1>1, ChunksAreLists
  <1>4. IsFlat(v, widths, t, n, u)
    <2> HIDE DEF v
    <2> QED BY <1>1, <1>3, FlattenIsFlat
  <1>5. ASSUME NEW i \in 1..t[n] PROVE u[i] = s[i]
    <2>1. PICK k \in 1..n : t[k - 1] < i /\ i <= t[k]
      <3>1. i \in 1..Total(widths)
        BY <1>2
      <3> QED BY <1>1, <3>1, ChunkExists
    <2> DEFINE j == i - t[k - 1]
    <2>2. t[k] = t[k - 1] + widths[k] /\ t[k - 1] \in Nat /\ widths[k] \in Nat
      <3>1. k - 1 \in 0..n
        BY <1>2
      <3> QED BY <3>1, <1>2
    <2>3. j \in 1..widths[k] /\ t[k - 1] + j = i
      <3> DEFINE a == t[k - 1]
                 b == widths[k]
      <3>1. a \in Nat /\ b \in Nat /\ a < i /\ i <= a + b /\ i \in Int
        BY <2>1, <2>2, <1>2
      <3> HIDE DEF a, b
      <3>2. i - a \in 1..b /\ a + (i - a) = i
        BY <3>1
      <3> QED BY <3>2 DEF a, b
    <2> HIDE DEF j, u, v
    <2>4. u[t[k - 1] + j] = v[k][j] /\ v[k][j] = s[t[k - 1] + j]
      BY <1>3, <1>4, <2>3 DEF IsFlat
    <2> QED BY <2>3, <2>4
  <1>6. IsList(u, t[n]) /\ IsList(s, t[n])
    BY <1>2, <1>4 DEF IsFlat
  <1> HIDE DEF u
  <1> QED BY <1>5, <1>6, ListsEqual DEF u

\* d copies of a list.
LEMMA ReplicateIsList ==
  ASSUME NEW n \in Nat, NEW s, IsList(s, n), NEW d \in Nat
  PROVE  IsList(Replicate(s, d), n * d)
  <1> DEFINE widths == [k \in 1..d |-> n]
             v == [k \in 1..d |-> s]
  <1>1. widths \in Seq(Nat) /\ Len(widths) = d
    <2>1. widths \in [1..d -> Nat]
      OBVIOUS
    <2> QED BY <2>1, FunctionIsSeq
  <1>2. PICK t : Running(widths, t)
    BY <1>1, RunningTotals
  <1>3. AreLists(v, widths)
    BY <1>1 DEF AreLists, IsList
  <1>4. IsFlat(v, widths, t, d, FlattenSeq(v))
    <2> HIDE DEF v, widths
    <2> QED BY <1>1, <1>2, <1>3, FlattenIsFlat
  <1> DEFINE P == {m \in 0..d : t[m] = n * m}
  <1>5. 0 \in P
    BY <1>2 DEF Running
  <1>6. ASSUME NEW m \in 0..(d - 1), m \in P PROVE m + 1 \in P
    <2>1. m + 1 \in 1..d /\ (m + 1) - 1 = m /\ m \in Nat
      OBVIOUS
    <2>2. t[m + 1] = t[m] + n
      BY <1>1, <1>2, <2>1 DEF Running
    <2>3. t[m] = n * m
      BY <1>6
    <2>4. n * (m + 1) = n * m + n
      BY <2>1
    <2> QED BY <2>1, <2>2, <2>3, <2>4
  <1>7. \A m \in 0..d : m \in P
    <2> HIDE DEF P
    <2> QED BY <1>5, <1>6, CountingUp
  <1>8. t[d] = n * d
    BY <1>7
  <1> QED BY <1>4, <1>8 DEF IsFlat, Replicate

---------------------------------------------------------------------------
(* interpret *)

\* f is the list of results after 0, 1, ... n instructions.
IsFold(g, ws, vs, n, f) ==
  f = [k \in 0..n |->
         IF k = 0 THEN Ok(InputEnv(g, ws, vs))
         ELSE IF f[k - 1].err # "none" THEN f[k - 1]
         ELSE StepInstruction(g, f[k - 1].val, g.instrs[k])]

LEMMA FoldGrows ==
  ASSUME NEW g, NEW ws, NEW vs, NEW m \in Nat, NEW f, IsFold(g, ws, vs, m, f)
  PROVE  \E h : IsFold(g, ws, vs, m + 1, h)
  <1> DEFINE next == IF f[m].err # "none" THEN f[m]
                     ELSE StepInstruction(g, f[m].val, g.instrs[m + 1])
             h == [k \in 0..(m + 1) |-> IF k = m + 1 THEN next ELSE f[k]]
             body == [k \in 0..(m + 1) |->
                        IF k = 0 THEN Ok(InputEnv(g, ws, vs))
                        ELSE IF h[k - 1].err # "none" THEN h[k - 1]
                        ELSE StepInstruction(g, h[k - 1].val, g.instrs[k])]
  <1>1. ASSUME NEW k \in 0..(m + 1) PROVE h[k] = body[k]
    <2>1. CASE k = m + 1
      <3>1. h[k] = next /\ h[k - 1] = f[m] /\ k # 0
        BY <2>1
      <3>2. body[k] = IF h[k - 1].err # "none" THEN h[k - 1]
                      ELSE StepInstruction(g, h[k - 1].val, g.instrs[k])
        BY <3>1
      <3> QED BY <2>1, <3>1, <3>2
    <2>2. CASE k # m + 1
      <3>1. k \in 0..m /\ h[k] = f[k]
        BY <2>2
      <3>2. f[k] = IF k = 0 THEN Ok(InputEnv(g, ws, vs))
                   ELSE IF f[k - 1].err # "none" THEN f[k - 1]
                   ELSE StepInstruction(g, f[k - 1].val, g.instrs[k])
        BY <3>1 DEF IsFold
      <3>3. k # 0 => h[k - 1] = f[k - 1]
        BY <3>1
      <3> QED BY <3>1, <3>2, <3>3
    <2> QED BY <2>1, <2>2
  <1>2. h = body
    BY <1>1
  <1>3. IsFold(g, ws, vs, m + 1, h)
    BY <1>2 DEF IsFold
  <1> QED BY <1>3

LEMMA FoldExists ==
  ASSUME NEW g, NEW ws, NEW vs, NEW n \in Nat
  PROVE  \E f : IsFold(g, ws, vs, n, f)
  <1> DEFINE P == {m \in 0..n : \E f : IsFold(g, ws, vs, m, f)}
  <1>1. 0 \in P
    <2> DEFINE f == [k \in 0..0 |-> Ok(InputEnv(g, ws, vs))]
    <2>1. IsFold(g, ws, vs, 0, f)
      BY DEF IsFold
    <2> QED BY <2>1
  <1>2. ASSUME NEW m \in 0..(n - 1), m \in P PROVE m + 1 \in P
    BY <1>2, FoldGrows
  <1>3. \A m \in 0..n : m \in P
    <2> HIDE DEF P
    <2> QED BY <1>1, <1>2, CountingUp
  <1> QED BY <1>3

\* interpret is the last of these results.
LEMMA InterpretFolds ==
  ASSUME NEW g, Len(g.instrs) \in Nat, NEW ws, NEW vs, Len(ws) = Len(vs)
  PROVE  \E f : /\ IsFold(g, ws, vs, Len(g.instrs), f)
                /\ Interpret(g, ws, vs) = f[Len(g.instrs)]
  <1> DEFINE n == Len(g.instrs)
             f == CHOOSE x : IsFold(g, ws, vs, n, x)
  <1>1. IsFold(g, ws, vs, n, f)
    BY FoldExists
  <1>2. Interpret(g, ws, vs) = f[n]
    BY DEF Interpret, IsFold
  <1> QED BY <1>1, <1>2

\* The result after instruction k, given the one before it.
Follows(g, r, k, s) ==
  s = IF r.err # "none" THEN r ELSE StepInstruction(g, r.val, g.instrs[k])

\* The first result, and how each follows from the one before.
LEMMA FoldSteps ==
  ASSUME NEW g, NEW ws, NEW vs, NEW n \in Nat, NEW f, IsFold(g, ws, vs, n, f)
  PROVE  /\ f[0] = Ok(InputEnv(g, ws, vs))
         /\ \A k \in 1..n : Follows(g, f[k - 1], k, f[k])
  <1>1. ASSUME NEW k \in 0..n
        PROVE  f[k] = IF k = 0 THEN Ok(InputEnv(g, ws, vs))
                      ELSE IF f[k - 1].err # "none" THEN f[k - 1]
                      ELSE StepInstruction(g, f[k - 1].val, g.instrs[k])
    BY DEF IsFold
  <1>2. f[0] = Ok(InputEnv(g, ws, vs))
    BY <1>1
  <1>3. ASSUME NEW k \in 1..n
        PROVE  Follows(g, f[k - 1], k, f[k])
    <2>1. k \in 0..n /\ k # 0
      OBVIOUS
    <2> QED BY <2>1, <1>1 DEF Follows
  <1> QED BY <1>2, <1>3

---------------------------------------------------------------------------
(* A list of instructions copied into a longer one under other wire names  *)

\* From instruction o + 1 on, h has the instructions of g with their wires
\* renamed by rho, and no wire takes the name of another that is driven.
Copied(g, h, rho, o) ==
  \A i \in 1..Len(g.instrs) :
    LET a == g.instrs[i]
        b == h.instrs[o + i]
    IN  /\ b.op = a.op
        /\ DOMAIN b.ins = DOMAIN a.ins
        /\ \A k \in DOMAIN a.ins : b.ins[k] = rho[a.ins[k]]
        /\ a.out \in Wires(g) /\ b.out = rho[a.out] /\ b.out \in Wires(h)
        /\ \A w \in Wires(g) \ {a.out} : rho[w] # rho[a.out]

\* The wires h drives in place of g's.
Renamed(g, rho) == {rho[g.instrs[i].out] : i \in DOMAIN g.instrs}

\* Beside g's result r, h's result s from the environment held: every value of
\* g stands under its new name, what the copy does not drive is as it was, and
\* nothing else has a value.
Mirrors(g, rho, held, r, s) ==
  r.err = "none" =>
    /\ s.err = "none"
    /\ DOMAIN r.val \subseteq Wires(g)
    /\ \A w \in DOMAIN r.val : rho[w] \in DOMAIN s.val /\ s.val[rho[w]] = r.val[w]
    /\ \A x \in DOMAIN held \ Renamed(g, rho) : x \in DOMAIN s.val /\ s.val[x] = held[x]
    /\ \A x \in DOMAIN s.val : x \in DOMAIN held \/ \E w \in DOMAIN r.val : x = rho[w]

LEMMA MirrorsStep ==
  ASSUME NEW g, NEW h, NEW rho, NEW o, NEW held, Copied(g, h, rho, o),
         NEW i \in 1..Len(g.instrs), DOMAIN g.instrs = 1..Len(g.instrs),
         NEW r, NEW s, Mirrors(g, rho, held, r, s),
         NEW rr, Follows(g, r, i, rr), NEW ss, Follows(h, s, o + i, ss)
  PROVE  Mirrors(g, rho, held, rr, ss)
  <1> SUFFICES ASSUME rr.err = "none" PROVE Mirrors(g, rho, held, rr, ss)
    BY DEF Mirrors
  <1> DEFINE a == g.instrs[i]
             b == h.instrs[o + i]
             va == ApplyOp(a.op, Operands(r.val, a))
             vb == ApplyOp(b.op, Operands(s.val, b))
  <1>1. r.err = "none" /\ rr = StepInstruction(g, r.val, a)
    BY DEF Follows
  <1>2. /\ s.err = "none" /\ DOMAIN r.val \subseteq Wires(g)
        /\ \A w \in DOMAIN r.val : rho[w] \in DOMAIN s.val /\ s.val[rho[w]] = r.val[w]
        /\ \A x \in DOMAIN held \ Renamed(g, rho) : x \in DOMAIN s.val /\ s.val[x] = held[x]
        /\ \A x \in DOMAIN s.val : x \in DOMAIN held \/ \E w \in DOMAIN r.val : x = rho[w]
    BY <1>1 DEF Mirrors
  <1>3. ss = StepInstruction(h, s.val, b)
    BY <1>2 DEF Follows
  <1>4. /\ b.op = a.op
        /\ DOMAIN b.ins = DOMAIN a.ins
        /\ \A k \in DOMAIN a.ins : b.ins[k] = rho[a.ins[k]]
        /\ a.out \in Wires(g) /\ b.out = rho[a.out] /\ b.out \in Wires(h)
        /\ \A w \in Wires(g) \ {a.out} : rho[w] # rho[a.out]
    BY DEF Copied
  <1> HIDE DEF a, b
  <1>5. Readable(r.val, a)
    BY <1>1 DEF StepInstruction, Fail
  <1>6. va.err = "none"
    BY <1>1, <1>5 DEF StepInstruction
  <1>7. Readable(s.val, b)
    BY <1>2, <1>4, <1>5 DEF Readable
  <1>8. Operands(s.val, b) = Operands(r.val, a)
    BY <1>2, <1>4, <1>5 DEF Operands, Readable
  <1>9. vb = va
    BY <1>4, <1>8
  <1> DEFINE e == [x \in DOMAIN r.val \cup {a.out} |-> IF x = a.out THEN va.val ELSE r.val[x]]
             d == [x \in DOMAIN s.val \cup {b.out} |-> IF x = b.out THEN va.val ELSE s.val[x]]
  <1>10. rr = Ok(e)
    <2> HIDE DEF va
    <2>1. Update(g, r.val, a.out, va.val) = e
      BY <1>4 DEF Update
    <2> HIDE DEF e
    <2> QED BY <1>1, <1>5, <1>6, <2>1 DEF StepInstruction, va
  <1>11. ss = Ok(d)
    <2>1. Update(h, s.val, b.out, vb.val) = d
      <3> HIDE DEF va, vb
      <3> QED BY <1>4, <1>9 DEF Update
    <2> HIDE DEF d
    <2>2. vb.err = "none"
      BY <1>6, <1>9
    <2> QED BY <1>3, <1>7, <2>1, <2>2 DEF StepInstruction
  <1> HIDE DEF va, vb
  <1>12. /\ DOMAIN e \subseteq Wires(g)
         /\ \A w \in DOMAIN e : rho[w] \in DOMAIN d /\ d[rho[w]] = e[w]
    BY <1>2, <1>4
  <1>13. b.out \in Renamed(g, rho)
    BY <1>4 DEF Renamed, a
  <1>14. \A x \in DOMAIN held \ Renamed(g, rho) : x \in DOMAIN d /\ d[x] = held[x]
    BY <1>2, <1>13
  <1>15. \A x \in DOMAIN d : x \in DOMAIN held \/ \E w \in DOMAIN e : x = rho[w]
    BY <1>2, <1>4
  <1> HIDE DEF e, d
  <1>16. rr.val = e /\ ss.val = d /\ ss.err = "none"
    BY <1>10, <1>11 DEF Ok
  <1> QED BY <1>12, <1>14, <1>15, <1>16 DEF Mirrors

\* A copy computes what the original does, whatever stands around it.
LEMMA CopyRuns ==
  ASSUME NEW g, NEW h, NEW rho, NEW o \in Nat, NEW n \in Nat,
         n = Len(g.instrs), DOMAIN g.instrs = 1..n,
         Copied(g, h, rho, o), NEW held,
         NEW f, \A i \in 1..n : Follows(g, f[i - 1], i, f[i]),
         NEW F, \A i \in 1..n : Follows(h, F[(o + i) - 1], o + i, F[o + i]),
         Mirrors(g, rho, held, f[0], F[o])
  PROVE  Mirrors(g, rho, held, f[n], F[o + n])
  <1> DEFINE P == {m \in 0..n : Mirrors(g, rho, held, f[m], F[o + m])}
  <1>1. 0 \in P
    <2>1. o + 0 = o
      OBVIOUS
    <2> QED BY <2>1
  <1>2. ASSUME NEW m \in 0..(n - 1), m \in P PROVE m + 1 \in P
    <2> DEFINE i == m + 1
    <2>1. i \in 1..n /\ i - 1 = m /\ (o + i) - 1 = o + m
      OBVIOUS
    <2>2. Mirrors(g, rho, held, f[m], F[o + m])
      BY <1>2
    <2>3. Follows(g, f[m], i, f[i]) /\ Follows(h, F[o + m], o + i, F[o + i])
      BY <2>1
    <2> HIDE DEF i
    <2>4. Mirrors(g, rho, held, f[i], F[o + i])
      BY <2>1, <2>2, <2>3, MirrorsStep
    <2> QED BY <2>1, <2>4 DEF i
  <1>3. \A m \in 0..n : m \in P
    <2> HIDE DEF P
    <2> QED BY <1>1, <1>2, CountingUp
  <1> QED BY <1>3

---------------------------------------------------------------------------
(* Plugging wires *)

\* A wire of g plugged into f's: what the substitution gives.
LEMMA PlugWire ==
  ASSUME NEW N \in Nat, NEW M \in Nat,
         NEW from \in Seq(1..M), NEW to \in Seq(1..N), Len(from) = Len(to),
         NEW w \in 1..M
  PROVE  /\ w \in Range(from) => Plug(from, to, N, w) \in Range(to)
         /\ w \notin Range(from) => Plug(from, to, N, w) = w + N
         /\ Plug(from, to, N, w) \in 1..(N + M)
  <1> DEFINE n == Len(from)
             at == {k \in 1..n : from[k] = w}
  <1>1. Plug(from, to, N, w) = IF at = {} THEN w + N ELSE to[Min(at)]
    BY DEF Plug
  <1>2. n \in Nat /\ DOMAIN from = 1..n /\ DOMAIN to = 1..n
    BY LenProperties
  <1>3. Range(from) = {from[k] : k \in 1..n} /\ Range(to) = {to[k] : k \in 1..n}
    BY RangeEquality
  <1>4. w \in Range(from) <=> at # {}
    BY <1>3
  <1>5. CASE at = {}
    <2>1. Plug(from, to, N, w) = w + N
      BY <1>1, <1>5
    <2>2. w + N \in 1..(N + M)
      OBVIOUS
    <2> QED BY <2>1, <2>2, <1>4, <1>5
  <1>6. CASE at # {}
    <2>1. Min(at) \in 1..n /\ from[Min(at)] = w
      <3> HIDE DEF n
      <3>1. n \in Int /\ at \in SUBSET (1..n)
        BY <1>2
      <3>2. Min(at) \in at
        <4> HIDE DEF at
        <4> QED BY <3>1, <1>6, LeastIsMember
      <3> QED BY <3>2
    <2>2. Plug(from, to, N, w) = to[Min(at)]
      BY <1>1, <1>6
    <2> HIDE DEF at
    <2>3. to[Min(at)] \in Range(to) /\ to[Min(at)] \in 1..N
      BY <2>1, <1>3, ElementOfSeq
    <2>4. to[Min(at)] \in 1..(N + M)
      BY <2>3
    <2> QED BY <2>2, <2>3, <2>4, <1>4, <1>6
  <1> QED BY <1>5, <1>6

\* Without a substitution it is shifted.
LEMMA PlugNothing ==
  ASSUME NEW N, NEW w
  PROVE  Plug(<<>>, <<>>, N, w) = w + N
  <1>1. {k \in 1..0 : <<>>[k] = w} = {}
    OBVIOUS
  <1>2. Len(<<>>) = 0
    OBVIOUS
  <1> QED BY <1>1, <1>2 DEF Plug

\* A list of g's wires, plugged.
LEMMA PlugList ==
  ASSUME NEW N \in Nat, NEW M \in Nat,
         NEW from \in Seq(1..M), NEW to \in Seq(1..N), Len(from) = Len(to),
         NEW ws \in Seq(1..M)
  PROVE  /\ PlugAll(from, to, N, ws) \in Seq(1..(N + M))
         /\ Len(PlugAll(from, to, N, ws)) = Len(ws)
         /\ DOMAIN PlugAll(from, to, N, ws) = 1..Len(ws)
         /\ \A k \in 1..Len(ws) :
              PlugAll(from, to, N, ws)[k] = Plug(from, to, N, ws[k])
         /\ \A x \in Range(PlugAll(from, to, N, ws)) :
              \E w \in Range(ws) : x = Plug(from, to, N, w)
  <1> DEFINE p == PlugAll(from, to, N, ws)
  <1>1. Len(ws) \in Nat /\ DOMAIN ws = 1..Len(ws) /\ \A k \in 1..Len(ws) : ws[k] \in 1..M
    BY LenProperties, ElementOfSeq
  <1>2. p = [k \in 1..Len(ws) |-> Plug(from, to, N, ws[k])]
    BY <1>1 DEF PlugAll
  <1>3. \A k \in 1..Len(ws) : Plug(from, to, N, ws[k]) \in 1..(N + M)
    BY <1>1, PlugWire
  <1>4. p \in [1..Len(ws) -> 1..(N + M)]
    BY <1>2, <1>3
  <1>5. p \in Seq(1..(N + M)) /\ Len(p) = Len(ws)
    <2> HIDE DEF p
    <2> QED BY <1>1, <1>4, FunctionIsSeq
  <1>6. Range(p) = {p[k] : k \in 1..Len(ws)}
    BY <1>2 DEF Range
  <1>7. Range(ws) = {ws[k] : k \in 1..Len(ws)}
    BY <1>1 DEF Range
  <1>8. \A x \in Range(p) : \E w \in Range(ws) : x = Plug(from, to, N, w)
    <2>1. \A k \in 1..Len(ws) : p[k] = Plug(from, to, N, ws[k])
      BY <1>2
    <2> HIDE DEF p
    <2> QED BY <2>1, <1>6, <1>7
  <1> QED BY <1>2, <1>5, <1>8

---------------------------------------------------------------------------
(* Merging graphs *)

\* The part of Shaped that is about the graph.
ShapedGraph(g) ==
  /\ g.wires \in Seq(Range(g.wires))
  /\ g.instrs \in Seq(Range(g.instrs))
  /\ \A i \in DOMAIN g.instrs :
       g.instrs[i].ins \in Seq(Wires(g)) /\ g.instrs[i].out \in Wires(g)

\* h has the wires and instructions of f, then those of g renamed.
IsMerge(h, f, g, from, to) ==
  /\ WireCount(f) \in Nat /\ WireCount(g) \in Nat
  /\ Len(f.instrs) \in Nat /\ Len(g.instrs) \in Nat
  /\ WireCount(h) = WireCount(f) + WireCount(g)
  /\ DOMAIN f.instrs = 1..Len(f.instrs)
  /\ DOMAIN g.instrs = 1..Len(g.instrs)
  /\ DOMAIN h.instrs = 1..(Len(f.instrs) + Len(g.instrs))
  /\ Len(h.instrs) = Len(f.instrs) + Len(g.instrs)
  /\ \A i \in 1..Len(f.instrs) : h.instrs[i] = f.instrs[i]
  /\ \A i \in 1..Len(g.instrs) :
       /\ h.instrs[Len(f.instrs) + i].op = g.instrs[i].op
       /\ h.instrs[Len(f.instrs) + i].out = Plug(from, to, WireCount(f), g.instrs[i].out)
       /\ h.instrs[Len(f.instrs) + i].ins = PlugAll(from, to, WireCount(f), g.instrs[i].ins)
  /\ ShapedGraph(h)

LEMMA Merged ==
  ASSUME NEW f, NEW g, ShapedGraph(f), ShapedGraph(g),
         NEW from \in Seq(Wires(g)), NEW to \in Seq(Wires(f)), Len(from) = Len(to),
         NEW h, h = MergeGraphs(f, g, from, to)
  PROVE  IsMerge(h, f, g, from, to)
  <1> DEFINE N == WireCount(f)
             M == WireCount(g)
             renamed(instr) == Instr(instr.op, PlugAll(from, to, N, instr.ins),
                                     Plug(from, to, N, instr.out))
             r == [i \in DOMAIN g.instrs |-> renamed(g.instrs[i])]
  <1>1. h = [wires |-> f.wires \o g.wires, instrs |-> f.instrs \o r]
    BY DEF MergeGraphs
  <1>2. h.wires = f.wires \o g.wires /\ h.instrs = f.instrs \o r
    <2> HIDE DEF r
    <2> DEFINE ws == f.wires \o g.wires
               is == f.instrs \o r
    <2>1. h = [wires |-> ws, instrs |-> is]
      BY <1>1
    <2> HIDE DEF ws, is
    <2>2. h.wires = ws /\ h.instrs = is
      BY <2>1
    <2> QED BY <2>2 DEF ws, is
  <1>3. /\ h.wires \in Seq(Range(h.wires))
        /\ N \in Nat /\ M \in Nat /\ WireCount(h) = N + M
    BY <1>2, ConcatOfAny DEF ShapedGraph, WireCount
  <1>4. /\ Len(f.instrs) \in Nat /\ DOMAIN f.instrs = 1..Len(f.instrs)
        /\ Len(g.instrs) \in Nat /\ DOMAIN g.instrs = 1..Len(g.instrs)
    BY LenProperties DEF ShapedGraph
  <1>5. r \in Seq(Range(r)) /\ Len(r) = Len(g.instrs)
    <2>1. r \in [1..Len(g.instrs) -> Range(r)]
      BY <1>4 DEF Range
    <2> HIDE DEF r
    <2> QED BY <2>1, <1>4, FunctionIsSeq
  <1>6. /\ h.instrs \in Seq(Range(h.instrs))
        /\ Len(h.instrs) = Len(f.instrs) + Len(g.instrs)
        /\ DOMAIN h.instrs = 1..(Len(f.instrs) + Len(g.instrs))
        /\ \A i \in 1..Len(f.instrs) : h.instrs[i] = f.instrs[i]
        /\ \A i \in 1..Len(g.instrs) : h.instrs[Len(f.instrs) + i] = r[i]
    <2> HIDE DEF r
    <2> DEFINE fi == f.instrs
               hi == h.instrs
    <2>1. fi \in Seq(Range(fi)) /\ r \in Seq(Range(r)) /\ hi = fi \o r
      BY <1>2, <1>5 DEF ShapedGraph
    <2> HIDE DEF fi, hi
    <2>2. /\ hi \in Seq(Range(hi))
          /\ Len(hi) = Len(fi) + Len(r)
          /\ DOMAIN hi = 1..(Len(fi) + Len(r))
          /\ \A i \in 1..Len(fi) : hi[i] = fi[i]
          /\ \A i \in 1..Len(r) : hi[Len(fi) + i] = r[i]
      BY <2>1, ConcatOfAny
    <2> QED BY <2>2, <1>5 DEF fi, hi
  <1>7. \A i \in 1..Len(g.instrs) :
          /\ r[i].op = g.instrs[i].op
          /\ r[i].out = Plug(from, to, N, g.instrs[i].out)
          /\ r[i].ins = PlugAll(from, to, N, g.instrs[i].ins)
    BY <1>4 DEF Instr
  <1>8. ASSUME NEW i \in 1..(Len(f.instrs) + Len(g.instrs))
        PROVE  h.instrs[i].ins \in Seq(1..(N + M)) /\ h.instrs[i].out \in 1..(N + M)
    <2>1. CASE i <= Len(f.instrs)
      <3>1. i \in 1..Len(f.instrs) /\ h.instrs[i] = f.instrs[i]
        BY <2>1, <1>4, <1>6
      <3>2. f.instrs[i].ins \in Seq(1..N) /\ f.instrs[i].out \in 1..N
        BY <3>1, <1>4 DEF ShapedGraph, Wires
      <3>3. 1..N \subseteq 1..(N + M)
        BY <1>3
      <3> QED BY <3>1, <3>2, <3>3, SeqMonotonic
    <2>2. CASE ~(i <= Len(f.instrs))
      <3>1. PICK j \in 1..Len(g.instrs) : i = Len(f.instrs) + j
        BY <2>2, <1>4, InSecondPart
      <3>2. g.instrs[j].ins \in Seq(1..M) /\ g.instrs[j].out \in 1..M
        BY <1>4 DEF ShapedGraph, Wires
      <3>3. from \in Seq(1..M) /\ to \in Seq(1..N)
        BY DEF Wires
      <3>4. h.instrs[i].ins = PlugAll(from, to, N, g.instrs[j].ins)
              /\ h.instrs[i].out = Plug(from, to, N, g.instrs[j].out)
        BY <3>1, <1>6, <1>7
      <3> HIDE DEF N, M
      <3>5. Len(from) = Len(to)
        OBVIOUS
      <3>6. PlugAll(from, to, N, g.instrs[j].ins) \in Seq(1..(N + M))
        BY <3>2, <3>3, <3>5, <1>3, PlugList
      <3>7. Plug(from, to, N, g.instrs[j].out) \in 1..(N + M)
        BY <3>2, <3>3, <3>5, <1>3, PlugWire
      <3> QED BY <3>4, <3>6, <3>7
    <2> QED BY <2>1, <2>2
  <1>9. ShapedGraph(h)
    BY <1>3, <1>6, <1>8 DEF ShapedGraph, Wires
  <1> HIDE DEF r
  <1> QED BY <1>3, <1>4, <1>6, <1>7, <1>9 DEF IsMerge

\* A list of g's wires behind f's.
LEMMA ShiftedWires ==
  ASSUME NEW N \in Nat, NEW M \in Nat, NEW ws \in Seq(1..M)
  PROVE  /\ ShiftWires(ws, N) \in Seq(1..(N + M))
         /\ Len(ShiftWires(ws, N)) = Len(ws)
         /\ Range(ShiftWires(ws, N)) = {w + N : w \in Range(ws)}
  <1> DEFINE s == ShiftWires(ws, N)
  <1>1. Len(ws) \in Nat /\ DOMAIN ws = 1..Len(ws) /\ \A k \in 1..Len(ws) : ws[k] \in 1..M
    BY LenProperties, ElementOfSeq
  <1>2. s = [k \in 1..Len(ws) |-> ws[k] + N]
    BY <1>1 DEF ShiftWires
  <1>3. \A k \in 1..Len(ws) : ws[k] + N \in 1..(N + M)
    BY <1>1
  <1>4. s \in [1..Len(ws) -> 1..(N + M)]
    BY <1>2, <1>3
  <1>5. Range(ws) = {ws[k] : k \in 1..Len(ws)} /\ Range(s) = {s[k] : k \in 1..Len(ws)}
    BY <1>1, <1>2 DEF Range
  <1>6. \A k \in 1..Len(ws) : s[k] = ws[k] + N
    BY <1>2
  <1> HIDE DEF s
  <1>7. s \in Seq(1..(N + M)) /\ Len(s) = Len(ws)
    BY <1>1, <1>4, FunctionIsSeq
  <1>8. Range(s) = {w + N : w \in Range(ws)}
    <2>1. Range(s) = {ws[k] + N : k \in 1..Len(ws)}
      BY <1>5, <1>6
    <2>2. {w + N : w \in {ws[k] : k \in 1..Len(ws)}} = {ws[k] + N : k \in 1..Len(ws)}
      OBVIOUS
    <2> QED BY <2>1, <2>2, <1>5
  <1> QED BY <1>7, <1>8 DEF s

\* The same, of any two lists, as one fact.
IsConcat(r, s, t) ==
  /\ r \in Seq(Range(r))
  /\ Len(r) = Len(s) + Len(t)
  /\ DOMAIN r = 1..(Len(s) + Len(t))
  /\ \A i \in 1..Len(s) : r[i] = s[i]
  /\ \A i \in 1..Len(t) : r[Len(s) + i] = t[i]

LEMMA ConcatSplits ==
  ASSUME NEW s, NEW t, s \in Seq(Range(s)), t \in Seq(Range(t))
  PROVE  IsConcat(s \o t, s, t)
  <1> DEFINE S == Range(s)
             T == Range(t)
  <1>1. s \in Seq(S) /\ t \in Seq(T)
    OBVIOUS
  <1> HIDE DEF S, T
  <1> QED BY <1>1, ConcatOfAny DEF IsConcat
=============================================================================
