------------------------ MODULE ArrayStrategies_proofs ----------------------
(***************************************************************************)
(* The emitted circular buffer is a delay line, for every depth, element   *)
(* set and reset value, and cannot be told apart from the shift register:  *)
(* both keep the same inputs, each where its own taps are, and their tails *)
(* are the same tap.  The shift register is a delay line on its own, too.  *)
(***************************************************************************)
EXTENDS MCArrayRtl, TLAPS

---------------------------------------------------------------------------
(* The circular buffer.  That each tap is where Slot says is inductive     *)
(* only together with the pointer being inside the array: a write past the *)
(* end would be lost and every tap one element off.                        *)

IInv == TypeOK /\ PtrInArray /\ TapsInOrder

LEMMA InitIInv == Init => IInv
  <1> SUFFICES ASSUME Init PROVE IInv
    OBVIOUS
  <1>1. TypeOK
    <2>1. /\ armed = FALSE
          /\ fed = <<>>
          /\ arr \in [Index -> Data]
          /\ ptr \in 0..(PtrSpan(Depth) - 1)
      BY DEF Init, PowerOn
    <2>2. armed \in BOOLEAN
      BY <2>1, Zenon
    <2>3. fed \in Seq(Data)
      BY <2>1, SMT
    <2> QED BY <2>1, <2>2, <2>3 DEF TypeOK
  <1>2. PtrInArray /\ TapsInOrder
    BY DEF Init, PowerOn, PtrInArray, TapsInOrder
  <1> QED BY <1>1, <1>2 DEF IInv

LEMMA ResetIInv == ASSUME Reset PROVE IInv'
  <1> USE DepthAssumption, PtrSpanAssumption
  <1>1. TypeOK'
    BY InitialAssumption DEF Reset, ResetArray, TypeOK
  <1>2. PtrInArray'
    BY DEF Reset, PtrInArray, Index
  <1>3. ASSUME NEW i \in Index PROVE arr'[Slot(ptr, i)'] = Tap(i)'
    <2>1. Slot(ptr, i)' \in Index
      BY DEF Reset, Slot, Index
    <2> QED BY <2>1 DEF Reset, ResetArray, Tap, Index
  <1> QED BY <1>1, <1>2, <1>3 DEF IInv, TapsInOrder

\* Inside the array the pointer advances to the next index, or from the last
\* to the first, whatever the width of its register.
LEMMA AdvanceInArray ==
  ASSUME NEW p \in Index
  PROVE  /\ Advance(p, Depth) \in Index
         /\ Advance(p, Depth) = IF p = Depth - 1 THEN 0 ELSE p + 1
  <1> USE DepthAssumption, PtrSpanAssumption
  <1>1. CASE p = Depth - 1
    BY <1>1 DEF Advance, Index
  <1>2. CASE p # Depth - 1
    <2>1. p + 1 \in 1..(Depth - 1) /\ p + 1 < PtrSpan(Depth) /\ p + 1 \in Nat
      BY <1>2 DEF Index
    <2>2. (p + 1) % PtrSpan(Depth) = p + 1
      BY <2>1
    <2> QED BY <1>2, <2>1, <2>2 DEF Advance, Index
  <1> QED BY <1>1, <1>2

\* Seen from the advanced pointer, tap 0 is the element just written and each
\* tap is the one before it seen from the old pointer.
LEMMA SlotsMoveOn ==
  ASSUME NEW p \in Index
  PROVE  /\ Slot(Advance(p, Depth), 0) = p
         /\ \A i \in Index \ {0} : /\ Slot(Advance(p, Depth), i) = Slot(p, i - 1)
                                   /\ Slot(p, i - 1) \in Index \ {p}
  <1> USE DepthAssumption
  <1>1. Advance(p, Depth) = IF p = Depth - 1 THEN 0 ELSE p + 1
    BY AdvanceInArray
  <1>2. Slot(Advance(p, Depth), 0) = p
    BY <1>1 DEF Slot, Index
  <1>3. ASSUME NEW i \in Index \ {0}
        PROVE  /\ Slot(Advance(p, Depth), i) = Slot(p, i - 1)
               /\ Slot(p, i - 1) \in Index \ {p}
    BY <1>1 DEF Slot, Index
  <1> QED BY <1>2, <1>3

LEMMA ShiftIInv ==
  ASSUME IInv, NEW d \in Data, Shift(d)
  PROVE  IInv'
  <1> USE DepthAssumption, PtrSpanAssumption
  <1>1. TypeOK'
    <2>1. arr' \in [Index -> Data]
      BY DEF IInv, TypeOK, Shift, Write
    <2>2. ptr' \in 0..(PtrSpan(Depth) - 1)
      <3>1. ptr \in Nat /\ PtrSpan(Depth) \in Nat \ {0}
        BY DEF IInv, TypeOK
      <3>2. (ptr + 1) % PtrSpan(Depth) \in 0..(PtrSpan(Depth) - 1)
        BY <3>1
      <3> QED BY <3>1, <3>2 DEF Shift, Advance
    <2> QED BY <2>1, <2>2 DEF IInv, TypeOK, Shift, Feed
  <1>2. PtrInArray'
    BY AdvanceInArray DEF IInv, PtrInArray, Shift, Feed
  <1>3. ASSUME armed', NEW i \in Index
        PROVE  arr'[Slot(ptr', i)] = Tap(i)'
    <2>1. armed /\ ptr \in Index /\ fed \in Seq(Data) /\ fed' = Append(fed, d)
      BY <1>3 DEF IInv, TypeOK, PtrInArray, Shift, Feed
    <2>2. Len(fed') = Len(fed) + 1 /\ Len(fed) \in Nat
      BY <2>1
    <2>3. CASE i = 0
      <3>1. Slot(ptr', i) = ptr /\ DOMAIN arr = Index
        BY <2>1, <2>3, SlotsMoveOn DEF IInv, TypeOK, Shift
      <3>2. arr'[Slot(ptr', i)] = d
        BY <2>1, <3>1 DEF Shift, Write
      <3>3. fed'[Len(fed')] = d
        BY <2>1, <2>2
      <3> QED BY <3>2, <3>3, <2>2, <2>3 DEF Tap
    <2>4. CASE i # 0
      <3>1. i - 1 \in Index /\ i \in Nat
        BY <2>4 DEF Index
      <3>2. Slot(ptr', i) = Slot(ptr, i - 1) /\ Slot(ptr, i - 1) \in Index \ {ptr}
        BY <2>1, <2>4, SlotsMoveOn DEF Shift
      <3>3. arr'[Slot(ptr', i)] = arr[Slot(ptr, i - 1)]
        BY <3>2 DEF IInv, TypeOK, Shift, Write
      <3>4. arr[Slot(ptr, i - 1)] = Tap(i - 1)
        BY <2>1, <3>1 DEF IInv, TapsInOrder
      <3>5. Tap(i)' = Tap(i - 1)
        BY <2>1, <2>2, <3>1, <2>4 DEF Tap
      <3> QED BY <3>3, <3>4, <3>5
    <2> QED BY <2>3, <2>4
  <1>4. TapsInOrder'
    BY <1>3 DEF TapsInOrder, Slot
  <1> QED BY <1>1, <1>2, <1>4 DEF IInv

LEMMA StepIInv == IInv /\ [Next]_vars => IInv'
  <1> SUFFICES ASSUME IInv, [Next]_vars PROVE IInv'
    OBVIOUS
  <1>1. CASE Reset
    BY <1>1, ResetIInv
  <1>2. ASSUME NEW d \in Data, Shift(d) PROVE IInv'
    BY <1>2, ShiftIInv
  <1>3. CASE UNCHANGED vars
    BY <1>3 DEF vars, IInv, TypeOK, PtrInArray, TapsInOrder, Tap, Slot
  <1> QED BY <1>1, <1>2, <1>3 DEF Next

LEMMA AlwaysIInv == Spec => []IInv
  BY InitIInv, StepIInv, PTL DEF Spec

\* After a reset no write is lost and no read is out of bounds.
THEOREM PointerStaysInArray == Spec => []PtrInArray
  <1>1. IInv => PtrInArray
    BY DEF IInv
  <1> QED BY <1>1, AlwaysIInv, PTL

\* The elements hold the inputs since the last reset, in order around the
\* end of the array, and the reset value where there were too few.
THEOREM ElementsInOrder == Spec => []TapsInOrder
  <1>1. IInv => TapsInOrder
    BY DEF IInv
  <1> QED BY <1>1, AlwaysIInv, PTL

\* The type invariant: the pointer fits its register at every depth.
THEOREM TypeCorrect == Spec => []TypeOK
  <1>1. IInv => TypeOK
    BY DEF IInv
  <1> QED BY <1>1, AlwaysIInv, PTL

---------------------------------------------------------------------------

\* The last tap is under the pointer.
LEMMA LastSlot == \A p \in Index : Depth - 1 \in Index /\ Slot(p, Depth - 1) = p
  BY DepthAssumption DEF Slot, Index

LEMMA OldestInData == ASSUME IInv PROVE Oldest \in Data
  BY InitialAssumption DEF IInv, TypeOK, Oldest

LEMMA ResetRefines == ASSUME Reset PROVE Line!Reset
  <1>1. Oldest' = Initial
    BY DEF Reset, ResetArray, Oldest
  <1> QED BY <1>1 DEF Reset, ResetArray, Line!Reset

LEMMA ShiftRefines ==
  ASSUME IInv, IInv', NEW d \in Data, Shift(d)
  PROVE  Line!Shift(d)
  <1>1. armed' = armed /\ Len(fed) < MaxEdges /\ fed' = Append(fed, d)
    BY DEF Shift, Feed
  <1>2. CASE armed
    <2>1. Oldest' = Tap(Depth - 1)'
      <3>1. ptr' \in Index
        BY <1>1, <1>2 DEF IInv, PtrInArray
      <3>2. arr'[Slot(ptr', Depth - 1)] = Tap(Depth - 1)'
        BY <1>1, <1>2, <3>1, LastSlot DEF IInv, TapsInOrder, Slot
      <3> QED BY <3>1, <3>2, LastSlot DEF Oldest
    <2>2. Oldest' = Line!Delayed(fed')
      BY <2>1 DEF Tap, Line!Delayed, Line!Tap
    <2> QED BY <1>1, <1>2, <2>2 DEF Line!Shift
  <1>3. CASE ~armed
    <2>1. Oldest' \in Data
      BY InitialAssumption DEF IInv, TypeOK, Oldest
    <2> QED BY <1>1, <1>3, <2>1 DEF Line!Shift
  <1> QED BY <1>2, <1>3

LEMMA NextRefines ==
  IInv /\ IInv' /\ [Next]_vars => [Line!Next]_(Line!vars)
  <1> SUFFICES ASSUME IInv, IInv', [Next]_vars PROVE [Line!Next]_(Line!vars)
    OBVIOUS
  <1>1. CASE Reset
    BY <1>1, ResetRefines DEF Line!Next
  <1>2. ASSUME NEW d \in Data, Shift(d) PROVE Line!Next
    BY <1>2, ShiftRefines DEF Line!Next
  <1>3. CASE UNCHANGED vars
    BY <1>3 DEF vars, Line!vars, Oldest
  <1> QED BY <1>1, <1>2, <1>3 DEF Next

\* What build_sync_module emits for a deep array delays its input by the
\* depth of the array, from the first reset on: choosing the strategy by the
\* depth is invisible from outside.
THEOREM CircularBufferIsDelayLine == Spec => ImplementsDelayLine
  <1>1. Init => Line!Init
    BY InitIInv, OldestInData DEF Init, PowerOn, Line!Init
  <1> QED BY <1>1, AlwaysIInv, NextRefines, PTL DEF Spec, ImplementsDelayLine, Line!Spec

---------------------------------------------------------------------------
(* The shift register alone.  That each element is its tap is inductive    *)
(* given the types.                                                        *)

ShallowInv == Shallow!TypeOK /\ Shallow!TapsInOrder

LEMMA ShallowInitInv == Shallow!Init => ShallowInv
  <1> SUFFICES ASSUME Shallow!Init PROVE ShallowInv
    OBVIOUS
  <1>1. Shallow!TypeOK
    <2>1. armed = FALSE /\ fed = <<>> /\ regs \in [Shallow!Index -> Data]
      BY DEF Shallow!Init, Shallow!PowerOn
    <2>2. armed \in BOOLEAN
      BY <2>1, Zenon
    <2>3. fed \in Seq(Data)
      BY <2>1, SMT
    <2> QED BY <2>1, <2>2, <2>3 DEF Shallow!TypeOK
  <1>2. Shallow!TapsInOrder
    BY DEF Shallow!Init, Shallow!PowerOn, Shallow!TapsInOrder
  <1> QED BY <1>1, <1>2 DEF ShallowInv

LEMMA ShallowResetInv == ASSUME Shallow!Reset PROVE ShallowInv'
  <1>1. Shallow!TypeOK'
    BY InitialAssumption DEF Shallow!Reset, Shallow!ResetArray, Shallow!TypeOK
  <1>2. Shallow!TapsInOrder'
    BY DEF Shallow!Reset, Shallow!ResetArray, Shallow!TapsInOrder, Shallow!Tap, Shallow!Index
  <1> QED BY <1>1, <1>2 DEF ShallowInv

LEMMA ShallowShiftInv ==
  ASSUME ShallowInv, NEW d \in Data, Shallow!Shift(d)
  PROVE  ShallowInv'
  <1> USE DepthAssumption
  <1>1. Shallow!TypeOK'
    <2>1. regs' \in [Shallow!Index -> Data]
      BY DEF ShallowInv, Shallow!TypeOK, Shallow!Shift, Shallow!Shifted, Shallow!Index
    <2> QED BY <2>1 DEF ShallowInv, Shallow!TypeOK, Shallow!Shift, Shallow!Feed
  <1>2. ASSUME armed', NEW i \in Shallow!Index
        PROVE  regs'[i] = Shallow!Tap(i)'
    <2>1. armed /\ fed \in Seq(Data) /\ fed' = Append(fed, d)
      BY <1>2 DEF ShallowInv, Shallow!TypeOK, Shallow!Shift, Shallow!Feed
    <2>2. Len(fed') = Len(fed) + 1 /\ Len(fed) \in Nat
      BY <2>1
    <2>3. CASE i = 0
      <3>1. regs'[i] = d
        BY <2>3 DEF ShallowInv, Shallow!TypeOK, Shallow!Index, Shallow!Shift, Shallow!Shifted
      <3>2. fed'[Len(fed')] = d
        BY <2>1, <2>2
      <3> QED BY <3>1, <3>2, <2>2, <2>3 DEF Shallow!Tap
    <2>4. CASE i # 0
      <3>1. i - 1 \in Shallow!Index /\ i \in Nat
        BY <2>4 DEF Shallow!Index
      <3>2. regs'[i] = regs[i - 1]
        BY <2>4, <3>1 DEF ShallowInv, Shallow!TypeOK, Shallow!Index, Shallow!Shift, Shallow!Shifted
      <3>3. regs[i - 1] = Shallow!Tap(i - 1)
        BY <2>1, <3>1 DEF ShallowInv, Shallow!TapsInOrder
      <3>4. Shallow!Tap(i)' = Shallow!Tap(i - 1)
        BY <2>1, <2>2, <3>1, <2>4 DEF Shallow!Tap
      <3> QED BY <3>2, <3>3, <3>4
    <2> QED BY <2>3, <2>4
  <1> QED BY <1>1, <1>2 DEF ShallowInv, Shallow!TapsInOrder

LEMMA ShallowStepInv ==
  ShallowInv /\ [Shallow!Next]_(Shallow!vars) => ShallowInv'
  <1> SUFFICES ASSUME ShallowInv, [Shallow!Next]_(Shallow!vars) PROVE ShallowInv'
    OBVIOUS
  <1>1. CASE Shallow!Reset
    BY <1>1, ShallowResetInv
  <1>2. ASSUME NEW d \in Data, Shallow!Shift(d) PROVE ShallowInv'
    BY <1>2, ShallowShiftInv
  <1>3. CASE UNCHANGED Shallow!vars
    BY <1>3 DEF Shallow!vars, ShallowInv, Shallow!TypeOK, Shallow!TapsInOrder, Shallow!Tap
  <1> QED BY <1>1, <1>2, <1>3 DEF Shallow!Next

LEMMA ShallowAlwaysInv == Shallow!Spec => []ShallowInv
  BY ShallowInitInv, ShallowStepInv, PTL DEF Shallow!Spec

\* The elements hold the inputs since the last reset, in order, and the reset
\* value where there were too few.
THEOREM ShallowInOrder == Shallow!Spec => []Shallow!TapsInOrder
  <1>1. ShallowInv => Shallow!TapsInOrder
    BY DEF ShallowInv
  <1> QED BY <1>1, ShallowAlwaysInv, PTL

---------------------------------------------------------------------------

LEMMA ShallowOldestIsDelayed ==
  ASSUME ShallowInv, armed
  PROVE  Shallow!Oldest = Shallow!Line!Delayed(fed)
  BY DepthAssumption DEF ShallowInv, Shallow!TapsInOrder, Shallow!Oldest, Shallow!Index, Shallow!Tap, Shallow!Line!Delayed, Shallow!Line!Tap

LEMMA ShallowOldestInData == ASSUME ShallowInv PROVE Shallow!Oldest \in Data
  BY DepthAssumption DEF ShallowInv, Shallow!TypeOK, Shallow!Oldest, Shallow!Index

LEMMA ShallowResetRefines == ASSUME Shallow!Reset PROVE Shallow!Line!Reset
  <1>1. Shallow!Oldest' = Initial
    BY DepthAssumption DEF Shallow!Reset, Shallow!ResetArray, Shallow!Oldest, Shallow!Index
  <1> QED BY <1>1 DEF Shallow!Reset, Shallow!ResetArray, Shallow!Line!Reset

LEMMA ShallowShiftRefines ==
  ASSUME ShallowInv, ShallowInv', NEW d \in Data, Shallow!Shift(d)
  PROVE  Shallow!Line!Shift(d)
  <1>1. armed' = armed /\ Len(fed) < MaxEdges /\ fed' = Append(fed, d)
    BY DEF Shallow!Shift, Shallow!Feed
  <1>2. CASE armed
    <2>1. Shallow!Oldest' = Shallow!Line!Delayed(fed')
      BY <1>1, <1>2, DepthAssumption DEF ShallowInv, Shallow!TapsInOrder, Shallow!Oldest, Shallow!Index, Shallow!Tap,
        Shallow!Line!Delayed, Shallow!Line!Tap
    <2> QED BY <1>1, <1>2, <2>1 DEF Shallow!Line!Shift
  <1>3. CASE ~armed
    <2>1. Shallow!Oldest' \in Data
      BY DepthAssumption DEF ShallowInv, Shallow!TypeOK, Shallow!Oldest, Shallow!Index
    <2> QED BY <1>1, <1>3, <2>1 DEF Shallow!Line!Shift
  <1> QED BY <1>2, <1>3

LEMMA ShallowNextRefines ==
  ShallowInv /\ ShallowInv' /\ [Shallow!Next]_(Shallow!vars) => [Shallow!Line!Next]_(Shallow!Line!vars)
  <1> SUFFICES ASSUME ShallowInv, ShallowInv', [Shallow!Next]_(Shallow!vars) PROVE [Shallow!Line!Next]_(Shallow!Line!vars)
    OBVIOUS
  <1>1. CASE Shallow!Reset
    BY <1>1, ShallowResetRefines DEF Shallow!Line!Next
  <1>2. ASSUME NEW d \in Data, Shallow!Shift(d) PROVE Shallow!Line!Next
    BY <1>2, ShallowShiftRefines DEF Shallow!Line!Next
  <1>3. CASE UNCHANGED Shallow!vars
    BY <1>3 DEF Shallow!vars, Shallow!Line!vars, Shallow!Oldest
  <1> QED BY <1>1, <1>2, <1>3 DEF Shallow!Next

\* What build_sync_module emits for a shallow array delays its input by the
\* depth of the array, from the first reset on.
THEOREM ShiftRegisterIsDelayLine == Shallow!Spec => Shallow!ImplementsDelayLine
  <1>1. Shallow!Init => Shallow!Line!Init
    BY ShallowInitInv, ShallowOldestInData DEF Shallow!Init, Shallow!PowerOn, Shallow!Line!Init
  <1> QED BY <1>1, ShallowAlwaysInv, ShallowNextRefines, PTL DEF Shallow!Spec, Shallow!ImplementsDelayLine, Shallow!Line!Spec

---------------------------------------------------------------------------
(* Both on one clock *)

BothInv == IInv /\ ShallowInv

LEMMA BothInitInv == BothInit => BothInv
  BY InitIInv, ShallowInitInv DEF BothInit, BothInv

LEMMA BothSteps ==
  [BothNext]_<<vars, regs>> => [Next]_vars /\ [Shallow!Next]_(Shallow!vars)
  BY DEF BothNext, BothReset, BothShift, Next, vars, Shallow!Next, Shallow!vars

LEMMA BothStep == BothInv /\ [BothNext]_<<vars, regs>> => BothInv'
  BY BothSteps, StepIInv, ShallowStepInv DEF BothInv

\* Crossing CIRC_BUF_THRESHOLD does not change a design: from the first reset
\* on both tails are the input of Depth edges ago (emitter.rs:232, 657-661).
THEOREM StrategiesAgree == BothSpec => []SameTail
  <1>1. BothInit => BothInv
    BY BothInitInv
  <1>2. BothInv => SameTail
    <2> SUFFICES ASSUME BothInv, armed PROVE Oldest = Shallow!Oldest
      BY DEF SameTail
    <2>1. ptr \in Index
      BY DEF BothInv, IInv, PtrInArray
    <2>2. arr[ptr] = Tap(Depth - 1)
      BY <2>1, LastSlot DEF BothInv, IInv, TapsInOrder
    <2>3. regs[Depth - 1] = Tap(Depth - 1)
      BY DepthAssumption DEF BothInv, ShallowInv, Shallow!TapsInOrder, Shallow!Index,
        Shallow!Tap, Tap
    <2> QED BY <2>1, <2>2, <2>3 DEF Oldest, Shallow!Oldest
  <1> QED BY <1>1, <1>2, BothStep, PTL DEF BothSpec

---------------------------------------------------------------------------

\* Driven side by side with the circular buffer of a deep array, the shift
\* register of a shallow one is the same delay line: the refinement holds step
\* by step, not only at the tails that StrategiesAgree compares.
THEOREM ShallowIsDelayLine == BothSpec => ShallowImplementsDelayLine
  <1>1. BothInit => Shallow!Init
    BY DEF BothInit
  <1> QED BY <1>1, BothSteps, ShiftRegisterIsDelayLine, PTL
      DEF BothSpec, Shallow!Spec, ShallowImplementsDelayLine
=============================================================================
