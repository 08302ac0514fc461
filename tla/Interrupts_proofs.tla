-------------------------- MODULE Interrupts_proofs --------------------------
(***************************************************************************)
(* Proofs about the interrupt controller, for any set of interrupts, and   *)
(* about a root counter, for any width of counts and words and any rates.  *)
(***************************************************************************)
EXTENDS IntC, PsxCounters, SequenceTheorems, TLAPS

(* The inductive invariant.  SavedEnable gives the returns their meaning;  *)
(* WakeUpKept and SavedEnable speak about ie as a triple, hence TypeOK.    *)
IInv == TypeOK /\ WakeUpKept /\ SavedEnable

USE IrqsAssumption

(* Keeping the two latest of a stack of bits gives such a stack again,     *)
(* with the entries the exception pushes and saves.                        *)
LEMMA LatestFrames ==
  ASSUME NEW e \in [1..3 -> BOOLEAN], NEW f \in Seq(BOOLEAN), Len(f) <= 2,
         \A i \in 1..Len(f) : f[i] = e[i+1]
  PROVE  LET g == Latest(<<e[1]>> \o f)
         IN  /\ g \in Seq(BOOLEAN) /\ Len(g) <= 2
             /\ \A i \in 1..Len(g) : g[i] = Push(e)[i+1]
  BY DEF Latest, Push

(* The same for a return from an exception.                                *)
LEMMA RestFrames ==
  ASSUME NEW e \in [1..3 -> BOOLEAN], NEW f \in Seq(BOOLEAN), Len(f) <= 2,
         \A i \in 1..Len(f) : f[i] = e[i+1]
  PROVE  /\ Rest(f) \in Seq(BOOLEAN) /\ Len(Rest(f)) <= 2
         /\ \A i \in 1..Len(Rest(f)) : Rest(f)[i] = Pop(e)[i+1]
<1>1. CASE f = <<>>
  BY <1>1 DEF Rest
<1>2. CASE f # <<>>
  <2>1. Rest(f) = Tail(f) /\ Tail(f) \in Seq(BOOLEAN)
    BY <1>2 DEF Rest
  <2>2. Len(f) \in 1..2 /\ Len(Tail(f)) = Len(f) - 1
    <3>1. Len(f) \in Nat \ {0}
      BY <1>2, EmptySeq
    <3>2. Len(Tail(f)) = Len(f) - 1
      BY <1>2
    <3> QED
      BY <3>1, <3>2
  <2>3. \A i \in 1..Len(Tail(f)) : Tail(f)[i] = Pop(e)[i+1]
    <3> SUFFICES ASSUME NEW i \in 1..Len(Tail(f)) PROVE Tail(f)[i] = Pop(e)[i+1]
      OBVIOUS
    <3>1. i = 1 /\ Len(f) = 2
      BY <2>2
    <3>2. Tail(f)[1] = f[2] /\ f[2] = e[3]
      BY <3>1
    <3>3. Pop(e)[2] = e[3]
      BY DEF Pop
    <3> QED
      BY <3>1, <3>2, <3>3
  <2> QED
    BY <2>1, <2>2, <2>3
<1> QED
  BY <1>1, <1>2
-----------------------------------------------------------------------------
(* A triple of enable bits.                                                *)
LEMMA Triple ==
  ASSUME NEW a \in BOOLEAN, NEW b \in BOOLEAN, NEW c \in BOOLEAN
  PROVE  <<a, b, c>> \in [1..3 -> BOOLEAN]
  OBVIOUS

(* The program starts with the invariant.                                  *)
LEMMA InitInvariant == Init => IInv
<1> SUFFICES ASSUME Init PROVE IInv
  OBVIOUS
<1>1. ie \in [1..3 -> BOOLEAN]
  BY Triple DEF Init
<1>2. frames \in Seq(BOOLEAN) /\ Len(frames) = 0
  BY DEF Init
<1>3. TypeOK
  <2>1. ISTAT \subseteq Irqs /\ IMASK \subseteq Irqs /\ todo \subseteq Counters
    BY Zenon DEF Init
  <2>2. /\ im \in BOOLEAN /\ sm \in BOOLEAN /\ sw \in BOOLEAN /\ evt \in BOOLEAN
        /\ phase \in {"cpu", "drain"} /\ bios \in BOOLEAN /\ opened \in BOOLEAN
        /\ HLE \in BOOLEAN
    BY Zenon DEF Init
  <2>3. Len(frames) <= 2
    BY <1>2
  <2> QED
    BY <1>1, <1>2, <2>1, <2>2, <2>3, Zenon DEF TypeOK
<1>4. WakeUpKept
  BY DEF Init, WakeUpKept, Deliverable
<1>5. SavedEnable
  BY <1>2 DEF SavedEnable
<1> QED
  BY <1>3, <1>4, <1>5 DEF IInv

(* The steps that leave Status alone keep the enable bits and their        *)
(* history; what matters in them is that I_STAT and I_MASK are tested.     *)
LEMMA ControllerSteps ==
  ASSUME IInv, UNCHANGED HLE,
         \/ \E value \in SUBSET Irqs : \/ WriteISTAT(value) \/ WriteIMASK(value)
                                       \/ WriteByteISTAT(value) \/ WriteByteIMASK(value)
         \/ \E irq \in Irqs : DeviceRaises(irq) \/ BiosCounter(irq)
         \/ \E irq \in Counters \union {VBlank} : StartRCnt(irq) \/ StopRCnt(irq)
         \/ VBlankEvent \/ DmaSetsCause \/ BranchTest \/ EndDrain
  PROVE  TypeOK' /\ WakeUpKept' /\ SavedEnable'
<1> USE DEF IInv
<1>1. ASSUME NEW value \in SUBSET Irqs, WriteISTAT(value)
      PROVE  TypeOK' /\ WakeUpKept' /\ SavedEnable'
  <2> USE <1>1 DEF WriteISTAT, status, flow
  <2>1. TypeOK'
    BY DEF TypeOK, Written
  <2>2. WakeUpKept'
    BY DEF WakeUpKept, Deliverable, Pending, TypeOK
  <2>3. SavedEnable'
    BY DEF SavedEnable
  <2> QED BY <2>1, <2>2, <2>3
<1>2. ASSUME NEW value \in SUBSET Irqs, WriteIMASK(value)
      PROVE  TypeOK' /\ WakeUpKept' /\ SavedEnable'
  <2> USE <1>2 DEF WriteIMASK, psxTestIntc, status, flow
  <2>1. TypeOK'
    BY DEF TypeOK
  <2>2. WakeUpKept'
    BY DEF WakeUpKept, Deliverable, Pending, TypeOK
  <2>3. SavedEnable'
    BY DEF SavedEnable
  <2> QED BY <2>1, <2>2, <2>3
<1>3. ASSUME NEW irq \in Irqs, psxRaiseExtInt(irq), UNCHANGED <<status, flow>>
      PROVE  TypeOK' /\ WakeUpKept' /\ SavedEnable'
  <2> USE <1>3 DEF psxRaiseExtInt, psxTestIntc, status, flow
  <2>1. TypeOK'
    BY DEF TypeOK
  <2>2. WakeUpKept'
    BY DEF WakeUpKept, Deliverable, Pending, TypeOK
  <2>3. SavedEnable'
    BY DEF SavedEnable
  <2> QED BY <2>1, <2>2, <2>3
<1>4. ASSUME NEW irq \in Irqs, BiosCounter(irq)
      PROVE  TypeOK' /\ WakeUpKept' /\ SavedEnable'
  <2> USE <1>4 DEF BiosCounter, status, flow
  <2>1. TypeOK'
    BY DEF TypeOK, Written
  <2>2. WakeUpKept'
    BY DEF WakeUpKept, Deliverable, Pending, TypeOK
  <2>3. SavedEnable'
    BY DEF SavedEnable
  <2> QED BY <2>1, <2>2, <2>3
<1>5. ASSUME NEW irq \in Counters \union {VBlank}, StartRCnt(irq) \/ StopRCnt(irq)
      PROVE  TypeOK' /\ WakeUpKept' /\ SavedEnable'
  <2> USE <1>5 DEF StartRCnt, StopRCnt, status, flow
  <2>1. TypeOK'
    BY DEF TypeOK
  <2>2. WakeUpKept'
    BY DEF WakeUpKept, Deliverable, Pending, TypeOK
  <2>3. SavedEnable'
    BY DEF SavedEnable
  <2> QED BY <2>1, <2>2, <2>3
<1>6. ASSUME DmaSetsCause \/ BranchTest \/ EndDrain
      PROVE  TypeOK' /\ WakeUpKept' /\ SavedEnable'
  <2> USE <1>6 DEF DmaSetsCause, BranchTest, EndDrain, status, flow
  <2>1. TypeOK'
    BY DEF TypeOK
  <2>2. WakeUpKept'
    BY DEF WakeUpKept, Deliverable, Pending, TypeOK
  <2>3. SavedEnable'
    BY DEF SavedEnable
  <2> QED BY <2>1, <2>2, <2>3
<1>7. ASSUME NEW value \in SUBSET Irqs, WriteByteISTAT(value) \/ WriteByteIMASK(value)
      PROVE  TypeOK' /\ WakeUpKept' /\ SavedEnable'
  <2> USE <1>7 DEF WriteByteISTAT, WriteByteIMASK, status, flow
  <2>1. TypeOK'
    BY DEF TypeOK
  <2>2. WakeUpKept'
    BY DEF WakeUpKept, Deliverable, Pending, TypeOK
  <2>3. SavedEnable'
    BY DEF SavedEnable
  <2> QED BY <2>1, <2>2, <2>3
<1> QED
  BY <1>1, <1>2, <1>3, <1>4, <1>5, <1>6, <1>7 DEF DeviceRaises, VBlankEvent

(* The steps that change Status: a return enables interrupts only with     *)
(* opened set, an exception disables them, and MTC0 and StartPAD test.     *)
LEMMA StatusSteps ==
  ASSUME IInv, UNCHANGED HLE,
         \/ \E enables \in [1..3 -> BOOLEAN], hw, soft \in BOOLEAN : MTC0Status(enables, hw, soft)
         \/ \E value \in BOOLEAN : MTC0Cause(value) \/ Critical(value)
         \/ RFE \/ Syscall \/ StartPAD
         \/ ExecuteException \/ BiosReturn \/ BiosHook
  PROVE  TypeOK' /\ WakeUpKept' /\ SavedEnable'
<1> USE DEF IInv
<1>i. ie[1] \in BOOLEAN /\ ie[2] \in BOOLEAN /\ ie[3] \in BOOLEAN
  BY DEF TypeOK
<1>e. Push(ie) \in [1..3 -> BOOLEAN] /\ Pop(ie) \in [1..3 -> BOOLEAN]
  BY <1>i, Triple DEF Push, Pop
<1>p. /\ Push(ie)[1] = FALSE
      /\ Latest(<<ie[1]>> \o frames) \in Seq(BOOLEAN)
      /\ Len(Latest(<<ie[1]>> \o frames)) <= 2
      /\ \A i \in 1..Len(Latest(<<ie[1]>> \o frames)) :
           Latest(<<ie[1]>> \o frames)[i] = Push(ie)[i+1]
  <2>1. Push(ie)[1] = FALSE
    BY DEF Push
  <2> QED
    BY <2>1, LatestFrames DEF TypeOK, SavedEnable
<1>r. /\ Rest(frames) \in Seq(BOOLEAN) /\ Len(Rest(frames)) <= 2
      /\ \A i \in 1..Len(Rest(frames)) : Rest(frames)[i] = Pop(ie)[i+1]
  BY RestFrames DEF TypeOK, SavedEnable
<1>1. ASSUME NEW enables \in [1..3 -> BOOLEAN], NEW hw \in BOOLEAN, NEW soft \in BOOLEAN,
             MTC0Status(enables, hw, soft)
      PROVE  TypeOK' /\ WakeUpKept' /\ SavedEnable'
  <2> USE <1>1 DEF MTC0Status, psxTestIntc, flow
  <2>1. TypeOK'
    <3>1. ie' \in [1..3 -> BOOLEAN]
      BY DEF TypeOK
    <3>2. evt' \in BOOLEAN
      BY Zenon DEF TypeOK
    <3>3. ISTAT' \subseteq Irqs /\ IMASK' \subseteq Irqs
      BY DEF TypeOK
    <3>4. frames' \in Seq(BOOLEAN) /\ Len(frames') <= 2
      <4>1. <<>> \in Seq(BOOLEAN) /\ Len(<<>>) <= 2
        OBVIOUS
      <4> QED
        BY <4>1, Zenon
    <3>5. im' \in BOOLEAN /\ sm' \in BOOLEAN /\ sw' \in BOOLEAN /\ opened' \in BOOLEAN
      BY Zenon DEF TypeOK
    <3>6. phase' \in {"cpu", "drain"} /\ bios' \in BOOLEAN /\ HLE' \in BOOLEAN /\ todo' \subseteq Counters
      BY Zenon DEF TypeOK
    <3> QED
      BY <3>1, <3>2, <3>3, <3>4, <3>5, <3>6, Zenon DEF TypeOK
  <2>2. WakeUpKept'
    BY DEF WakeUpKept, Deliverable, Pending
  <2>3. SavedEnable'
    BY DEF SavedEnable
  <2> QED BY <2>1, <2>2, <2>3
<1>2. ASSUME NEW value \in BOOLEAN, MTC0Cause(value)
      PROVE  TypeOK' /\ WakeUpKept' /\ SavedEnable'
  <2>1. CASE SoftwareInterrupt
    <3> USE <1>2, <2>1 DEF MTC0Cause, flow
    <3>1. TypeOK'
      BY <1>e, <1>p DEF TypeOK
    <3>2. WakeUpKept'
      BY <1>p DEF WakeUpKept, Deliverable
    <3>3. SavedEnable'
      BY <1>p DEF SavedEnable
    <3> QED BY <3>1, <3>2, <3>3
  <2>2. CASE ~SoftwareInterrupt
    <3> USE <1>2, <2>2 DEF MTC0Cause, flow
    <3>1. TypeOK'
      BY DEF TypeOK
    <3>2. WakeUpKept'
      BY DEF WakeUpKept, Deliverable, Pending
    <3>3. SavedEnable'
      BY DEF SavedEnable
    <3> QED BY <3>1, <3>2, <3>3
  <2> QED BY <2>1, <2>2
<1>3. ASSUME NEW value \in BOOLEAN, Critical(value)
      PROVE  TypeOK' /\ WakeUpKept' /\ SavedEnable'
  <2> USE <1>3 DEF Critical, flow
  <2>0. ie' = <<value, ie[2], ie[2]>>
    <3>1. Push(ie)[1] = FALSE /\ Push(ie)[2] = ie[1] /\ Push(ie)[3] = ie[2]
      BY DEF Push
    <3>2. ie' = <<[Push(ie) EXCEPT ![2] = value][2],
                  [Push(ie) EXCEPT ![2] = value][3],
                  [Push(ie) EXCEPT ![2] = value][3]>>
      BY DEF Pop
    <3> QED
      BY <1>e, <3>1, <3>2
  <2>1. TypeOK'
    <3>1. ie' \in [1..3 -> BOOLEAN]
      BY <1>i, <2>0, Triple
    <3>2. ISTAT' \subseteq Irqs /\ IMASK' \subseteq Irqs /\ todo' \subseteq Counters
      BY Zenon DEF TypeOK
    <3>3. /\ im' \in BOOLEAN /\ sm' \in BOOLEAN /\ sw' \in BOOLEAN
          /\ evt' \in BOOLEAN /\ opened' \in BOOLEAN
      BY Zenon DEF TypeOK
    <3>4. phase' \in {"cpu", "drain"} /\ bios' \in BOOLEAN /\ HLE' \in BOOLEAN
      BY Zenon DEF TypeOK
    <3>5. frames' \in Seq(BOOLEAN) /\ Len(frames') <= 2
      <4>1. <<>> \in Seq(BOOLEAN) /\ Len(<<>>) <= 2
        OBVIOUS
      <4> QED
        BY <4>1, Zenon
    <3> QED
      BY <3>1, <3>2, <3>3, <3>4, <3>5, Zenon DEF TypeOK
  <2>2. WakeUpKept'
    BY <2>0 DEF WakeUpKept, Deliverable, Pending
  <2>3. SavedEnable'
    BY DEF SavedEnable
  <2> QED BY <2>1, <2>2, <2>3
<1>4. ASSUME RFE
      PROVE  TypeOK' /\ WakeUpKept' /\ SavedEnable'
  <2> USE <1>4 DEF RFE, Return, flow
  <2>1. TypeOK'
    BY <1>e, <1>r DEF TypeOK
  <2>2. WakeUpKept'
    BY DEF WakeUpKept, Deliverable, Pending, TypeOK
  <2>3. SavedEnable'
    BY <1>r DEF SavedEnable
  <2> QED BY <2>1, <2>2, <2>3
<1>5. ASSUME Syscall
      PROVE  TypeOK' /\ WakeUpKept' /\ SavedEnable'
  <2> USE <1>5 DEF Syscall, psxException, flow
  <2>1. TypeOK'
    BY <1>e, <1>p DEF TypeOK
  <2>2. WakeUpKept'
    BY <1>p DEF WakeUpKept, Deliverable
  <2>3. SavedEnable'
    BY <1>p DEF SavedEnable
  <2> QED BY <2>1, <2>2, <2>3
<1>6. ASSUME StartPAD
      PROVE  TypeOK' /\ WakeUpKept' /\ SavedEnable'
  <2> USE <1>6 DEF StartPAD, psxTestIntc, flow
  <2>1. TypeOK'
    <3>1. ie' \in [1..3 -> BOOLEAN]
      BY DEF TypeOK
    <3>2. evt' \in BOOLEAN
      BY Zenon DEF TypeOK
    <3>3. ISTAT' \subseteq Irqs /\ IMASK' \subseteq Irqs
      BY DEF TypeOK
    <3>4. frames' \in Seq(BOOLEAN) /\ Len(frames') <= 2
      <4>1. <<>> \in Seq(BOOLEAN) /\ Len(<<>>) <= 2
        OBVIOUS
      <4> QED
        BY <4>1, Zenon
    <3>5. im' \in BOOLEAN /\ sm' \in BOOLEAN /\ sw' \in BOOLEAN /\ opened' \in BOOLEAN
      BY Zenon DEF TypeOK
    <3>6. phase' \in {"cpu", "drain"} /\ bios' \in BOOLEAN /\ HLE' \in BOOLEAN /\ todo' \subseteq Counters
      BY Zenon DEF TypeOK
    <3> QED
      BY <3>1, <3>2, <3>3, <3>4, <3>5, <3>6, Zenon DEF TypeOK
  <2>2. WakeUpKept'
    BY DEF WakeUpKept, Deliverable, Pending
  <2>3. SavedEnable'
    BY DEF SavedEnable
  <2> QED BY <2>1, <2>2, <2>3
<1>7. ASSUME ExecuteException
      PROVE  TypeOK' /\ WakeUpKept' /\ SavedEnable'
  <2>1. CASE Deliverable
    <3> USE <1>7, <2>1 DEF ExecuteException, TakeInterrupt, psxException, flow
    <3>1. TypeOK'
      BY <1>e, <1>p DEF TypeOK
    <3>2. WakeUpKept'
      BY <1>p DEF WakeUpKept, Deliverable
    <3>3. SavedEnable'
      BY <1>p DEF SavedEnable
    <3> QED BY <3>1, <3>2, <3>3
  <2>2. CASE ~Deliverable
    <3> USE <1>7, <2>2 DEF ExecuteException, flow
    <3>1. TypeOK'
      BY DEF TypeOK
    <3>2. WakeUpKept'
      BY DEF WakeUpKept, Deliverable, Pending
    <3>3. SavedEnable'
      BY DEF SavedEnable
    <3> QED BY <3>1, <3>2, <3>3
  <2> QED BY <2>1, <2>2
<1>8. ASSUME BiosReturn
      PROVE  TypeOK' /\ WakeUpKept' /\ SavedEnable'
  <2> USE <1>8 DEF BiosReturn, LeaveBios, Return
  <2>1. TypeOK'
    BY <1>e, <1>r DEF TypeOK
  <2>2. WakeUpKept'
    BY DEF WakeUpKept, Deliverable, Pending
  <2>3. SavedEnable'
    BY <1>r DEF SavedEnable
  <2> QED BY <2>1, <2>2, <2>3
<1>9. ASSUME BiosHook
      PROVE  TypeOK' /\ WakeUpKept' /\ SavedEnable'
  <2> USE <1>9 DEF BiosHook, LeaveBios, status
  <2>1. TypeOK'
    BY DEF TypeOK, Written
  <2>2. WakeUpKept'
    BY DEF WakeUpKept, Deliverable, Pending, TypeOK
  <2>3. SavedEnable'
    BY DEF SavedEnable
  <2> QED BY <2>1, <2>2, <2>3
<1> QED
  BY <1>1, <1>2, <1>3, <1>4, <1>5, <1>6, <1>7, <1>8, <1>9

(* A stuttering step.                                                      *)
LEMMA Stutter ==
  ASSUME IInv, UNCHANGED <<vars, HLE>>
  PROVE  TypeOK' /\ WakeUpKept' /\ SavedEnable'
  BY DEF IInv, vars, TypeOK, WakeUpKept, SavedEnable, Deliverable, Pending

(* Every step keeps the invariant.                                         *)
LEMMA Invariance == IInv /\ [Next]_<<vars, HLE>> => IInv'
<1> SUFFICES ASSUME IInv, [Next]_<<vars, HLE>> PROVE IInv'
  OBVIOUS
<1>1. CASE UNCHANGED <<vars, HLE>>
  BY <1>1, Stutter DEF IInv
<1>2. CASE Next
  <2>1. \/ \E value \in SUBSET Irqs : \/ WriteISTAT(value) \/ WriteIMASK(value)
                                      \/ WriteByteISTAT(value) \/ WriteByteIMASK(value)
        \/ \E irq \in Irqs : DeviceRaises(irq) \/ BiosCounter(irq)
        \/ \E irq \in Counters \union {VBlank} : StartRCnt(irq) \/ StopRCnt(irq)
        \/ VBlankEvent \/ DmaSetsCause \/ BranchTest \/ EndDrain
        \/ \E enables \in [1..3 -> BOOLEAN], hw, soft \in BOOLEAN : MTC0Status(enables, hw, soft)
        \/ \E value \in BOOLEAN : MTC0Cause(value) \/ Critical(value)
        \/ RFE \/ Syscall \/ StartPAD
        \/ ExecuteException \/ BiosReturn \/ BiosHook
    BY <1>2, Zenon DEF Next, Step, Guest
  <2>2. UNCHANGED HLE
    BY <1>2 DEF Next
  <2>3. TypeOK' /\ WakeUpKept' /\ SavedEnable'
    BY <2>1, <2>2, ControllerSteps, StatusSteps
  <2> QED
    BY <2>3 DEF IInv
<1> QED
  BY <1>1, <1>2

-----------------------------------------------------------------------------
(* The variables keep their types.                                         *)
THEOREM TypeInvariance == Spec => []TypeOK
<1>1. IInv => TypeOK
  BY DEF IInv
<1> QED
  BY InitInvariant, Invariance, <1>1, PTL DEF Spec

(* No interrupt that could be taken is forgotten: the Exception event is   *)
(* scheduled, unless a call that never tests has just opened the way.      *)
THEOREM NoLostWakeUp == Spec => []WakeUpKept
<1>1. IInv => WakeUpKept
  BY DEF IInv
<1> QED
  BY InitInvariant, Invariance, <1>1, PTL DEF Spec

(* A return from an exception gives the interrupted code its enable bit    *)
(* back.                                                                   *)
THEOREM ReturnRestores == Spec => RestoresInterruptEnable
<1>1. IInv /\ [Next]_<<vars, HLE>> =>
        [(RFE \/ BiosReturn) /\ frames # <<>> => ie'[1] = Head(frames)]_vars
  <2> SUFFICES ASSUME IInv, RFE \/ BiosReturn, frames # <<>>
               PROVE  ie'[1] = Head(frames)
    OBVIOUS
  <2>1. ie'[1] = ie[2]
    BY DEF RFE, BiosReturn, Return, Pop
  <2>2. 1 \in 1..Len(frames) /\ Head(frames) = frames[1]
    BY DEF IInv, TypeOK
  <2> QED
    BY <2>1, <2>2 DEF IInv, SavedEnable
<1> QED
  BY InitInvariant, Invariance, <1>1, PTL DEF Spec, RestoresInterruptEnable

-----------------------------------------------------------------------------
(* Root counters: products, quotients and remainders.                      *)
LEMMA Product ==
  /\ \A a, b \in Int : a * b \in Int /\ a * b = b * a
  /\ \A a, b, c \in Int : a * (b * c) = (a * b) * c
  /\ \A a, b, c \in Int : a * (b + c) = a * b + a * c
  /\ \A a, b, c \in Int : a * (b - c) = a * b - a * c
  /\ \A a \in Int, b \in Int : a >= 0 /\ b >= 1 => a * b >= a
  /\ \A a, b \in Int : a * (-b) = -(a * b)
  OBVIOUS

LEMMA Division ==
  ASSUME NEW a \in Int, NEW b \in Nat \ {0}
  PROVE  /\ a \div b \in Int /\ a % b \in Int
         /\ 0 <= a % b /\ a % b < b
         /\ a = b * (a \div b) + (a % b)
<1>1. a \div b \in Int /\ a % b \in Int
  OBVIOUS
<1>2. 0 <= a % b /\ a % b < b
  OBVIOUS
<1>3. a = b * (a \div b) + (a % b)
  OBVIOUS
<1> QED  BY <1>1, <1>2, <1>3

LEMMA DivisionIsUnique ==
  ASSUME NEW a \in Int, NEW b \in Nat \ {0}, NEW q \in Int, NEW s \in Int,
         a = b * q + s, 0 <= s, s < b
  PROVE  a \div b = q /\ a % b = s
<1> DEFINE p == a \div b
           t == a % b
<1>1. p \in Int /\ t \in Int /\ 0 <= t /\ t < b /\ a = b * p + t
  BY Division
<1> HIDE DEF p, t
<1>2. b * (p - q) = s - t /\ b * (q - p) = t - s
  BY <1>1
<1>3. ~(p - q >= 1)
  <2>1. SUFFICES ASSUME p - q >= 1 PROVE FALSE
    OBVIOUS
  <2>2. b * (p - q) >= b
    BY <1>1, <2>1, Product
  <2> QED  BY <1>1, <1>2, <2>2
<1>4. ~(q - p >= 1)
  <2>1. SUFFICES ASSUME q - p >= 1 PROVE FALSE
    OBVIOUS
  <2>2. b * (q - p) >= b
    BY <1>1, <2>1, Product
  <2> QED  BY <1>1, <1>2, <2>2
<1>5. p = q
  BY <1>1, <1>3, <1>4
<1> QED  BY <1>1, <1>5 DEF p, t

LEMMA Shifted ==
  ASSUME NEW a \in Int, NEW b \in Nat \ {0}, NEW k \in Int
  PROVE  (a + b * k) \div b = (a \div b) + k /\ (a + b * k) % b = a % b
<1> DEFINE p == a \div b
           t == a % b
<1>1. p \in Int /\ t \in Int /\ 0 <= t /\ t < b /\ a = b * p + t
  BY Division
<1> HIDE DEF p, t
<1>2. a + b * k = b * (p + k) + t /\ a + b * k \in Int /\ p + k \in Int
  BY <1>1
<1>3. (a + b * k) \div b = p + k /\ (a + b * k) % b = t
  BY <1>1, <1>2, DivisionIsUnique
<1> QED  BY <1>3 DEF p, t

LEMMA Rearranged ==
  /\ \A a, b, c, d \in Int : ((a * b) * c) * d = a * (b * (c * d))
  /\ \A a, b, c, d \in Int : (a + b * c) * d = a * d + (d * b) * c
  /\ \A a, b, c \in Int : a * (b * (-c)) = -(a * (b * c))
  OBVIOUS

(* Quotients of the sum of a number and a little more.                     *)
LEMMA QuotientSteps ==
  ASSUME NEW a \in Int, NEW r \in Nat \ {0}, NEW d \in Nat
  PROVE  /\ ((a + d) \div r) - (a \div r) \in {d \div r, (d + r - 1) \div r}
         /\ d \div r >= 0 /\ (d + r - 1) \div r >= 0
         /\ \A t \in Nat : d <= r * (t - 1) => d \div r < t /\ (d + r - 1) \div r < t
<1> DEFINE x == a \div r
           s == a % r
           u == d \div r
           v == d % r
<1>1. /\ x \in Int /\ s \in Int /\ 0 <= s /\ s < r /\ a = r * x + s
      /\ u \in Int /\ v \in Int /\ 0 <= v /\ v < r /\ d = r * u + v
  <2>1. x \in Int /\ s \in Int /\ 0 <= s /\ s < r /\ a = r * x + s
    BY Division
  <2>2. d \in Int
    OBVIOUS
  <2>3. u \in Int /\ v \in Int /\ 0 <= v /\ v < r /\ d = r * u + v
    BY <2>2, Division
  <2> HIDE DEF x, s, u, v
  <2> QED  BY <2>1, <2>3
<1> HIDE DEF x, s, u, v
<1>2. ~(u <= -1)
  <2>1. SUFFICES ASSUME u <= -1 PROVE FALSE
    OBVIOUS
  <2>2. r * (-u) >= r /\ r * (-u) = -(r * u)
    BY <1>1, <2>1, Product
  <2> QED  BY <1>1, <2>2
<1>3. v = 0 => (d + r - 1) \div r = u
  <2>1. ASSUME v = 0 PROVE d + r - 1 = r * u + (r - 1) /\ 0 <= r - 1 /\ r - 1 < r
    BY <1>1, <2>1
  <2>2. r - 1 \in Int /\ d + r - 1 \in Int
    OBVIOUS
  <2> QED  BY <1>1, <2>1, <2>2, DivisionIsUnique
<1>4. v # 0 => (d + r - 1) \div r = u + 1
  <2>1. ASSUME v # 0
        PROVE  d + r - 1 = r * (u + 1) + (v - 1) /\ 0 <= v - 1 /\ v - 1 < r
    BY <1>1, <2>1
  <2>2. v - 1 \in Int /\ d + r - 1 \in Int /\ u + 1 \in Int
    BY <1>1
  <2> QED  BY <1>1, <2>1, <2>2, DivisionIsUnique
<1>5. s + v < r => (a + d) \div r = x + u
  <2>1. a + d = r * (x + u) + (s + v) /\ 0 <= s + v
    BY <1>1
  <2>2. a + d \in Int /\ x + u \in Int /\ s + v \in Int
    BY <1>1
  <2> QED  BY <2>1, <2>2, DivisionIsUnique
<1>6. ~(s + v < r) => (a + d) \div r = x + u + 1 /\ v # 0
  <2>1. ASSUME ~(s + v < r)
        PROVE  a + d = r * (x + u + 1) + (s + v - r) /\ 0 <= s + v - r /\ s + v - r < r
    BY <1>1, <2>1
  <2>2. a + d \in Int /\ x + u + 1 \in Int /\ s + v - r \in Int
    BY <1>1
  <2> QED  BY <1>1, <2>1, <2>2, DivisionIsUnique
<1>7. ((a + d) \div r) - x \in {u, (d + r - 1) \div r}
  BY <1>1, <1>3, <1>4, <1>5, <1>6
<1>8. (d + r - 1) \div r >= 0
  BY <1>1, <1>2, <1>3, <1>4
<1>9. ASSUME NEW t \in Nat, d <= r * (t - 1)
      PROVE  u < t /\ (d + r - 1) \div r < t
  <2>1. ~(u >= t)
    <3>1. SUFFICES ASSUME u >= t PROVE FALSE
      OBVIOUS
    <3>2. r * (u - (t - 1)) >= r /\ r * (u - (t - 1)) = r * u - r * (t - 1)
      BY <1>1, <3>1, Product
    <3>3. r * u \in Int /\ r * (t - 1) \in Int
      BY <1>1
    <3> QED  BY <1>1, <1>9, <3>2, <3>3
  <2>2. v # 0 => ~(u + 1 >= t)
    <3>1. SUFFICES ASSUME v # 0, u + 1 >= t PROVE FALSE
      OBVIOUS
    <3>2. u = t - 1
      BY <1>1, <2>1, <3>1
    <3>3. r * u = r * (t - 1) /\ r * u \in Int
      BY <1>1, <3>2
    <3> QED  BY <1>1, <1>9, <3>1, <3>3
  <2> QED  BY <1>1, <1>3, <1>4, <2>1, <2>2
<1> QED  BY <1>1, <1>2, <1>7, <1>8, <1>9 DEF x, u

LEMMA QuotientOfLess ==
  ASSUME NEW a \in Int, NEW r \in Nat \ {0}, NEW e \in Int, 0 <= e, e <= r
  PROVE  \E slack \in {0, 1} : ((a - e) \div r) + slack = a \div r
<1> DEFINE x == a \div r
           s == a % r
<1>1. x \in Int /\ s \in Int /\ 0 <= s /\ s < r /\ a = r * x + s
  BY Division
<1> HIDE DEF x, s
<1>2. e <= s => (a - e) \div r = x
  <2>1. ASSUME e <= s PROVE a - e = r * x + (s - e) /\ 0 <= s - e /\ s - e < r
    BY <1>1, <2>1
  <2>2. a - e \in Int /\ s - e \in Int
    BY <1>1
  <2> QED  BY <1>1, <2>1, <2>2, DivisionIsUnique
<1>3. ~(e <= s) => (a - e) \div r = x - 1
  <2>1. ASSUME ~(e <= s)
        PROVE  a - e = r * (x - 1) + (s - e + r) /\ 0 <= s - e + r /\ s - e + r < r
    BY <1>1, <2>1
  <2>2. a - e \in Int /\ s - e + r \in Int /\ x - 1 \in Int
    BY <1>1
  <2> QED  BY <1>1, <2>1, <2>2, DivisionIsUnique
<1>4. CASE e <= s
  BY <1>1, <1>2, <1>4 DEF x
<1>5. CASE ~(e <= s)
  BY <1>1, <1>3, <1>5 DEF x
<1> QED  BY <1>4, <1>5

-----------------------------------------------------------------------------
(* What a word of cycles counts, for any rate.                             *)
CountsAt(c, r) == ((c * One) % Word) \div r

LEMMA Constants ==
  /\ Wrap \in Nat \ {0} /\ One \in Nat \ {0} /\ Word \in Nat \ {0}
  /\ Wrap \in Int /\ One \in Int /\ Word \in Int
  /\ Word \div One \in Nat \ {0} /\ Word \div One \in Int
  /\ Word = One * (Word \div One)
<1>1. /\ Wrap \in Nat \ {0} /\ One \in Nat \ {0} /\ Word \in Nat \ {0}
      /\ Word % One = 0
  BY CountersAssumption
<1>2. PICK w \in Int : w = Word \div One /\ Word = One * w + 0
  BY <1>1, Division
<1>3. ~(w <= 0)
  <2>1. SUFFICES ASSUME w <= 0 PROVE FALSE
    OBVIOUS
  <2>2. w = 0 \/ -w >= 1
    BY <2>1
  <2>3. -w >= 1 => One * (-w) >= One
    BY <1>1, Product
  <2>4. One * (-w) = -(One * w) /\ One * w \in Int
    BY <1>1, Product
  <2>5. One * w = Word
    BY <1>1, <1>2, <2>4
  <2>6. w = 0 => One * w = 0
    BY <1>1
  <2> QED  BY <1>1, <2>2, <2>3, <2>4, <2>5, <2>6
<1>4. Word = One * w
  BY <1>1, <1>2
<1> QED  BY <1>1, <1>2, <1>3, <1>4

(* A count of a word loses whole rounds only, at an exact rate.            *)
LEMMA CountsAreExact ==
  ASSUME NEW r \in Nat \ {0}, Word % (r * Wrap) = 0, NEW c \in Int
  PROVE  \E j \in Int : CountsAt(c, r) = ((c * One) \div r) + Wrap * j
<1>1. r * Wrap \in Nat \ {0}
  BY Constants, Product
<1>2. PICK k \in Int : Word = (r * Wrap) * k + 0
  BY <1>1, Constants, Division
<1>3. c * One \in Int
  BY Constants
<1>4. PICK i \in Int : (c * One) % Word = (c * One) - Word * i
  <2>1. PICK i \in Int, s \in Int : (c * One) % Word = s /\ c * One = Word * i + s
    BY <1>3, Constants, Division
  <2>2. Word * i \in Int
    BY Constants
  <2> QED  BY <1>3, <2>1, <2>2
<1>5. PICK j \in Int : j = -(k * i)
  OBVIOUS
<1>6. Word * i = -(r * (Wrap * j))
  <2>1. r \in Int /\ Wrap \in Int /\ r * Wrap \in Int
    BY Constants
  <2>2. Word = (r * Wrap) * k
    BY <2>1, <1>2
  <2>3. Word * i = r * (Wrap * (k * i))
    BY <2>1, <2>2, Rearranged
  <2>4. k * i \in Int /\ k * i = -j
    BY <1>5
  <2>5. r * (Wrap * (-j)) = -(r * (Wrap * j))
    BY <2>1, Rearranged
  <2> QED  BY <2>3, <2>4, <2>5
<1>7. (c * One) % Word = (c * One) + r * (Wrap * j)
  <2>1. r * (Wrap * j) \in Int
    BY Constants
  <2> QED  BY <1>3, <1>4, <1>6, <2>1
<1>8. Wrap * j \in Int
  BY Constants
<1>9. ((c * One) % Word) \div r = ((c * One) \div r) + Wrap * j
  <2>1. PICK a \in Int : a = c * One
    BY <1>3
  <2>2. PICK h \in Int : h = Wrap * j
    BY <1>8
  <2>3. (a + r * h) \div r = (a \div r) + h
    BY Shifted
  <2> QED  BY <1>7, <2>1, <2>2, <2>3
<1> QED  BY <1>9 DEF CountsAt

(* Cycles count modulo the width of what is left of them by the shift.     *)
LEMMA CountsWrap ==
  ASSUME NEW c \in Int, NEW k \in Int, NEW r
  PROVE  CountsAt(c + (Word \div One) * k, r) = CountsAt(c, r)
<1>1. PICK w \in Int : w = Word \div One /\ Word = One * w
  BY Constants
<1>2. (c + w * k) * One = (c * One) + Word * k
  BY <1>1, Constants, Rearranged
<1>3. c * One \in Int
  BY Constants
<1>4. ((c + w * k) * One) % Word = (c * One) % Word
  <2>1. PICK a \in Int : a = c * One
    BY <1>3
  <2>2. (a + Word * k) % Word = a % Word
    BY Constants, Shifted
  <2> QED  BY <1>2, <2>1, <2>2
<1> QED  BY <1>1, <1>4 DEF CountsAt

LEMMA CounterTypes ==
  ASSUME RcntTypeOK
  PROVE  /\ Count \in Int /\ Target \in Int /\ Rate \in Nat \ {0} /\ Rate \in Int
         /\ cyclepass \in Int /\ due \in Int /\ pending \in Int /\ debt \in Int
         /\ Goal \in Int
<1>1. Wrap \in Nat /\ One \in Nat \ {0} /\ Word \div One \in Nat /\ Rates \subseteq Nat \ {0}
  BY Constants, CountersAssumption
<1>2. Goal \in Int
  BY <1>1 DEF RcntTypeOK, Goal
<1> QED  BY <1>1, <1>2 DEF RcntTypeOK

(* ScaleByRate yields a number of cycles.                                  *)
LEMMA Scaled ==
  ASSUME NEW d \in Int, NEW r \in Int
  PROVE  ScaleByRate(d, r) \in Int
<1>1. d * r \in Int
  OBVIOUS
<1>2. (d * r) % Word \in Int
  BY <1>1, Constants, Division
<1> QED  BY <1>2, Constants, Division DEF ScaleByRate

(* A remainder of whole cycles.                                            *)
LEMMA PassedIs ==
  ASSUME NEW c \in Int
  PROVE  /\ c % (Word \div One) \in 0..(Word \div One) - 1
         /\ \E k \in Int : c % (Word \div One) = c + (Word \div One) * k
<1>1. PICK w \in Nat \ {0} : w = Word \div One
  BY Constants
<1>2. PICK q \in Int, s \in Int : c = w * q + s /\ s = c % w /\ 0 <= s /\ s < w
  BY Division
<1>3. -q \in Int /\ w * (-q) = -(w * q) /\ w * q \in Int
  BY Product
<1>4. s = c + w * (-q)
  BY <1>2, <1>3
<1>5. s \in 0..w-1
  BY <1>2
<1> QED  BY <1>1, <1>2, <1>3, <1>4, <1>5

-----------------------------------------------------------------------------
LEMMA RcntStarts == RcntInit => RcntTypeOK
<1> SUFFICES ASSUME RcntInit PROVE RcntTypeOK
  OBVIOUS
<1>1. Wrap \in Nat \ {0} /\ Word \div One \in Nat \ {0}
  BY Constants
<1>2. 0 \in 0..Wrap-1 /\ 0 \in 0..(Word \div One) - 1
  BY <1>1
<1>3. mode \in Mode
  BY DEF RcntInit, Mode
<1>4. /\ Count = 0 /\ Target = 0 /\ Rate = One /\ cyclepass = 0 /\ due = 0 /\ pending = 0
      /\ debt = 0 /\ IsFutureTarget = TRUE /\ scheduled = FALSE /\ stale = FALSE /\ ran = FALSE
  BY DEF RcntInit
<1>5. /\ IsFutureTarget \in BOOLEAN /\ scheduled \in BOOLEAN
      /\ {stale, ran} \subseteq BOOLEAN
  BY <1>4, Zenon
<1>6. /\ Count \in 0..Wrap-1 /\ Target \in 0..Wrap-1 /\ Rate \in Rates \union {One}
      /\ cyclepass \in 0..(Word \div One) - 1
  BY <1>2, <1>4, Zenon
<1>7. due \in Int /\ pending \in Nat /\ debt \in Nat
  BY <1>4
<1> QED  BY <1>3, <1>5, <1>6, <1>7 DEF RcntTypeOK

LEMMA ScheduleTyped ==
  ASSUME NEW count \in 0..Wrap-1, NEW target \in 0..Wrap-1, NEW m \in Mode,
         NEW rate \in Rates \union {One}, NEW p \in Nat,
         scheduled \in BOOLEAN, due \in Int, Schedule(count, target, m, rate, p)
  PROVE  scheduled' \in BOOLEAN /\ due' \in Int /\ cyclepass' \in 0..(Word \div One) - 1
<1> DEFINE goal == IF m.Tar THEN target ELSE Wrap
           cycles == ScaleByRate(goal - count, rate)
<1>1. /\ Wrap \in Nat \ {0} /\ One \in Nat \ {0} /\ Word \div One \in Nat \ {0}
      /\ Rates \subseteq Nat \ {0}
  BY Constants, CountersAssumption
<1>2. goal - count \in Int /\ rate \in Int
  BY <1>1
<1>3. cycles \in Int
  BY <1>2, Scaled
<1>4. cyclepass' = 0 /\ ((scheduled' = TRUE /\ due' = p + cycles) \/ UNCHANGED event)
  BY DEF Schedule
<1> HIDE DEF cycles, goal
<1>5. 0 \in 0..(Word \div One) - 1 /\ p + cycles \in Int
  BY <1>1, <1>3
<1> QED  BY <1>4, <1>5 DEF event

LEMMA RcntTyped == RcntTypeOK /\ [RcntNext]_rcntVars => RcntTypeOK'
<1> SUFFICES ASSUME RcntTypeOK, [RcntNext]_rcntVars PROVE RcntTypeOK'
  OBVIOUS
<1>0. /\ Count \in 0..Wrap - 1 /\ Target \in 0..Wrap - 1
      /\ mode \in Mode /\ Rate \in Rates \union {One}
      /\ cyclepass \in 0..(Word \div One) - 1
      /\ IsFutureTarget \in BOOLEAN
      /\ scheduled \in BOOLEAN /\ due \in Int /\ pending \in Nat
      /\ debt \in Nat /\ stale \in BOOLEAN /\ ran \in BOOLEAN
  BY DEF RcntTypeOK
<1>1. /\ Wrap \in Nat \ {0} /\ One \in Nat \ {0} /\ Word \div One \in Nat \ {0}
      /\ Rates \subseteq Nat \ {0} /\ Values \subseteq 0..Wrap-1 /\ Modes \subseteq Mode
      /\ MaxPending \in Nat /\ 0 \in 0..Wrap-1
  BY Constants, CountersAssumption
<1>2. \A x \in Int : x % Wrap \in 0..Wrap-1
  BY <1>1, Division
<1>w. ASSUME WriteRecorded, scheduled' \in BOOLEAN
      PROVE  pending' \in Nat /\ debt' \in Nat /\ stale' \in BOOLEAN /\ ran' \in BOOLEAN
  BY <1>0, <1>w DEF WriteRecorded
<1>3. CASE UNCHANGED rcntVars
  BY <1>3 DEF RcntTypeOK, rcntVars, settings, event, history
<1>4. ASSUME NEW value \in Values, WriteCount(value) PROVE RcntTypeOK'
  <2>1. /\ Count' = value /\ IsFutureTarget' = FALSE /\ UNCHANGED settings
        /\ Schedule(value, Target, mode, Rate, pending) /\ WriteRecorded
    BY <1>4 DEF WriteCount
  <2>2. value \in 0..Wrap-1
    BY <1>1
  <2>3. scheduled' \in BOOLEAN /\ due' \in Int /\ cyclepass' \in 0..(Word \div One) - 1
    BY <1>0, <2>1, <2>2, ScheduleTyped
  <2> QED  BY <1>0, <1>w, <2>1, <2>2, <2>3 DEF RcntTypeOK, settings
<1>5. ASSUME NEW value \in Values, WriteTarget(value) PROVE RcntTypeOK'
  <2>1. /\ Target' = value /\ UNCHANGED <<mode, Rate>> /\ WriteRecorded
        /\ Count' = IF scheduled THEN (Count + Counts(cyclepass + pending)) % Wrap ELSE Count
        /\ IsFutureTarget' = (value <= Count')
        /\ Schedule(Count', value, mode, Rate, pending)
    BY <1>5 DEF WriteTarget
  <2>2. value \in 0..Wrap-1
    BY <1>1
  <2>3. Counts(cyclepass + pending) \in Int
    <3>1. cyclepass + pending \in Int /\ (cyclepass + pending) * One \in Int
      BY <1>0, <1>1
    <3>2. ((cyclepass + pending) * One) % Word \in Int
      BY <3>1, Constants, Division
    <3>3. Rate \in Nat \ {0}
      BY <1>0, <1>1
    <3> QED  BY <3>2, <3>3, Division DEF Counts
  <2>4. PICK c \in 0..Wrap-1 : c = Count'
    <3>1. Count + Counts(cyclepass + pending) \in Int
      BY <1>0, <2>3
    <3> QED  BY <1>0, <1>2, <2>1, <3>1
  <2>5. Schedule(c, value, mode, Rate, pending)
    BY <2>1, <2>4
  <2>6. scheduled' \in BOOLEAN /\ due' \in Int /\ cyclepass' \in 0..(Word \div One) - 1
    BY <1>0, <2>2, <2>5, ScheduleTyped
  <2>7. IsFutureTarget' \in BOOLEAN
    BY <2>1
  <2> QED  BY <1>0, <1>w, <2>1, <2>2, <2>4, <2>6, <2>7 DEF RcntTypeOK
<1>6. ASSUME NEW m \in Modes, NEW rate \in Rates, WriteMode(m, rate) PROVE RcntTypeOK'
  <2>1. /\ mode' = m /\ Rate' = rate /\ Target' = Target /\ WriteRecorded
        /\ Count' = (IF m.Reset THEN 0 ELSE Count) /\ IsFutureTarget' = FALSE
        /\ Schedule(Count', Target, m, rate, pending)
    BY <1>6 DEF WriteMode
  <2>2. PICK c \in 0..Wrap-1 : c = Count'
    BY <1>0, <1>1, <2>1
  <2>3. m \in Mode /\ rate \in Rates \union {One}
    BY <1>1
  <2>4. Schedule(c, Target, m, rate, pending)
    BY <2>1, <2>2
  <2>5. scheduled' \in BOOLEAN /\ due' \in Int /\ cyclepass' \in 0..(Word \div One) - 1
    BY <1>0, <2>3, <2>4, ScheduleTyped
  <2> QED  BY <1>0, <1>w, <2>1, <2>2, <2>3, <2>5 DEF RcntTypeOK
<1>7. CASE Cycle
  <2>1. pending' \in Nat
    BY <1>0, <1>7 DEF Cycle
  <2> QED  BY <1>0, <1>7, <2>1 DEF Cycle, RcntTypeOK, settings, event, history
<1>8. ASSUME NEW cycles \in 1..MaxPending, OtherEvent(cycles) PROVE RcntTypeOK'
  <2>1. cycles \in Nat /\ cyclepass + cycles \in Int
    BY <1>0, <1>1
  <2>2. /\ cyclepass' = Passed(cycles) /\ pending' = pending - cycles /\ cycles <= pending
        /\ due' = (IF scheduled THEN due - cycles ELSE due)
        /\ UNCHANGED <<Count, settings, IsFutureTarget, scheduled, history>>
    BY <1>8 DEF OtherEvent
  <2>3. cyclepass' \in 0..(Word \div One) - 1
    BY <2>1, <2>2, PassedIs DEF Passed
  <2>4. pending' \in Nat /\ due' \in Int
    BY <1>0, <2>1, <2>2
  <2> QED  BY <1>0, <2>2, <2>3, <2>4 DEF RcntTypeOK, settings, history
<1>9. CASE Update
  <2>1. Count' \in 0..Wrap-1
    BY <1>0, <1>1, <1>9 DEF Update, CountAfter, AtTarget, Hit, Mode
  <2>2. /\ pending >= due /\ pending' = pending - due /\ debt' = 0
        /\ stale' = FALSE /\ ran' = TRUE /\ UNCHANGED settings
        /\ IsFutureTarget' \in BOOLEAN
    BY <1>0, <1>9 DEF Update
  <2>3. pending' \in Nat
    BY <1>0, <2>2
  <2>4. PICK c \in 0..Wrap-1 : c = Count'
    BY <2>1
  <2> DEFINE goal == IF mode.Tar THEN Target ELSE Wrap
             cycles == ScaleByRate(goal - c, Rate)
  <2>5. cycles \in Int
    <3>1. goal - c \in Int /\ Rate \in Int
      BY <1>0, <1>1
    <3> QED  BY <3>1, Scaled
  <2>6. \/ /\ cyclepass' = 0
           /\ scheduled' \in BOOLEAN
           /\ (due' = cycles \/ due' = 0)
        \/ cyclepass' = Passed(due) /\ scheduled' = FALSE /\ due' = 0
    BY <1>9, <2>4 DEF Update
  <2> HIDE DEF cycles
  <2>7. Passed(due) \in 0..(Word \div One) - 1 /\ 0 \in 0..(Word \div One) - 1
    <3>1. cyclepass + due \in Int
      BY <1>0
    <3> QED  BY <1>1, <3>1, PassedIs DEF Passed
  <2>8. cyclepass' \in 0..(Word \div One) - 1 /\ scheduled' \in BOOLEAN /\ due' \in Int
    <3>1. CASE cyclepass' = 0 /\ scheduled' \in BOOLEAN /\ (due' = cycles \/ due' = 0)
      BY <2>5, <2>7, <3>1
    <3>2. CASE cyclepass' = Passed(due) /\ scheduled' = FALSE /\ due' = 0
      <4>1. cyclepass' \in 0..(Word \div One) - 1 /\ scheduled' \in BOOLEAN
        BY <2>7, <3>2, Zenon
      <4>2. due' \in Int
        BY <3>2
      <4> QED  BY <4>1, <4>2
    <3> QED  BY <2>6, <3>1, <3>2
  <2> QED  BY <1>0, <2>1, <2>2, <2>3, <2>8 DEF RcntTypeOK, settings
<1> QED
  BY <1>3, <1>4, <1>5, <1>6, <1>7, <1>8, <1>9 DEF RcntNext, GuestWrites

(* What the two ways of telling the time have in common: when the event    *)
(* comes, as many cycles have passed, modulo what fits a word, as the      *)
(* count needs to its goal, and those that were pending at the last write. *)
ArrivalKept ==
  scheduled /\ ~stale =>
    (cyclepass + due - debt - ScaleByRate(Goal - Count, Rate)) % (Word \div One) = 0

LEMMA DistanceTyped ==
  ASSUME RcntTypeOK'
  PROVE  \E d, r \in Int : d = Goal' - Count' /\ r = Rate'
<1>1. Wrap \in Nat /\ One \in Nat \ {0} /\ Rates \subseteq Nat \ {0}
  BY Constants, CountersAssumption
<1>2. Count' \in 0..Wrap-1 /\ Target' \in 0..Wrap-1 /\ Rate' \in Rates \union {One}
  BY DEF RcntTypeOK
<1>3. Goal' = (IF mode'.Tar THEN Target' ELSE Wrap)
  BY DEF Goal
<1>4. Goal' \in Int
  BY <1>1, <1>2, <1>3
<1>5. PICK g \in Int, c \in Int, r \in Int : g = Goal' /\ c = Count' /\ r = Rate'
  BY <1>1, <1>2, <1>4
<1>6. g - c \in Int
  OBVIOUS
<1> QED  BY <1>5, <1>6

LEMMA RcntStartsOnTime == RcntInit => ArrivalKept
  BY DEF RcntInit, ArrivalKept

(* A write that schedules does so by the count and the goal it leaves.     *)
LEMMA ScheduleArrives ==
  ASSUME RcntTypeOK, RcntTypeOK', WriteRecorded,
         Schedule(Count', Target', mode', Rate', pending)
  PROVE  ArrivalKept'
<1>1. PICK s : s = ScaleByRate((IF mode'.Tar THEN Target' ELSE Wrap) - Count', Rate')
  OBVIOUS
<1>2. s = ScaleByRate(Goal - Count, Rate)'
  BY <1>1 DEF Goal, ScaleByRate
<1>3. /\ cyclepass' = 0 /\ debt' = pending /\ stale' = (scheduled /\ due' = due)
      /\ (scheduled' = TRUE /\ due' = pending + s) \/ UNCHANGED event
  BY <1>1 DEF Schedule, WriteRecorded
<1>4. pending \in Int /\ s \in Int
  <2>1. pending \in Int
    BY CounterTypes
  <2>2. PICK d \in Int, r \in Int : d = Goal' - Count' /\ r = Rate'
    BY DistanceTyped
  <2>3. ScaleByRate(d, r) \in Int
    BY Scaled
  <2>4. s = ScaleByRate(d, r)
    BY <1>2, <2>2 DEF ScaleByRate
  <2> QED  BY <2>1, <2>3, <2>4
<1>5. SUFFICES ASSUME scheduled', ~stale'
               PROVE  (cyclepass' + due' - debt' - s) % (Word \div One) = 0
  BY <1>2 DEF ArrivalKept
<1>6. ~UNCHANGED event
  BY <1>3, <1>5 DEF event
<1>7. cyclepass' + due' - debt' - s = 0
  BY <1>3, <1>4, <1>6
<1>8. 0 % (Word \div One) = 0
  <2>1. PICK w \in Nat \ {0} : w = Word \div One
    BY Constants
  <2>2. 0 = w * 0 + 0 /\ 0 < w
    BY <2>1
  <2>3. 0 % w = 0
    BY <2>2, DivisionIsUnique
  <2> QED  BY <2>1, <2>3
<1> QED  BY <1>7, <1>8

LEMMA RcntKeepsTime ==
  ASSUME RcntTypeOK, RcntTypeOK', ArrivalKept, [RcntNext]_rcntVars
  PROVE  ArrivalKept'
<1>1. CASE UNCHANGED rcntVars
  BY <1>1 DEF rcntVars, settings, event, history, ArrivalKept, Goal, ScaleByRate
<1>2. ASSUME NEW value \in Values, WriteCount(value) PROVE ArrivalKept'
  <2>1. WriteRecorded /\ Schedule(Count', Target', mode', Rate', pending)
    BY <1>2 DEF WriteCount, settings
  <2> QED  BY <2>1, ScheduleArrives
<1>3. ASSUME NEW value \in Values, WriteTarget(value) PROVE ArrivalKept'
  <2>1. WriteRecorded /\ Schedule(Count', Target', mode', Rate', pending)
    BY <1>3 DEF WriteTarget
  <2> QED  BY <2>1, ScheduleArrives
<1>4. ASSUME NEW m \in Modes, NEW rate \in Rates, WriteMode(m, rate) PROVE ArrivalKept'
  <2>1. WriteRecorded /\ Schedule(Count', Target', mode', Rate', pending)
    BY <1>4 DEF WriteMode
  <2> QED  BY <2>1, ScheduleArrives
<1>5. CASE Cycle
  BY <1>5 DEF Cycle, settings, event, history, ArrivalKept, Goal, ScaleByRate
<1>6. ASSUME NEW cycles \in 1..MaxPending, OtherEvent(cycles) PROVE ArrivalKept'
  <2>1. /\ cyclepass' = Passed(cycles)
        /\ due' = (IF scheduled THEN due - cycles ELSE due)
        /\ UNCHANGED <<Count, Target, mode, Rate, scheduled, debt, stale>>
    BY <1>6 DEF OtherEvent, settings, history
  <2>2. PICK s \in Int : s = ScaleByRate(Goal - Count, Rate)
    <3>1. Goal - Count \in Int /\ Rate \in Int
      BY CounterTypes
    <3> QED  BY <3>1, Scaled
  <2>3. s = ScaleByRate(Goal - Count, Rate)'
    BY <2>1, <2>2 DEF Goal, ScaleByRate
  <2>4. SUFFICES ASSUME scheduled', ~stale'
                 PROVE  (cyclepass' + due' - debt' - s) % (Word \div One) = 0
    BY <2>3 DEF ArrivalKept
  <2>5. PICK w \in Nat \ {0} : w = Word \div One
    BY Constants
  <2>6. PICK a \in Int : a = cyclepass + due - debt - s
    BY CounterTypes
  <2>7. a % w = 0
    BY <2>1, <2>2, <2>4, <2>5, <2>6 DEF ArrivalKept
  <2>8. cyclepass \in Int /\ cycles \in Int /\ due \in Int /\ debt \in Int
    BY CounterTypes
  <2>9. PICK k \in Int : cyclepass' = cyclepass + cycles + w * k
    <3>1. cyclepass + cycles \in Int
      BY <2>8
    <3> QED  BY <2>1, <2>5, <3>1, PassedIs DEF Passed
  <2>10. cyclepass' + due' - debt' - s = a + w * k
    <3>1. due' = due - cycles /\ debt' = debt
      BY <2>1, <2>4
    <3>2. w * k \in Int
      BY <2>5
    <3> QED  BY <2>6, <2>8, <2>9, <3>1, <3>2
  <2>11. (a + w * k) % w = 0
    BY <2>7, Shifted
  <2> QED  BY <2>5, <2>10, <2>11
<1>7. CASE Update
  <2>1. PICK s : s = ScaleByRate((IF mode.Tar THEN Target ELSE Wrap) - Count', Rate)
    OBVIOUS
  <2>2. UNCHANGED settings /\ debt' = 0
    BY <1>7 DEF Update
  <2>3. s = ScaleByRate(Goal - Count, Rate)'
    BY <2>1, <2>2 DEF Goal, ScaleByRate, settings
  <2>4. scheduled' => cyclepass' = 0 /\ due' = s
    BY <1>7, <2>1 DEF Update
  <2>5. s \in Int
    <3>1. PICK d \in Int, r \in Int : d = Goal' - Count' /\ r = Rate'
      BY DistanceTyped
    <3>2. s = ScaleByRate(d, r)
      BY <2>3, <3>1 DEF ScaleByRate
    <3> QED  BY <3>2, Scaled
  <2>6. SUFFICES ASSUME scheduled'
                 PROVE  (cyclepass' + due' - debt' - s) % (Word \div One) = 0
    BY <2>3 DEF ArrivalKept
  <2>7. cyclepass' + due' - debt' - s = 0
    BY <2>2, <2>4, <2>5, <2>6
  <2>8. 0 % (Word \div One) = 0
    <3>1. PICK w \in Nat \ {0} : w = Word \div One
      BY Constants
    <3>2. 0 = w * 0 + 0 /\ 0 < w
      BY <3>1
    <3>3. 0 % w = 0
      BY <3>2, DivisionIsUnique
    <3> QED  BY <3>1, <3>3
  <2> QED  BY <2>7, <2>8
<1> QED
  BY <1>1, <1>2, <1>3, <1>4, <1>5, <1>6, <1>7 DEF RcntNext, GuestWrites

LEMMA ExactRate ==
  ASSUME RcntTypeOK, Exact
  PROVE  /\ Rate \in Nat \ {0} /\ Word % (Rate * Wrap) = 0
         /\ One <= Rate * (Wrap - 1)
         /\ (Rate >= One \/ 2 * Rate = One)
<1>1. Rate \in Rates \union {One} /\ Rate \in Nat \ {0}
  BY Constants, CountersAssumption DEF RcntTypeOK
<1>2. Word % (Rate * Wrap) = 0
  BY DEF Exact
<1> QED  BY <1>1, <1>2, CountersAssumption

(* The difference of two readings is the difference of what they read.     *)
LEMMA ReadingsDiffer ==
  ASSUME NEW a \in Int, NEW b \in Int, NEW i \in Int, NEW j \in Int,
         NEW x \in 0..Wrap-1, b - a = x
  PROVE  (((b + Wrap * j) % Wrap) - ((a + Wrap * i) % Wrap)) % Wrap = x
<1>1. (b + Wrap * j) % Wrap = b % Wrap /\ (a + Wrap * i) % Wrap = a % Wrap
  BY Constants, Shifted
<1>2. PICK q \in Int, s \in Int : b = Wrap * q + s /\ s = b % Wrap
  BY Constants, Division
<1>3. PICK p \in Int, t \in Int : a = Wrap * p + t /\ t = a % Wrap
  BY Constants, Division
<1>4. s - t = Wrap * (p - q) + x
  <2>1. Wrap * q \in Int /\ Wrap * p \in Int /\ Wrap * (p - q) = Wrap * p - Wrap * q
    BY Constants, Product
  <2> QED  BY <1>2, <1>3, <2>1
<1>5. s - t \in Int /\ p - q \in Int /\ x \in Int /\ 0 <= x /\ x < Wrap
  BY Constants
<1>6. (s - t) % Wrap = x
  BY <1>4, <1>5, Constants, DivisionIsUnique
<1> QED  BY <1>1, <1>2, <1>3, <1>6

LEMMA CycleAdvances ==
  ASSUME RcntTypeOK, Exact, Cycle, ~mode.Stop
  PROVE  Advance \in PerCycle
<1>1. PICK r \in Nat \ {0} : /\ r = Rate /\ Word % (r * Wrap) = 0
                             /\ One <= r * (Wrap - 1)
  BY ExactRate
<1>2. PICK c \in Int : c = cyclepass + pending
  BY CounterTypes
<1>3. PICK k \in Int : k = Count
  BY CounterTypes
<1>4. One \in Nat /\ One \in Int /\ Wrap \in Nat /\ c * One \in Int /\ c + 1 \in Int
  BY Constants
<1>5. /\ pending' = pending + 1
      /\ UNCHANGED <<Count, Target, mode, Rate, cyclepass>>
  BY DEF Cycle, settings
<1>6. cyclepass' + pending' = c + 1
  BY <1>2, <1>5, CounterTypes
<1>7. PICK i \in Int : CountsAt(c, r) = ((c * One) \div r) + Wrap * i
  BY <1>1, CountsAreExact
<1>8. PICK j \in Int : CountsAt(c + 1, r) = (((c + 1) * One) \div r) + Wrap * j
  BY <1>1, <1>4, CountsAreExact
<1>9. PICK a \in Int : a = c * One
  BY <1>4
<1>10. (c + 1) * One = a + One
  BY <1>4, <1>9
<1>11. PICK x \in Int, y \in Int : x = a \div r /\ y = (a + One) \div r
  <2>1. a + One \in Int
    BY <1>4
  <2> QED  BY <2>1, Division
<1>12. /\ y - x \in {One \div r, (One + r - 1) \div r}
       /\ One \div r >= 0 /\ (One + r - 1) \div r >= 0
       /\ One \div r < Wrap /\ (One + r - 1) \div r < Wrap
  BY <1>1, <1>4, <1>11, QuotientSteps
<1>13. PICK z \in 0..Wrap-1 : z = y - x
  <2>1. 0 <= y - x /\ y - x < Wrap
    BY <1>12
  <2> QED  BY <1>4, <2>1
<1>14. ReadCount = ((k + x) + Wrap * i) % Wrap
  <2>1. Counts(cyclepass + pending) = x + Wrap * i
    BY <1>1, <1>2, <1>7, <1>9, <1>11 DEF Counts, CountsAt
  <2>2. ReadCount = (k + (x + Wrap * i)) % Wrap
    BY <1>3, <2>1 DEF ReadCount
  <2>3. k + (x + Wrap * i) = (k + x) + Wrap * i
    BY <1>4
  <2> QED  BY <2>2, <2>3
<1>15. ReadCount' = ((k + y) + Wrap * j) % Wrap
  <2>1. Counts(cyclepass + pending)' = y + Wrap * j
    <3>1. Counts(cyclepass + pending)' = CountsAt(c + 1, r)
      BY <1>1, <1>5, <1>6 DEF Counts, CountsAt
    <3> QED  BY <1>8, <1>10, <1>11, <3>1
  <2>2. ReadCount' = (k + (y + Wrap * j)) % Wrap
    BY <1>3, <1>5, <2>1 DEF ReadCount
  <2>3. k + (y + Wrap * j) = (k + y) + Wrap * j
    BY <1>4
  <2> QED  BY <2>2, <2>3
<1>16. (ReadCount' - ReadCount) % Wrap = z
  <2>1. k + x \in Int /\ k + y \in Int /\ (k + y) - (k + x) = z
    BY <1>13
  <2>2. ((((k + y) + Wrap * j) % Wrap) - (((k + x) + Wrap * i) % Wrap)) % Wrap = z
    BY <2>1, ReadingsDiffer
  <2> QED  BY <1>14, <1>15, <2>2
<1> QED  BY <1>1, <1>12, <1>13, <1>16 DEF Advance, PerCycle

LEMMA NothingIsNoAdvance ==
  ASSUME NEW a \in Int
  PROVE  (a - a) % Wrap = 0
<1>1. a - a = Wrap * 0 + 0 /\ 0 < Wrap /\ a - a \in Int
  BY Constants
<1> QED  BY <1>1, Constants, DivisionIsUnique

LEMMA OtherEventAdvancesNothing ==
  ASSUME RcntTypeOK, NEW cycles \in 1..MaxPending, OtherEvent(cycles)
  PROVE  Advance = 0
<1>1. /\ cyclepass' = Passed(cycles) /\ pending' = pending - cycles
      /\ UNCHANGED <<Count, Target, mode, Rate>>
  BY DEF OtherEvent, settings
<1>2. PICK w \in Int : w = Word \div One
  BY Constants
<1>3. PICK c \in Int : c = cyclepass + pending
  BY CounterTypes
<1>4. cyclepass \in Int /\ pending \in Int /\ cycles \in Int
  BY CounterTypes
<1>5. PICK k \in Int : cyclepass' = cyclepass + cycles + w * k
  <2>1. cyclepass + cycles \in Int
    BY <1>4
  <2> QED  BY <1>1, <1>2, <2>1, PassedIs DEF Passed
<1>6. cyclepass' + pending' = c + w * k
  <2>1. w * k \in Int
    OBVIOUS
  <2> QED  BY <1>1, <1>3, <1>4, <1>5, <2>1
<1>7. CountsAt(c + w * k, Rate) = CountsAt(c, Rate)
  BY <1>2, CountsWrap
<1>8. Counts(cyclepass + pending)' = Counts(cyclepass + pending)
  BY <1>1, <1>3, <1>6, <1>7 DEF Counts, CountsAt
<1>9. ReadCount' = ReadCount
  BY <1>1, <1>8 DEF ReadCount
<1>10. ReadCount \in Int
  <2>1. Counts(cyclepass + pending) \in Int
    <3>1. PICK r \in Nat \ {0} : r = Rate
      BY CounterTypes
    <3>2. c * One \in Int
      BY Constants
    <3>3. (c * One) % Word \in Int
      BY <3>2, Constants, Division
    <3>4. ((c * One) % Word) \div r \in Int
      BY <3>3, Division
    <3> QED  BY <1>3, <3>1, <3>4 DEF Counts
  <2>2. Count + Counts(cyclepass + pending) \in Int /\ Count \in Int
    BY <2>1, CounterTypes
  <2>3. (Count + Counts(cyclepass + pending)) % Wrap \in Int
    BY <2>2, Constants, Division
  <2> QED  BY <2>2, <2>3 DEF ReadCount
<1> QED  BY <1>9, <1>10, NothingIsNoAdvance DEF Advance

-----------------------------------------------------------------------------
(* What the shift of a scaled distance cuts off is at most a count.        *)
LEMMA CutOff ==
  ASSUME NEW d \in Int, NEW r \in Nat \ {0}, r >= One \/ 2 * r = One
  PROVE  \E e \in Int, i \in Int :
           /\ 0 <= e /\ e <= r
           /\ One * ScaleByRate(d, r) = d * r - e + Word * i
<1>1. PICK x \in Int : x = d * r
  OBVIOUS
<1>2. PICK i \in Int, y \in Int : y = x % Word /\ x = Word * i + y
  <2>1. PICK w \in Nat \ {0} : w = Word
    BY Constants
  <2>2. x \div w \in Int /\ x % w \in Int /\ x = w * (x \div w) + (x % w)
    BY Division
  <2> QED  BY <2>1, <2>2
<1>3. PICK s \in Int, e \in Int : /\ s = y \div One /\ y = One * s + e
                                  /\ 0 <= e /\ e < One
  BY Constants, Division
<1>4. s = ScaleByRate(d, r)
  BY <1>1, <1>2, <1>3 DEF ScaleByRate
<1>5. One * s = d * r - e + Word * (-i)
  <2>1. Word * i \in Int /\ Word * (-i) = -(Word * i) /\ One * s \in Int
    BY Constants, Product
  <2> QED  BY <1>1, <1>2, <1>3, <2>1
<1>6. CASE r >= One
  <2>1. One * ScaleByRate(d, r) = d * r - e + Word * (-i)
    BY <1>4, <1>5
  <2>2. 0 <= e /\ e <= r /\ -i \in Int
    BY <1>3, <1>6, Constants
  <2> QED  BY <2>1, <2>2
<1>7. CASE 2 * r = One
  <2>1. PICK w \in Int : Word = One * w
    BY Constants
  <2>2. y = r * (d - 2 * (w * i))
    <3>1. Word * i = r * (2 * (w * i))
      <4>1. Word = (r * 2) * w
        BY <1>7, <2>1
      <4> QED  BY <4>1, Rearranged
    <3>2. w * i \in Int /\ r \in Int /\ Word * i \in Int
      BY Constants
    <3>3. PICK g \in Int : g = 2 * (w * i)
      BY <3>2
    <3>4. r * (d - g) = r * d - r * g /\ r * d = d * r
      BY <3>2, Product
    <3>5. PICK p \in Int, q \in Int : p = r * d /\ q = r * g
      BY <3>2
    <3>6. Word * i = q /\ x = p
      BY <1>1, <3>1, <3>3, <3>4, <3>5
    <3>7. x = q + y
      BY <1>2, <3>6, Zenon
    <3>8. y = p - q
      BY <3>6, <3>7
    <3> QED  BY <3>3, <3>4, <3>5, <3>8
  <2>3. PICK m \in Int : m = d - 2 * (w * i)
    <3>1. w * i \in Int
      OBVIOUS
    <3> QED  BY <3>1
  <2>4. PICK h \in Int, b \in Int : m = 2 * h + b /\ 0 <= b /\ b < 2
    <3>1. /\ m \div 2 \in Int /\ m % 2 \in Int /\ 0 <= m % 2 /\ m % 2 < 2
          /\ m = 2 * (m \div 2) + (m % 2)
      OBVIOUS
    <3> QED  BY <3>1
  <2>5. y = One * h + r * b
    <3>1. r * (2 * h + b) = (2 * r) * h + r * b
      OBVIOUS
    <3> QED  BY <1>7, <2>2, <2>3, <2>4, <3>1
  <2>6. (b = 0 \/ b = 1) /\ (b = 0 => r * b = 0) /\ (b = 1 => r * b = r)
    BY <2>4
  <2>7. 0 <= r * b /\ r * b < One /\ r * b <= r /\ r * b \in Int
    BY <1>7, <2>6, Constants
  <2>8. e = r * b
    <3>1. y % One = r * b
      BY <2>5, <2>7, Constants, DivisionIsUnique
    <3>2. y % One = e
      BY <1>3, Constants, DivisionIsUnique
    <3> QED  BY <3>1, <3>2
  <2>9. One * ScaleByRate(d, r) = d * r - e + Word * (-i) /\ -i \in Int
    BY <1>4, <1>5
  <2> QED  BY <2>7, <2>8, <2>9
<1> QED  BY <1>6, <1>7

LEMMA UpdateIsOnTime ==
  ASSUME RcntTypeOK, ArrivalKept, scheduled, ~stale, Exact
  PROVE  \E slack \in {0, 1} :
           (Count + Counts(cyclepass + due) + slack) % Wrap = (Goal + Counts(debt)) % Wrap
<1>1. PICK r \in Nat \ {0} : /\ r = Rate /\ Word % (r * Wrap) = 0
                             /\ (r >= One \/ 2 * r = One)
  BY ExactRate
<1>2. PICK c \in Int, b \in Int, k \in Int, d \in Int :
        c = cyclepass + due /\ b = debt /\ k = Count /\ d = Goal - Count
  BY CounterTypes
<1>3. Goal = k + d /\ Goal \in Int
  BY <1>2, CounterTypes
<1>4. PICK s \in Int : s = ScaleByRate(d, r)
  BY Scaled
<1>5. PICK w \in Nat \ {0} : w = Word \div One /\ Word = One * w
  BY Constants
<1>6. PICK g \in Int : c = b + s + w * g
  <2>1. (c - b - s) % w = 0
    <3>1. s = ScaleByRate(Goal - Count, Rate)
      BY <1>1, <1>2, <1>4
    <3>2. c - b - s = cyclepass + due - debt - s
      BY <1>2, CounterTypes
    <3>3. (cyclepass + due - debt - s) % (Word \div One) = 0
      BY <3>1 DEF ArrivalKept
    <3> QED  BY <1>5, <3>2, <3>3
  <2>2. c - b - s \in Int
    OBVIOUS
  <2>3. PICK g \in Int : c - b - s = w * g + 0
    BY <2>1, <2>2, Division
  <2>4. w * g \in Int
    OBVIOUS
  <2> QED  BY <2>3, <2>4
<1>7. PICK e \in Int, i \in Int : /\ 0 <= e /\ e <= r
                                  /\ One * s = d * r - e + Word * i
  BY <1>1, <1>4, CutOff
<1>8. PICK n \in Int : Word = r * (Wrap * n)
  <2>1. PICK m \in Nat \ {0} : m = r * Wrap
    BY Constants, Product
  <2>2. PICK n \in Int : Word = (r * Wrap) * n + 0
    <3>1. Word % m = 0
      BY <1>1, <2>1
    <3>2. PICK n \in Int : n = Word \div m /\ Word = m * n + (Word % m)
      BY Constants, Division
    <3> QED  BY <2>1, <3>1, <3>2
  <2>3. (r * Wrap) * n = r * (Wrap * n) /\ (r * Wrap) * n \in Int
    BY Constants, Product
  <2> QED  BY <2>2, <2>3
<1>9. PICK a \in Int : a = b * One
  BY Constants
<1>10. c * One = (a - e) + r * (d + Wrap * (n * (i + g)))
  <2>1. One \in Int /\ Word \in Int /\ Wrap \in Int
    BY Constants
  <2>2. c * One = a + One * s + Word * g
    <3>1. (b + s + w * g) * One = b * One + One * s + (One * w) * g
      BY <2>1
    <3> QED  BY <1>5, <1>6, <1>9, <3>1
  <2>3. c * One = (a - e) + d * r + Word * (i + g)
    <3>1. Word * (i + g) = Word * i + Word * g /\ Word * i \in Int /\ Word * g \in Int
      BY <2>1, Product
    <3>2. One * s \in Int /\ d * r \in Int
      BY <2>1
    <3> QED  BY <1>7, <2>2, <3>1, <3>2
  <2>4. Word * (i + g) = r * (Wrap * (n * (i + g)))
    <3>1. PICK f \in Int : f = i + g
      OBVIOUS
    <3>2. (r * (Wrap * n)) * f = r * (Wrap * (n * f))
      BY <2>1
    <3> QED  BY <1>8, <3>1, <3>2
  <2>5. PICK h \in Int : h = Wrap * (n * (i + g))
    BY <2>1
  <2>6. r * (d + h) = r * d + r * h /\ r * d = d * r /\ r * h \in Int /\ r * d \in Int
    BY Product
  <2> QED  BY <2>3, <2>4, <2>5, <2>6
<1>11. PICK j \in Int : CountsAt(c, r) = ((c * One) \div r) + Wrap * j
  BY <1>1, CountsAreExact
<1>12. PICK l \in Int : CountsAt(b, r) = ((b * One) \div r) + Wrap * l
  BY <1>1, CountsAreExact
<1>13. PICK x \in Int, y \in Int : x = (a - e) \div r /\ y = a \div r
  <2>1. a - e \in Int
    OBVIOUS
  <2> QED  BY <2>1, Division
<1>14. PICK slack \in {0, 1} : x + slack = y
  BY <1>7, <1>13, QuotientOfLess
<1>15. PICK f \in Int : f = n * (i + g)
  OBVIOUS
<1>16. (c * One) \div r = x + (d + Wrap * f)
  <2>1. PICK h \in Int : h = d + Wrap * f
    BY Constants
  <2>2. PICK v \in Int : v = a - e
    OBVIOUS
  <2>3. (v + r * h) \div r = (v \div r) + h
    BY Shifted
  <2> QED  BY <1>10, <1>13, <1>15, <2>1, <2>2, <2>3
<1>17. Counts(cyclepass + due) = x + (d + Wrap * f) + Wrap * j
  BY <1>1, <1>2, <1>11, <1>16 DEF Counts, CountsAt
<1>18. Counts(debt) = y + Wrap * l
  BY <1>1, <1>2, <1>9, <1>12, <1>13 DEF Counts, CountsAt
<1>19. Count + Counts(cyclepass + due) + slack = (Goal + y) + Wrap * (f + j)
  <2>1. Wrap * f \in Int /\ Wrap * j \in Int /\ Wrap * (f + j) = Wrap * f + Wrap * j
    BY Constants, Product
  <2> QED  BY <1>2, <1>3, <1>14, <1>17, <2>1
<1>20. Goal + Counts(debt) = (Goal + y) + Wrap * l
  <2>1. Wrap * l \in Int
    BY Constants
  <2> QED  BY <1>3, <1>18, <2>1
<1>21. /\ ((Goal + y) + Wrap * (f + j)) % Wrap = (Goal + y) % Wrap
       /\ ((Goal + y) + Wrap * l) % Wrap = (Goal + y) % Wrap
  <2>1. PICK v \in Int : v = Goal + y
    BY <1>3
  <2>2. PICK o \in Int : o = f + j
    OBVIOUS
  <2>3. (v + Wrap * o) % Wrap = v % Wrap /\ (v + Wrap * l) % Wrap = v % Wrap
    BY Constants, Shifted
  <2> QED  BY <2>1, <2>2, <2>3
<1> QED  BY <1>19, <1>20, <1>21

-----------------------------------------------------------------------------
(* Counters keep their types through writes, events and cycles.            *)
THEOREM CounterTypeInvariance == RcntSpec => []RcntTypeOK
<1> QED  BY RcntStarts, RcntTyped, PTL DEF RcntSpec

(* An event that is not older than the last write is scheduled for the     *)
(* cycle at which the count has reached its goal, whatever other events    *)
(* came before and however the words of cycles wrapped (Schedule and       *)
(* RcntAdvanceCycles of psxcounters.cpp).                                  *)
THEOREM EventsMeetTheCount == RcntSpec => []ArrivalKept
<1>1. RcntTypeOK /\ RcntTypeOK' /\ ArrivalKept /\ [RcntNext]_rcntVars => ArrivalKept'
  BY RcntKeepsTime
<1> QED  BY <1>1, RcntStartsOnTime, CounterTypeInvariance, PTL DEF RcntSpec

(* When a counter's event interrupts, the count that ReadCount computes    *)
(* has come to the target or the overflow, to within the one count.        *)
THEOREM InterruptsAreOnTime == RcntSpec => FiresWhenReadingSays
<1>1. RcntTypeOK /\ ArrivalKept /\ [RcntNext]_rcntVars =>
        [(Update /\ Raises /\ ~stale /\ Exact) =>
           \E slack \in {0, 1} :
             (Count + Counts(cyclepass + due) + slack) % Wrap
               = (Goal + Counts(debt)) % Wrap]_rcntVars
  BY UpdateIsOnTime DEF Update
<1> QED
  BY <1>1, CounterTypeInvariance, EventsMeetTheCount, PTL DEF RcntSpec, FiresWhenReadingSays

(* Readings run on evenly: a cycle adds what a cycle should, also where a  *)
(* word or the count wraps, and another event's advance adds nothing.      *)
THEOREM ReadingsRunOn == RcntSpec => ReadingRuns
<1>1. RcntTypeOK /\ [RcntNext]_rcntVars =>
        [Exact => /\ Cycle => mode.Stop \/ Advance \in PerCycle
                  /\ (\E cycles \in 1..MaxPending : OtherEvent(cycles)) => Advance = 0]_rcntVars
  BY CycleAdvances, OtherEventAdvancesNothing
<1> QED  BY <1>1, CounterTypeInvariance, PTL DEF RcntSpec, ReadingRuns
=============================================================================
