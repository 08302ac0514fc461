------------------------------- MODULE IntC -------------------------------
(***************************************************************************)
(* The interrupt controller (I_STAT and I_MASK, src/libpcsxcore/psxhw.cpp) *)
(* with the part of the CPU that takes interrupts: CP0 Status, Cause, the  *)
(* exceptions (R3000A/r3000a.cpp, R3000A/psxinterpreter.cpp) and the       *)
(* handler of the emulated BIOS (psxbios.cpp).                             *)
(*                                                                         *)
(* An interrupt is not taken when it is raised: psxTestIntc schedules the  *)
(* Exception event, and the event's handler looks at I_STAT, I_MASK and    *)
(* Status again.  The scheduler is PsxEvents; here an event that is due    *)
(* runs in the drain a branch test starts, in any order.                   *)
(***************************************************************************)
EXTENDS Integers, Sequences

CONSTANTS
  Irqs,     \* PsxIrq
  VBlank,   \* raised once a frame by the event PsxEvt_vBlank
  Counters, \* PsxInt_RTC0..2, which the emulated BIOS acknowledges itself
  Forced    \* the bits Config.Sio and Config.SpuIrq set at every I_STAT write

ASSUME IrqsAssumption ==
  VBlank \in Irqs /\ Counters \subseteq Irqs /\ Forced \subseteq Irqs

VARIABLES
  ISTAT,   \* 0x1f801070
  IMASK,   \* 0x1f801074
  ie,      \* Status: the interrupt enable bits <<current, previous, old>>
  im,      \* Status, bit 10: the mask of the hardware interrupts
  sm,      \* Status, bits 8-9: the mask of the software interrupts
  sw,      \* Cause, bits 8-9: software interrupts requested
  evt,     \* is PsxEvt_Exception scheduled?
  phase,   \* "cpu", or "drain": in ExecutePendingEvents
  bios,    \* psxBiosException is running an interrupt's handlers
  todo,    \* the counters biosInterrupt has still to look at
  HLE,     \* Config.HLE: is the BIOS emulated?  Set before the program runs
  frames,  \* history: the enable bit at the last two exceptions
  opened   \* history: interrupts were enabled with no psxTestIntc since

vars == <<ISTAT, IMASK, ie, im, sm, sw, evt, phase, bios, todo, frames, opened>>
status == <<ie, im, sm, sw, frames>>
flow == <<phase, bios, todo>>

Pending == ISTAT \cap IMASK

-----------------------------------------------------------------------------
(* Exceptions and returns from them.                                       *)

(* Variant: RFE shifts one level too few.                                  *)
PopTwice(e) == <<e[3], e[3], e[3]>>

Push(e) == <<FALSE, e[1], e[2]>>
Pop(e)  == <<e[2], e[3], e[3]>>

Latest(s) == SubSeq(s, 1, IF Len(s) < 2 THEN Len(s) ELSE 2)
Rest(s)   == IF s = <<>> THEN s ELSE Tail(s)

(* psxException: Cause is overwritten with the exception's code.           *)
psxException(code) ==
  /\ sw' = (code = "software" /\ sw)
  /\ ie' = Push(ie)
  /\ frames' = Latest(<<ie[1]>> \o frames)

-----------------------------------------------------------------------------
(* The controller's registers.                                             *)

(* Variant: only a change of I_STAT is tested.                             *)
psxTestIntcOnChange ==
  /\ evt' = (evt \/ (ISTAT' \cap IMASK' # {} /\ <<ISTAT, IMASK>>' # <<ISTAT, IMASK>>))
  /\ opened' = FALSE

(* Variant: a write of I_MASK or Status does not test.                     *)
NoTest == UNCHANGED <<evt, opened>>

psxTestIntc ==
  /\ evt' = (evt \/ ISTAT' \cap IMASK' # {})
  /\ opened' = FALSE

psxRaiseExtInt(irq) ==
  /\ ISTAT' = ISTAT \union {irq}
  /\ UNCHANGED IMASK
  /\ psxTestIntc

Written(value) == (ISTAT \union Forced) \cap IMASK \cap value

(* Stores to I_STAT and I_MASK.                                            *)
WriteISTAT(value) ==
  /\ phase = "cpu"
  /\ ISTAT' = Written(value)
  /\ opened' = (opened \/ Written(value) \ ISTAT # {})
  /\ UNCHANGED <<IMASK, evt, status, flow>>

WriteIMASK(value) ==
  /\ phase = "cpu"
  /\ IMASK' = value /\ UNCHANGED ISTAT
  /\ psxTestIntc
  /\ UNCHANGED <<status, flow>>

(* psxHwWrite8 knows neither register: a byte is stored as it is, and      *)
(* nothing is tested.  The interrupts are those of the byte's bits.        *)
WriteByteISTAT(value) ==
  /\ phase = "cpu"
  /\ ISTAT' = value
  /\ opened' = (opened \/ value \ ISTAT # {})
  /\ UNCHANGED <<IMASK, evt, status, flow>>

WriteByteIMASK(value) ==
  /\ phase = "cpu"
  /\ IMASK' = value
  /\ opened' = (opened \/ value \ IMASK # {})
  /\ UNCHANGED <<ISTAT, evt, status, flow>>

(* A device raises an interrupt from a guest store or from its event.      *)
DeviceRaises(irq) ==
  /\ irq # VBlank
  /\ psxRaiseExtInt(irq)
  /\ UNCHANGED <<status, flow>>

VBlankEvent ==
  /\ phase = "drain"
  /\ psxRaiseExtInt(VBlank)
  /\ UNCHANGED <<status, flow>>

(* psxDmaInterrupt(0) also sets bit 9 of Cause, a software interrupt.      *)
DmaSetsCause ==
  /\ sw' = TRUE
  /\ UNCHANGED <<ISTAT, IMASK, ie, im, sm, evt, flow, frames, opened>>

-----------------------------------------------------------------------------
(* Instructions of the guest, in its main program or in a handler.         *)

SoftwareInterrupt == sw /\ sm /\ ie[1]

(* The guest code that the emulated BIOS calls must leave interrupts off:  *)
(* SaveRegs keeps the interrupted registers in one static array.           *)
MayEnable(enable) == bios => ~enable

(* MTC0 to Status: the tests come before the write, which then overwrites  *)
(* what a software interrupt did to Status.  Here and in MTC0 to Cause the *)
(* program of an emulated BIOS has no software interrupt due: there        *)
(* psxTestSWInts would run the handler of whatever exception came last, in *)
(* the middle of the instruction.                                          *)
MTC0Status(enables, hw, soft) ==
  /\ phase = "cpu" /\ MayEnable(enables[1])
  /\ SoftwareInterrupt => ~HLE
  /\ sw' = sw
  /\ ie' = enables /\ im' = hw /\ sm' = soft
  /\ frames' = <<>>
  /\ UNCHANGED <<ISTAT, IMASK>>
  /\ psxTestIntc
  /\ UNCHANGED flow

(* MTC0 to Cause: the old value is tested.                                 *)
MTC0Cause(value) ==
  /\ phase = "cpu"
  /\ sw' = value
  /\ IF SoftwareInterrupt
     THEN ~HLE /\ ie' = Push(ie) /\ frames' = Latest(<<ie[1]>> \o frames)
     ELSE UNCHANGED <<ie, frames>>
  /\ UNCHANGED <<ISTAT, IMASK, im, sm, evt, opened, flow>>

Return ==
  /\ ie' = Pop(ie) /\ frames' = Rest(frames)
  /\ opened' = (opened \/ ie'[1])

(* RFE, or ReturnFromException of the emulated BIOS.                       *)
RFE ==
  /\ phase = "cpu" /\ MayEnable(ie[2])
  /\ Return
  /\ UNCHANGED <<ISTAT, IMASK, im, sm, sw, evt, flow>>

(* SYSCALL with a BIOS image: its code goes on from there.                 *)
Syscall ==
  /\ phase = "cpu" /\ ~HLE
  /\ psxException("syscall")
  /\ UNCHANGED <<ISTAT, IMASK, im, sm, evt, opened, flow>>

(* Syscall 1 and 2 of the emulated BIOS: exception, change of the mask and *)
(* the previous enable bit, return.                                        *)
Critical(enable) ==
  /\ phase = "cpu" /\ HLE /\ MayEnable(enable)
  /\ im' = enable
  /\ ie' = Pop([Push(ie) EXCEPT ![2] = enable])
  /\ opened' = (opened \/ enable)
  /\ sw' = FALSE /\ frames' = <<>>
  /\ UNCHANGED <<ISTAT, IMASK, sm, evt, flow>>

(* StartRCnt and StopRCnt, which take the vertical blank for a fourth root *)
(* counter, change I_MASK without psxTestIntc; StartPAD goes through the   *)
(* register.                                                               *)
StartRCnt(irq) ==
  /\ phase = "cpu" /\ HLE
  /\ IMASK' = IMASK \union {irq}
  /\ opened' = TRUE
  /\ UNCHANGED <<ISTAT, evt, status, flow>>

StopRCnt(irq) ==
  /\ phase = "cpu" /\ HLE
  /\ IMASK' = IMASK \ {irq}
  /\ UNCHANGED <<ISTAT, evt, status, flow, opened>>

StartPAD ==
  /\ phase = "cpu" /\ HLE /\ ~bios
  /\ IMASK' = IMASK \union {VBlank} /\ UNCHANGED ISTAT
  /\ psxTestIntc
  /\ im' = TRUE /\ ie' = [ie EXCEPT ![1] = TRUE] /\ frames' = <<>>
  /\ UNCHANGED <<sm, sw, flow>>

-----------------------------------------------------------------------------
(* The drain.                                                              *)

BranchTest ==
  /\ phase = "cpu"
  /\ phase' = "drain"
  /\ UNCHANGED <<ISTAT, IMASK, status, evt, bios, todo, opened>>

Deliverable == im /\ ie[1] /\ Pending # {}

(* _evthandler_Exception: test again, then psxException(0x400, 0), which   *)
(* runs the handlers if the BIOS is emulated.                              *)
TakeInterrupt ==
  /\ psxException("hardware")
  /\ IF HLE THEN phase' = "cpu" /\ bios' = TRUE /\ todo' = Counters
            ELSE UNCHANGED flow

ExecuteException ==
  /\ phase = "drain" /\ evt
  /\ evt' = FALSE
  /\ IF Deliverable THEN TakeInterrupt ELSE UNCHANGED <<ie, sw, frames, flow>>
  /\ UNCHANGED <<ISTAT, IMASK, im, sm, opened>>

(* Everything that is due has run.                                         *)
EndDrain ==
  /\ phase = "drain" /\ ~evt
  /\ phase' = "cpu"
  /\ UNCHANGED <<ISTAT, IMASK, status, evt, bios, todo, opened>>

(* biosInterrupt looks at one counter and acknowledges it.                 *)
BiosCounter(irq) ==
  /\ phase = "cpu" /\ bios /\ irq \in todo
  /\ todo' = todo \ {irq}
  /\ ISTAT' = IF irq \in ISTAT THEN Written(Irqs \ {irq}) ELSE ISTAT
  /\ opened' = (opened \/ ISTAT' \ ISTAT # {})
  /\ UNCHANGED <<IMASK, status, evt, phase, bios>>

LeaveBios == phase = "cpu" /\ bios /\ todo = {} /\ bios' = FALSE /\ phase' = "drain"

(* The end of psxBiosException.                                            *)
BiosReturn ==
  /\ LeaveBios
  /\ ISTAT' = {}
  /\ Return
  /\ UNCHANGED <<IMASK, im, sm, sw, evt, todo>>

(* With an entry hook: the hook calls ReturnFromException later.           *)
BiosHook ==
  /\ LeaveBios
  /\ ISTAT' = Written(Irqs)
  /\ opened' = (opened \/ ISTAT' \ ISTAT # {})
  /\ UNCHANGED <<IMASK, status, evt, todo>>

-----------------------------------------------------------------------------
(* psxReset: Status = 0x10900000.                                          *)
Init ==
  /\ ISTAT = {} /\ IMASK = {}
  /\ ie = <<FALSE, FALSE, FALSE>> /\ im = FALSE /\ sm = FALSE /\ sw = FALSE
  /\ evt = FALSE /\ phase = "cpu" /\ bios = FALSE /\ todo = {}
  /\ HLE \in BOOLEAN
  /\ frames = <<>> /\ opened = FALSE

Guest ==
  \/ \E value \in SUBSET Irqs : \/ WriteISTAT(value) \/ WriteIMASK(value)
                                \/ WriteByteISTAT(value) \/ WriteByteIMASK(value)
  \/ \E enables \in [1..3 -> BOOLEAN], hw, soft \in BOOLEAN : MTC0Status(enables, hw, soft)
  \/ \E value \in BOOLEAN : MTC0Cause(value) \/ Critical(value)
  \/ RFE \/ Syscall \/ StartPAD
  \/ \E irq \in Counters \union {VBlank} : StartRCnt(irq) \/ StopRCnt(irq)

Step ==
  \/ Guest \/ BranchTest \/ ExecuteException \/ EndDrain
  \/ VBlankEvent \/ DmaSetsCause
  \/ \E irq \in Irqs : DeviceRaises(irq) \/ BiosCounter(irq)
  \/ BiosReturn \/ BiosHook

Next == Step /\ UNCHANGED HLE

Spec == Init /\ [][Next]_<<vars, HLE>>

(* The CPU reaches branches, a drain ends, the BIOS's handlers return, and *)
(* the vertical blank comes round again and again: its event reschedules   *)
(* itself, so some drains run it.                                          *)
Fairness ==
  /\ WF_vars(BranchTest) /\ WF_vars(ExecuteException) /\ WF_vars(EndDrain)
  /\ WF_vars(\E irq \in Irqs : BiosCounter(irq)) /\ WF_vars(BiosReturn \/ BiosHook)
  /\ SF_vars(VBlankEvent)

FairSpec == Spec /\ Fairness

-----------------------------------------------------------------------------
(* The type invariant.                                                     *)
TypeOK ==
  /\ ISTAT \subseteq Irqs /\ IMASK \subseteq Irqs
  /\ ie \in [1..3 -> BOOLEAN] /\ im \in BOOLEAN /\ sm \in BOOLEAN /\ sw \in BOOLEAN
  /\ evt \in BOOLEAN /\ phase \in {"cpu", "drain"} /\ bios \in BOOLEAN
  /\ todo \subseteq Counters /\ HLE \in BOOLEAN
  /\ frames \in Seq(BOOLEAN) /\ Len(frames) <= 2
  /\ opened \in BOOLEAN

(* Whenever an interrupt could be taken, the Exception event is scheduled, *)
(* unless RFE, a BIOS call that writes Status or I_MASK itself, an 8-bit   *)
(* store, or a bit Config forces made it possible: none of those calls     *)
(* psxTestIntc.                                                            *)
WakeUpKept == Deliverable => evt \/ opened

(* The stack of enable bits in Status holds those of the code that the     *)
(* last two exceptions interrupted.                                        *)
SavedEnable == \A i \in 1..Len(frames) : frames[i] = ie[i+1]

(* A return from an exception restores the enable bit of the code that was *)
(* interrupted, two exceptions deep, unless the guest wrote Status itself. *)
RestoresInterruptEnable ==
  [][(RFE \/ BiosReturn) /\ frames # <<>> => ie'[1] = Head(frames)]_vars

(* An interrupt cannot stay deliverable for ever: it is taken, or the      *)
(* guest masks or acknowledges it.                                         *)
InterruptsGetThrough == []<>~Deliverable

=============================================================================
