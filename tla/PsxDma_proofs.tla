--------------------------- MODULE PsxDma_proofs ---------------------------
(***************************************************************************)
(* Proofs about the DMA controller, for any set of channels, alone and on  *)
(* the machine it interrupts.                                              *)
(***************************************************************************)
EXTENDS Console, TLAPS

(* The inductive invariant: BusyHasAnEnd and OneEndPerTransfer need the    *)
(* relations of TypeOK between the history sets and busy and event.        *)
IInv == TypeOK /\ InterruptLine /\ BusyHasAnEnd /\ OneEndPerTransfer

(* psxDmaUpdate leaves ICR consistent, whatever its caller wrote.          *)
LEMMA UpdateIsConsistent ==
  ASSUME NEW ended \in SUBSET Channels, NEW unmasked \in SUBSET Channels,
         NEW enabled \in BOOLEAN,
         dmaIrq \in BOOLEAN, psxDmaUpdate(ended, unmasked, enabled)
  PROVE  /\ master' \in BOOLEAN /\ mask' \subseteq Channels
         /\ flags' \subseteq mask' /\ irq' \in BOOLEAN /\ dmaIrq' \in BOOLEAN
         /\ bypassed' = FALSE /\ InterruptLine'
<1>1. master' \in BOOLEAN /\ mask' \subseteq Channels /\ flags' \subseteq mask'
  BY Zenon DEF psxDmaUpdate
<1>2. irq' = (enabled /\ flags' # {}) /\ dmaIrq' = (dmaIrq \/ irq')
  BY Zenon DEF psxDmaUpdate
<1>3. irq' \in BOOLEAN
  BY <1>2, Zenon
<1>4. dmaIrq' \in BOOLEAN
  BY <1>2, Zenon
<1>5. bypassed' = FALSE
  BY Zenon DEF psxDmaUpdate
<1>6. InterruptLine'
  BY <1>2, Zenon DEF psxDmaUpdate, InterruptLine
<1> QED
  BY <1>1, <1>3, <1>4, <1>5, <1>6

(* The end of a transfer whose event, if any, has been taken out of the    *)
(* schedule; other events may stay.                                        *)
LEMMA EndKeeps ==
  ASSUME IInv, NEW c \in Channels, End(c), UNCHANGED pcr,
         \/ event' = event \ {c} /\ disturbed' = disturbed \ {c}
         \/ event' = event /\ disturbed' = disturbed \union ({c} \cap event)
  PROVE  IInv'
<1>1. flags \union {c} \in SUBSET Channels /\ mask \in SUBSET Channels
      /\ master \in BOOLEAN /\ dmaIrq \in BOOLEAN
  BY DEF IInv, TypeOK
<1>2. /\ master' \in BOOLEAN /\ mask' \subseteq Channels
      /\ flags' \subseteq mask' /\ irq' \in BOOLEAN /\ dmaIrq' \in BOOLEAN
      /\ bypassed' = FALSE /\ InterruptLine'
  BY <1>1, UpdateIsConsistent DEF End, psxDmaInterrupt
<1>3. /\ pcr' \subseteq Channels /\ busy' \subseteq Channels
      /\ event' \subseteq Delayed /\ ignored' \subseteq busy'
  BY DEF IInv, TypeOK, End
<1>4. TypeOK'
  <2>1. disturbed' \subseteq event'
    BY DEF IInv, TypeOK
  <2> QED
    BY <1>2, <1>3, <2>1 DEF TypeOK
<1>5. BusyHasAnEnd'
  BY DEF IInv, BusyHasAnEnd, End
<1>6. OneEndPerTransfer'
  BY DEF IInv, TypeOK, OneEndPerTransfer, End
<1> QED
  BY <1>2, <1>4, <1>5, <1>6 DEF IInv

(* A store to CHCR.                                                        *)
LEMMA StoreKeeps ==
  ASSUME IInv, NEW c \in Channels, NEW mode \in Modes(c), WriteCHCR(c, mode)
  PROVE  IInv'
<1>0. disturbed' = disturbed \union ({c} \cap event)
  BY DEF WriteCHCR
<1>1. CASE mode = "now" /\ End(c) /\ UNCHANGED event /\ UNCHANGED pcr
  BY <1>0, <1>1, EndKeeps
<1>2. CASE mode = "later" /\ EndLater(c) /\ UNCHANGED pcr
  <2>0. c \in Delayed
    BY <1>2 DEF Modes
  <2>1. TypeOK'
    BY <1>0, <1>2, <2>0 DEF EndLater, icr, IInv, TypeOK
  <2>2. InterruptLine'
    BY <1>2, Zenon DEF EndLater, icr, IInv, InterruptLine
  <2>3. BusyHasAnEnd'
    BY <1>2 DEF EndLater, IInv, BusyHasAnEnd
  <2>4. OneEndPerTransfer'
    BY <1>0, <1>2 DEF EndLater, IInv, TypeOK, OneEndPerTransfer
  <2> QED
    BY <2>1, <2>2, <2>3, <2>4 DEF IInv
<1>3. CASE /\ busy' = IF mode = "off" THEN busy \ {c} ELSE busy \union {c}
           /\ ignored' = IF mode = "off" THEN ignored \ {c}
                                         ELSE ignored \union {c}
           /\ UNCHANGED <<icr, dmaIrq, event, pcr>>
  <2>1. TypeOK'
    BY <1>0, <1>3 DEF icr, IInv, TypeOK
  <2>2. InterruptLine'
    BY <1>3, Zenon DEF icr, IInv, InterruptLine
  <2>3. BusyHasAnEnd'
    BY <1>3 DEF IInv, BusyHasAnEnd
  <2>4. OneEndPerTransfer'
    BY <1>0, <1>3 DEF IInv, TypeOK, OneEndPerTransfer
  <2> QED
    BY <2>1, <2>2, <2>3, <2>4 DEF IInv
<1> QED
  BY <1>1, <1>2, <1>3 DEF WriteCHCR

(* The program starts with the invariant.                                  *)
LEMMA InitInvariant == Init => IInv
<1> SUFFICES ASSUME Init PROVE IInv
  OBVIOUS
<1>1. TypeOK
  BY DEF Init, TypeOK
<1>2. InterruptLine
  BY DEF Init, InterruptLine
<1>3. BusyHasAnEnd /\ OneEndPerTransfer
  BY DEF Init, BusyHasAnEnd, OneEndPerTransfer
<1> QED
  BY <1>1, <1>2, <1>3 DEF IInv

(* Every step keeps the invariant.                                         *)
LEMMA Invariance == IInv /\ [Next]_vars => IInv'
<1> SUFFICES ASSUME IInv, [Next]_vars PROVE IInv'
  OBVIOUS
<1>1. ASSUME NEW c \in Channels, NEW mode \in Modes(c), WriteCHCR(c, mode)
      PROVE  IInv'
  BY <1>1, StoreKeeps
<1>2. ASSUME NEW c \in Channels, EndEvent(c)
      PROVE  IInv'
  BY <1>2, EndKeeps DEF EndEvent
<1>3. ASSUME NEW enabled \in BOOLEAN, NEW unmasked \in SUBSET Channels,
             NEW ack \in SUBSET Channels, WriteICR(enabled, unmasked, ack)
      PROVE  IInv'
  <2>1. flags \ ack \in SUBSET Channels /\ dmaIrq \in BOOLEAN
    BY DEF IInv, TypeOK
  <2>2. /\ master' \in BOOLEAN /\ mask' \subseteq Channels
        /\ flags' \subseteq mask' /\ irq' \in BOOLEAN /\ dmaIrq' \in BOOLEAN
        /\ bypassed' = FALSE /\ InterruptLine'
    BY <1>3, <2>1, UpdateIsConsistent DEF WriteICR
  <2>3. TypeOK'
    BY <1>3, <2>2 DEF WriteICR, IInv, TypeOK
  <2>4. BusyHasAnEnd' /\ OneEndPerTransfer'
    BY <1>3 DEF WriteICR, IInv, BusyHasAnEnd, TypeOK, OneEndPerTransfer
  <2> QED
    BY <2>2, <2>3, <2>4 DEF IInv
<1>4. ASSUME NEW enabled \in SUBSET Channels, WritePCR(enabled)
      PROVE  IInv'
  <2>1. TypeOK'
    BY <1>4 DEF WritePCR, icr, IInv, TypeOK
  <2>2. InterruptLine'
    BY <1>4, Zenon DEF WritePCR, icr, IInv, InterruptLine
  <2>3. BusyHasAnEnd' /\ OneEndPerTransfer'
    BY <1>4 DEF WritePCR, IInv, BusyHasAnEnd, TypeOK, OneEndPerTransfer
  <2> QED
    BY <2>1, <2>2, <2>3 DEF IInv
<1>5. CASE AckISTAT
  <2>1. TypeOK'
    BY <1>5 DEF AckISTAT, icr, IInv, TypeOK
  <2>2. InterruptLine'
    BY <1>5, Zenon DEF AckISTAT, icr, IInv, InterruptLine
  <2>3. BusyHasAnEnd' /\ OneEndPerTransfer'
    BY <1>5 DEF AckISTAT, IInv, BusyHasAnEnd, TypeOK, OneEndPerTransfer
  <2> QED
    BY <2>1, <2>2, <2>3 DEF IInv
<1>7. CASE StoreICR
  <2>1. /\ master' \in BOOLEAN /\ mask' \subseteq Channels
        /\ flags' \subseteq Channels /\ irq' \in BOOLEAN /\ bypassed' = TRUE
    BY <1>7 DEF StoreICR, IInv, TypeOK
  <2>2. TypeOK'
    BY <1>7, <2>1 DEF StoreICR, IInv, TypeOK
  <2>3. InterruptLine'
    BY <2>1 DEF InterruptLine
  <2>4. BusyHasAnEnd' /\ OneEndPerTransfer'
    BY <1>7 DEF StoreICR, IInv, BusyHasAnEnd, TypeOK, OneEndPerTransfer
  <2> QED
    BY <2>2, <2>3, <2>4 DEF IInv
<1>6. CASE UNCHANGED vars
  <2>1. TypeOK'
    BY <1>6 DEF vars, IInv, TypeOK
  <2>2. InterruptLine'
    BY <1>6, Zenon DEF vars, IInv, InterruptLine
  <2>3. BusyHasAnEnd' /\ OneEndPerTransfer'
    BY <1>6 DEF vars, IInv, BusyHasAnEnd, TypeOK, OneEndPerTransfer
  <2> QED
    BY <2>1, <2>2, <2>3 DEF IInv
<1> QED
  BY <1>1, <1>2, <1>3, <1>4, <1>5, <1>6, <1>7, Zenon DEF Next, Transfers

-----------------------------------------------------------------------------
(* The registers keep their types, and once psxDmaUpdate has run only      *)
(* unmasked channels have flags, until bytes are stored into ICR.          *)
THEOREM TypeInvariance == Spec => []TypeOK
<1>1. IInv => TypeOK
  BY DEF IInv
<1> QED
  BY InitInvariant, Invariance, <1>1, PTL DEF Spec

(* Bit 31 of ICR follows the flags, the mask and the master bit, from any  *)
(* end or 32-bit store on until bytes are stored into ICR.                 *)
THEOREM LineFollowsFlags == Spec => []InterruptLine
<1>1. IInv => InterruptLine
  BY DEF IInv
<1> QED
  BY InitInvariant, Invariance, <1>1, PTL DEF Spec

(* No channel stays busy without an event that will end its transfer,      *)
(* however rudely the guest writes CHCR.                                   *)
THEOREM NoOrphanTransfer == Spec => []BusyHasAnEnd
<1>1. IInv => BusyHasAnEnd
  BY DEF IInv
<1> QED
  BY InitInvariant, Invariance, <1>1, PTL DEF Spec

(* Each transfer has one end, for any guest that waits for it before it    *)
(* writes CHCR again.                                                      *)
THEOREM OneEnd == Spec => []OneEndPerTransfer
<1>1. IInv => OneEndPerTransfer
  BY DEF IInv
<1> QED
  BY InitInvariant, Invariance, <1>1, PTL DEF Spec

-----------------------------------------------------------------------------
(* With a guest whose handler acknowledges I_STAT before it reads ICR.     *)
(* The inductive invariant: such a guest keeps interrupts enabled.         *)
GuestInv ==
  /\ step \in {"wild", "setup", "enable", "main", "acked", "read"}
  /\ step \notin {"wild", "setup", "enable"} => master = TRUE
  /\ NoEndForgotten

(* An enabled psxDmaUpdate shows in I_STAT what it leaves flagged.         *)
LEMMA UpdateShows ==
  ASSUME NEW ended, NEW unmasked, psxDmaUpdate(ended, unmasked, TRUE)
  PROVE  master' = TRUE /\ (flags' # {} => dmaIrq')
BY Zenon DEF psxDmaUpdate

(* So does the end of a transfer.                                          *)
LEMMA EndShows ==
  ASSUME master = TRUE, NEW c, End(c)
  PROVE  master' = TRUE /\ (flags' # {} => dmaIrq')
BY UpdateShows, Zenon DEF End, psxDmaInterrupt

LEMMA GuestInvariance == GuestInv /\ [GuestNext]_allVars => GuestInv'
<1> SUFFICES ASSUME GuestInv, [GuestNext]_allVars PROVE GuestInv'
  OBVIOUS
<1>1. CASE Wild
  BY <1>1 DEF Wild, guest, GuestInv, NoEndForgotten
<1>2. CASE SetUpPCR
  BY <1>2 DEF SetUpPCR, WritePCR, icr, GuestInv, NoEndForgotten
<1>9. CASE SetUpICR
  BY <1>9, UpdateShows DEF SetUpICR, WriteICR, GuestInv, NoEndForgotten
<1>3. ASSUME NEW c \in Channels, NEW mode \in {"now", "later"}, Start(c, mode)
      PROVE  GuestInv'
  <2>1. step = "main" /\ step' = "main" /\ master = TRUE
    BY <1>3 DEF Start, guest, GuestInv
  <2>2. WriteCHCR(c, mode)
    BY <1>3 DEF Start
  <2>3. CASE End(c)
    BY <2>1, <2>3, EndShows DEF GuestInv, NoEndForgotten
  <2>4. CASE UNCHANGED <<icr, dmaIrq>>
    BY <2>1, <2>4 DEF icr, GuestInv, NoEndForgotten
  <2> QED
    BY <2>2, <2>3, <2>4, Zenon DEF WriteCHCR, EndLater
<1>4. CASE Event
  <2>1. step # "wild" /\ step' = step
    BY <1>4 DEF Event, guest
  <2>2. PICK c \in Channels : End(c)
    BY <1>4 DEF Event, EndEvent
  <2>3. CASE step \in {"setup", "enable"}
    BY <2>1, <2>3 DEF GuestInv, NoEndForgotten
  <2>4. CASE step \notin {"setup", "enable"}
    <3>1. master' = TRUE /\ (flags' # {} => dmaIrq')
      BY <2>1, <2>2, <2>4, EndShows DEF GuestInv
    <3> QED
      BY <2>1, <3>1 DEF GuestInv, NoEndForgotten
  <2> QED
    BY <2>3, <2>4
<1>5. CASE HandlerAcks
  BY <1>5 DEF HandlerAcks, AckISTAT, icr, GuestInv, NoEndForgotten
<1>6. CASE HandlerReads
  BY <1>6 DEF HandlerReads, vars, GuestInv, NoEndForgotten
<1>7. CASE HandlerWrites
  BY <1>7, UpdateShows DEF HandlerWrites, WriteICR, GuestInv, NoEndForgotten
<1>8. CASE UNCHANGED allVars
  BY <1>8 DEF allVars, vars, guest, GuestInv, NoEndForgotten
<1> QED
  BY <1>1, <1>2, <1>3, <1>4, <1>5, <1>6, <1>7, <1>8, <1>9, Zenon DEF GuestNext

(* While the handler does not run, an end it has not acknowledged shows in *)
(* I_STAT, whatever ended between its steps.                               *)
THEOREM EndsAreNotForgotten == GuestSpec => []NoEndForgotten
<1>1. GuestInit => GuestInv
  BY DEF GuestInit, Init, GuestInv, NoEndForgotten
<1>2. GuestInv => NoEndForgotten
  BY DEF GuestInv
<1> QED
  BY <1>1, <1>2, GuestInvariance, PTL DEF GuestSpec

(* What a handler has read are flags of channels.                          *)
SeenOK == seen \in SUBSET Channels

(* The guest takes only the controller's own steps, so that what holds     *)
(* whatever the guest does holds with this one.                            *)
THEOREM GuestsUseTheController == GuestSpec => Spec
<1>1. GuestInit => Init
  BY DEF GuestInit
<1>2. SeenOK /\ [GuestNext]_allVars => [Next]_vars
  <2> SUFFICES ASSUME SeenOK, [GuestNext]_allVars PROVE [Next]_vars
    OBVIOUS
  <2>1. CASE Wild
    BY <2>1 DEF Wild
  <2>2. CASE SetUpPCR
    BY <2>2 DEF SetUpPCR, Next
  <2>3. CASE SetUpICR
    BY <2>3 DEF SetUpICR, Next
  <2>4. ASSUME NEW c \in Channels, NEW mode \in {"now", "later"}, Start(c, mode)
        PROVE  Next
    BY <2>4 DEF Start, Next, Transfers
  <2>5. CASE Event
    BY <2>5 DEF Event, Next, Transfers
  <2>6. CASE HandlerAcks
    BY <2>6 DEF HandlerAcks, Next
  <2>7. CASE HandlerReads
    BY <2>7 DEF HandlerReads
  <2>8. CASE HandlerWrites
    BY <2>8 DEF HandlerWrites, Next, SeenOK
  <2>9. CASE UNCHANGED allVars
    BY <2>9 DEF allVars
  <2> QED
    BY <2>1, <2>2, <2>3, <2>4, <2>5, <2>6, <2>7, <2>8, <2>9, Zenon DEF GuestNext
<1>3. GuestInit => IInv /\ SeenOK
  BY InitInvariant DEF GuestInit, SeenOK
<1>4. IInv /\ [Next]_vars => IInv'
  BY Invariance
<1>5. IInv /\ SeenOK /\ [GuestNext]_allVars => SeenOK'
  BY DEF IInv, TypeOK, SeenOK, GuestNext, Wild, guest, SetUpPCR, SetUpICR, Start,
         Event, HandlerAcks, HandlerReads, HandlerWrites, allVars
<1> QED
  BY <1>1, <1>2, <1>3, <1>4, <1>5, PTL DEF GuestSpec, Spec

-----------------------------------------------------------------------------
(* With the CPU and the interrupt controller around the guest.             *)

(* Whatever the machine does, its DMA controller and its guest take a step *)
(* of GuestSpec or none.                                                   *)
THEOREM ConsoleRunsTheGuest == ConsoleSpec => GuestSpec
<1>1. ConsoleInit => GuestInit
  BY DEF ConsoleInit
<1>2. [ConsoleNext]_consoleVars => [GuestNext]_allVars
  <2> SUFFICES ASSUME [ConsoleNext]_consoleVars PROVE [GuestNext]_allVars
    OBVIOUS
  <2>1. CASE WildGuest
    BY <2>1 DEF WildGuest, GuestNext
  <2>2. CASE Main
    <3>1. CASE Unmask \/ Enable \/ Disable \/ EnableAgain \/ CallBios \/ BiosReturns
      BY <3>1 DEF Unmask, Enable, Disable, EnableAgain, CallBios, BiosReturns, Guest
    <3>2. CASE SetUp
      BY <3>2 DEF SetUp, GuestNext
    <3>3. CASE StartTransfer
      BY <3>3 DEF StartTransfer, GuestNext
    <3> QED
      BY <2>2, <3>1, <3>2, <3>3 DEF Main
  <2>3. CASE Handler
    <3>1. CASE Dispatch \/ AckVBlank \/ Leave
      BY <3>1 DEF Dispatch, AckVBlank, Leave, Guest
    <3>2. CASE AckDMA \/ ReadFlags \/ WriteFlags
      BY <3>2 DEF AckDMA, ReadFlags, WriteFlags, GuestNext
    <3> QED
      BY <2>3, <3>1, <3>2 DEF Handler
  <2>4. CASE BranchTest
    BY <2>4 DEF BranchTest, Unseen
  <2>5. CASE Drain
    BY <2>5 DEF Drain, EndDrain, VBlankEvent, Unseen, ExecuteException,
                TransferEvent, GuestNext
  <2>6. CASE UNCHANGED consoleVars
    BY <2>6 DEF consoleVars
  <2> QED
    BY <2>1, <2>2, <2>3, <2>4, <2>5, <2>6 DEF ConsoleNext
<1> QED
  BY <1>1, <1>2, PTL DEF ConsoleSpec, GuestSpec

(* So no end is forgotten, with interrupts taken late, disabled or masked. *)
THEOREM NoEndForgottenByTheConsole == ConsoleSpec => []NoEndForgotten
BY ConsoleRunsTheGuest, EndsAreNotForgotten, PTL

(* The inductive invariant behind BitsAgree: from the start of the program *)
(* on, what the handler writes to I_STAT for the vertical blank keeps the  *)
(* bit of the DMA, because I_MASK has it.                                  *)
ConsoleInv ==
  /\ BitsAgree
  /\ step # "wild" => dmaIrq \in BOOLEAN
  /\ step # "wild" /\ prog # "off" => DMA \in IMASK
  /\ prog = "off" => im = FALSE

LEMMA RaisesAgree ==
  ASSUME ConsoleInv, step # "wild", NEW ended, NEW unmasked,
         NEW enabled, psxDmaUpdate(ended, unmasked, enabled), Raises
  PROVE  (dmaIrq' <=> DMA \in ISTAT') /\ dmaIrq' \in BOOLEAN
         /\ UNCHANGED <<IMASK, im>>
<1>1. dmaIrq' = (dmaIrq \/ irq')
  BY Zenon DEF psxDmaUpdate
<1>2. dmaIrq <=> DMA \in ISTAT
  BY DEF ConsoleInv, BitsAgree
<1>3. dmaIrq' \in BOOLEAN
  BY <1>1, Zenon
<1>4. CASE irq'
  <2>1. ISTAT' = ISTAT \union {DMA} /\ UNCHANGED <<IMASK, im>>
    BY <1>4 DEF Raises, Cpu!DeviceRaises, Cpu!psxRaiseExtInt, Cpu!status
  <2> QED
    BY <1>1, <1>3, <1>4, <2>1, Zenon
<1>5. CASE ~irq'
  <2>1. ISTAT' = ISTAT /\ UNCHANGED <<IMASK, im>>
    BY <1>5 DEF Raises, cpu
  <2> QED
    BY <1>1, <1>2, <1>3, <1>5, <2>1, Zenon
<1> QED
  BY <1>4, <1>5

LEMMA EndAgrees ==
  ASSUME ConsoleInv, step # "wild", NEW c, End(c), Raises
  PROVE  (dmaIrq' <=> DMA \in ISTAT') /\ dmaIrq' \in BOOLEAN
         /\ UNCHANGED <<IMASK, im>>
BY RaisesAgree DEF End, psxDmaInterrupt

LEMMA WriteAgrees ==
  ASSUME ConsoleInv, step # "wild", NEW enabled, NEW unmasked, NEW ack,
         WriteICR(enabled, unmasked, ack), Raises
  PROVE  (dmaIrq' <=> DMA \in ISTAT') /\ dmaIrq' \in BOOLEAN
         /\ UNCHANGED <<IMASK, im>>
BY RaisesAgree DEF WriteICR

LEMMA ConsoleInvariance == ConsoleInv /\ [ConsoleNext]_consoleVars => ConsoleInv'
<1> SUFFICES ASSUME ConsoleInv, [ConsoleNext]_consoleVars PROVE ConsoleInv'
  OBVIOUS
<1> USE DEF ConsoleInv, BitsAgree
<1>1. CASE WildGuest
  BY <1>1 DEF WildGuest, Wild, guest, cpu
<1>2. CASE Main
  <2>1. CASE Unmask
    BY <2>1 DEF Unmask, Guest, Goto, allVars, vars, guest, Cpu!WriteIMASK, Irqs,
                Cpu!status
  <2>2. CASE Enable \/ Disable \/ EnableAgain
    <3>1. prog # "off" /\ prog' # "off" /\ UNCHANGED <<step, dmaIrq>>
      BY <2>2 DEF Enable, Disable, EnableAgain, Guest, Goto, allVars, vars, guest
    <3>2. UNCHANGED <<ISTAT, IMASK>>
      BY <2>2, Zenon DEF Enable, Disable, EnableAgain, Cpu!MTC0Status
    <3> QED
      BY <3>1, <3>2
  <2>3. CASE CallBios \/ BiosReturns
    BY <2>3 DEF CallBios, BiosReturns, Guest, Goto, allVars, vars, guest,
                Cpu!Syscall, Cpu!RFE
  <2>4. CASE SetUp
    <3>1. CASE SetUpPCR /\ UNCHANGED cpu
      BY <2>4, <3>1 DEF SetUp, SetUpPCR, WritePCR, cpu
    <3>2. CASE SetUpICR /\ Raises
      <4>1. step = "enable" /\ step' = "main" /\ WriteICR(TRUE, Channels, {})
        BY <3>2 DEF SetUpICR
      <4> QED
        BY <2>4, <3>2, <4>1, WriteAgrees DEF SetUp
    <3> QED
      BY <2>4, <3>1, <3>2 DEF SetUp
  <2>5. CASE StartTransfer
    <3>1. PICK c \in Channels : \/ Start(c, "now") /\ Raises
                                \/ Start(c, "later") /\ UNCHANGED cpu
      BY <2>5 DEF StartTransfer
    <3>2. step # "wild" /\ step' = step /\ prog' = prog
      BY <2>5, <3>1 DEF StartTransfer, Start, guest
    <3>3. CASE Start(c, "now") /\ Raises
      <4>1. End(c)
        BY <3>3 DEF Start, WriteCHCR, Starts
      <4> QED
        BY <3>2, <3>3, <4>1, EndAgrees
    <3>4. CASE Start(c, "later") /\ UNCHANGED cpu
      <4>1. UNCHANGED dmaIrq
        BY <3>4 DEF Start, WriteCHCR, EndLater
      <4> QED
        BY <3>2, <3>4, <4>1 DEF cpu
    <3> QED
      BY <3>1, <3>3, <3>4
  <2> QED
    BY <1>2, <2>1, <2>2, <2>3, <2>4, <2>5 DEF Main
<1>3. CASE Handler
  <2>1. CASE Dispatch
    BY <2>1 DEF Dispatch, Guest, Goto, allVars, vars, guest, cpu
  <2>2. CASE AckVBlank
    BY <2>2 DEF AckVBlank, Serves, Cpu!WriteISTAT, Cpu!Written, Irqs, VBlank, DMA,
                Cpu!status,                allVars, vars, guest
  <2>3. CASE AckDMA
    BY <2>3 DEF AckDMA, Serves, HandlerAcks, AckISTAT, Cpu!WriteISTAT, Cpu!Written,
                Cpu!status
  <2>4. CASE ReadFlags
    BY <2>4 DEF ReadFlags, HandlerReads, vars, cpu
  <2>5. CASE WriteFlags
    <3>1. step = "read" /\ WriteICR(TRUE, Channels, seen) /\ Raises /\ prog' = prog
      BY <2>5 DEF WriteFlags, HandlerWrites
    <3> QED
      BY <3>1, WriteAgrees
  <2>6. CASE Leave
    BY <2>6 DEF Leave, Guest, Goto, allVars, vars, guest, Cpu!RFE
  <2> QED
    BY <1>3, <2>1, <2>2, <2>3, <2>4, <2>5, <2>6 DEF Handler
<1>4. CASE BranchTest
  BY <1>4 DEF BranchTest, Unseen, allVars, vars, guest, Cpu!BranchTest,
         Cpu!status
<1>5. CASE Drain
  <2>1. CASE EndDrain
    BY <2>1 DEF EndDrain, Unseen, allVars, vars, guest, Cpu!EndDrain, Cpu!status
  <2>2. CASE VBlankEvent
    BY <2>2 DEF VBlankEvent, Unseen, allVars, vars, guest, VBlank, DMA,
                Cpu!VBlankEvent, Cpu!psxRaiseExtInt, Cpu!status
  <2>3. CASE TransferEvent
    <3>1. PICK c \in Channels : End(c)
      BY <2>3 DEF TransferEvent, Event, EndEvent
    <3>2. step # "wild" /\ Raises /\ UNCHANGED <<step, prog>>
      BY <2>3 DEF TransferEvent, Event, guest
    <3> QED
      BY <3>1, <3>2, EndAgrees
  <2>4. CASE ExecuteException
    BY <2>4 DEF ExecuteException, allVars, vars, guest, Cpu!ExecuteException,
                Cpu!Deliverable
  <2> QED
    BY <1>5, <2>1, <2>2, <2>3, <2>4 DEF Drain
<1>6. CASE UNCHANGED consoleVars
  BY <1>6 DEF consoleVars, allVars, vars, guest, cpu
<1> QED
  BY <1>1, <1>2, <1>3, <1>4, <1>5, <1>6 DEF ConsoleNext

(* The controller's view of its bit in I_STAT is the CPU's: neither the    *)
(* acknowledgement of the vertical blank nor the mask drops it.            *)
THEOREM TheBitsAgree == ConsoleSpec => []BitsAgree
<1>1. ConsoleInit => ConsoleInv
  BY DEF ConsoleInit, GuestInit, Init, ConsoleInv, BitsAgree, Cpu!Init
<1>2. ConsoleInv => BitsAgree
  BY DEF ConsoleInv
<1> QED
  BY <1>1, <1>2, ConsoleInvariance, PTL DEF ConsoleSpec

(* The other half: the machine drives the interrupt controller and the CPU *)
(* only by their own steps.                                                *)
LEMMA RaisesIsAStep ==
  ASSUME Raises
  PROVE  Cpu!Step \/ UNCHANGED cpu
<1>1. CASE irq'
  <2>1. DMA \in Irqs
    BY DEF Irqs
  <2>2. Cpu!DeviceRaises(DMA)
    BY <1>1 DEF Raises
  <2> QED
    BY <2>1, <2>2 DEF Cpu!Step
<1>2. CASE ~irq'
  BY <1>2 DEF Raises
<1> QED
  BY <1>1, <1>2

(* The stack of interrupt enables, of which the guest changes the top.     *)
EnablesOK == ie \in [1..3 -> BOOLEAN]

LEMMA Triple ==
  ASSUME NEW a \in BOOLEAN, NEW b \in BOOLEAN, NEW c \in BOOLEAN
  PROVE  <<a, b, c>> \in [1..3 -> BOOLEAN]
  OBVIOUS

LEMMA StackKeepsType ==
  ASSUME NEW e \in [1..3 -> BOOLEAN]
  PROVE  Cpu!Push(e) \in [1..3 -> BOOLEAN] /\ Cpu!Pop(e) \in [1..3 -> BOOLEAN]
<1>1. e[1] \in BOOLEAN /\ e[2] \in BOOLEAN /\ e[3] \in BOOLEAN
  OBVIOUS
<1> QED
  BY <1>1, Triple, Zenon DEF Cpu!Push, Cpu!Pop

LEMMA EnablesStep ==
  ASSUME EnablesOK, [ConsoleNext]_consoleVars
  PROVE  EnablesOK'
<1>1. CASE ie' = ie
  BY <1>1 DEF EnablesOK
<1>2. CASE Enable \/ Disable \/ EnableAgain
  <2>1. ie' = [ie EXCEPT ![1] = TRUE] \/ ie' = [ie EXCEPT ![1] = FALSE]
    BY <1>2 DEF Enable, Disable, EnableAgain, Cpu!MTC0Status
  <2> QED
    BY <2>1 DEF EnablesOK
<1>3. CASE CallBios \/ BiosReturns \/ Leave \/ ExecuteException
  <2>1. ie' = Cpu!Push(ie) \/ ie' = Cpu!Pop(ie) \/ ie' = ie
    BY <1>3, Zenon DEF CallBios, BiosReturns, Leave, ExecuteException, Cpu!Syscall,
                Cpu!RFE, Cpu!Return, Cpu!ExecuteException, Cpu!TakeInterrupt,
                Cpu!psxException
  <2> QED
    BY <2>1, StackKeepsType DEF EnablesOK
<1>4. CASE Raises
  BY <1>1, <1>4 DEF Raises, cpu, Cpu!DeviceRaises, Cpu!status
<1>5. CASE UNCHANGED cpu
  BY <1>1, <1>5 DEF cpu
<1>6. CASE Unmask \/ AckVBlank \/ AckDMA
  BY <1>1, <1>6 DEF Unmask, AckVBlank, AckDMA, Cpu!WriteIMASK, Cpu!WriteISTAT,
                    Cpu!status
<1>7. CASE BranchTest \/ EndDrain \/ VBlankEvent
  BY <1>1, <1>7 DEF BranchTest, EndDrain, VBlankEvent, Cpu!BranchTest,
                    Cpu!EndDrain, Cpu!VBlankEvent, Cpu!status
<1>8. CASE WildGuest \/ Dispatch \/ ReadFlags \/ UNCHANGED consoleVars
  BY <1>5, <1>8 DEF WildGuest, Dispatch, ReadFlags, consoleVars
<1>9. CASE SetUp \/ StartTransfer \/ WriteFlags \/ TransferEvent
  BY <1>4, <1>5, <1>9 DEF SetUp, StartTransfer, WriteFlags, TransferEvent
<1> QED
  BY <1>2, <1>3, <1>6, <1>7, <1>8, <1>9
  DEF ConsoleNext, Main, Handler, Drain

LEMMA ConsoleStepsTheCpu ==
  ASSUME EnablesOK, ConsoleNext
  PROVE  Cpu!Step \/ UNCHANGED cpu
<1>1. CASE WildGuest
  BY <1>1 DEF WildGuest
<1>2. CASE Main
  <2>1. CASE Unmask
    <3>1. PICK unmasked \in {{DMA}, Irqs} : Cpu!WriteIMASK(unmasked)
      BY <2>1 DEF Unmask
    <3>2. unmasked \in SUBSET Irqs
      BY <3>1 DEF Irqs
    <3> QED
      BY <3>1, <3>2 DEF Cpu!Step, Cpu!Guest
  <2>2. CASE Enable \/ EnableAgain
    <3>1. Cpu!MTC0Status([ie EXCEPT ![1] = TRUE], TRUE, FALSE)
      BY <2>2 DEF Enable, EnableAgain
    <3>2. [ie EXCEPT ![1] = TRUE] \in [1..3 -> BOOLEAN]
      BY DEF EnablesOK
    <3> QED
      BY <3>1, <3>2 DEF Cpu!Step, Cpu!Guest
  <2>3. CASE Disable
    <3>1. Cpu!MTC0Status([ie EXCEPT ![1] = FALSE], TRUE, FALSE)
      BY <2>3 DEF Disable
    <3>2. [ie EXCEPT ![1] = FALSE] \in [1..3 -> BOOLEAN]
      BY DEF EnablesOK
    <3> QED
      BY <3>1, <3>2 DEF Cpu!Step, Cpu!Guest
  <2>4. CASE CallBios \/ BiosReturns
    BY <2>4 DEF CallBios, BiosReturns, Cpu!Step, Cpu!Guest
  <2>5. CASE SetUp \/ StartTransfer
    BY <2>5, RaisesIsAStep DEF SetUp, StartTransfer
  <2> QED
    BY <1>2, <2>1, <2>2, <2>3, <2>4, <2>5 DEF Main
<1>3. CASE Handler
  <2>1. CASE AckVBlank
    <3>1. Irqs \ {VBlank} \in SUBSET Irqs /\ Cpu!WriteISTAT(Irqs \ {VBlank})
      BY <2>1 DEF AckVBlank
    <3> QED
      BY <3>1 DEF Cpu!Step, Cpu!Guest
  <2>2. CASE AckDMA
    <3>1. Irqs \ {DMA} \in SUBSET Irqs /\ Cpu!WriteISTAT(Irqs \ {DMA})
      BY <2>2 DEF AckDMA
    <3> QED
      BY <3>1 DEF Cpu!Step, Cpu!Guest
  <2>3. CASE Dispatch \/ ReadFlags
    BY <2>3 DEF Dispatch, ReadFlags
  <2>4. CASE WriteFlags
    BY <2>4, RaisesIsAStep DEF WriteFlags
  <2>5. CASE Leave
    BY <2>5 DEF Leave, Cpu!Step, Cpu!Guest
  <2> QED
    BY <1>3, <2>1, <2>2, <2>3, <2>4, <2>5 DEF Handler
<1>4. CASE BranchTest
  BY <1>4 DEF BranchTest, Cpu!Step
<1>5. CASE Drain
  BY <1>5, RaisesIsAStep DEF Drain, EndDrain, VBlankEvent, TransferEvent,
                             ExecuteException, Cpu!Step
<1> QED
  BY <1>1, <1>2, <1>3, <1>4, <1>5 DEF ConsoleNext

(* The console is an interrupt controller and a CPU that keep IntC's       *)
(* promises: it implements IntC.                                           *)
THEOREM ConsoleImplementsIntC == ConsoleSpec => Cpu!Spec
<1>1. ConsoleInit => Cpu!Init
  BY DEF ConsoleInit
<1>2. EnablesOK /\ [ConsoleNext]_consoleVars => [Cpu!Next]_<<cpu, FALSE>>
  <2>1. ASSUME EnablesOK, ConsoleNext PROVE [Cpu!Next]_<<cpu, FALSE>>
    BY <2>1, ConsoleStepsTheCpu DEF Cpu!Next
  <2>2. ASSUME UNCHANGED consoleVars PROVE UNCHANGED <<cpu, FALSE>>
    BY <2>2 DEF consoleVars
  <2> QED
    BY <2>1, <2>2
<1>3. EnablesOK /\ [ConsoleNext]_consoleVars => [Cpu!Next]_<<Cpu!vars, FALSE>>
  BY <1>2 DEF cpu, Cpu!vars
<1>4. Cpu!Init => EnablesOK
  BY Triple DEF Cpu!Init, EnablesOK
<1>5. EnablesOK /\ [ConsoleNext]_consoleVars => EnablesOK'
  BY EnablesStep
<1> QED
  BY <1>1, <1>3, <1>4, <1>5, PTL DEF ConsoleSpec, Cpu!Spec
=============================================================================
