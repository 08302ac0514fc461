------------------------------ MODULE Console ------------------------------
(***************************************************************************)
(* The DMA controller on the machine it interrupts: its guest (PsxDmaGuest)*)
(* runs on the CPU of IntC, with a BIOS image.  psxDmaUpdate               *)
(* (src/libpcsxcore/psxdma.cpp) raises PsxInt_DMA in I_STAT; psxTestIntc   *)
(* schedules the Exception event; the event's handler may find interrupts  *)
(* disabled; and what enables them again may not test.  So an end travels  *)
(* through ICR, I_STAT, I_MASK, the event and Status to the handler.       *)
(*                                                                         *)
(* The guest's main program unmasks and enables interrupts, sets the       *)
(* controller up, starts transfers, disables interrupts for a while, and   *)
(* calls the BIOS.  Its handler reads I_STAT and serves what it has read.  *)
(***************************************************************************)
EXTENDS PsxDmaGuest, Integers

VBlank == "VBlank"
DMA    == "DMA"
Irqs   == {VBlank, DMA}

VARIABLES
  ISTAT, IMASK, ie, im, sm, sw, evt, phase, bios, todo, frames, opened,  \* IntC's
  prog,   \* of the guest: "off", "masked", "main", "closed", "syscall",
          \* "vector" or "handler"
  work    \* the interrupts the handler has read and not served

Cpu == INSTANCE IntC WITH Counters <- {}, Forced <- {}, HLE <- FALSE

cpu == <<ISTAT, IMASK, ie, im, sm, sw, evt, phase, bios, todo, frames, opened>>
consoleVars == <<allVars, cpu, prog, work>>

ConsoleInit == GuestInit /\ Cpu!Init /\ prog = "off" /\ work = {}

Goto(from, to) == prog = from /\ prog' = to

-----------------------------------------------------------------------------
(* A wild guest is explored without the machine around it.                 *)
WildGuest == Wild /\ UNCHANGED <<cpu, prog, work>>

Guest(from, to) == step # "wild" /\ Goto(from, to) /\ UNCHANGED allVars

(* What the guest does to the CPU.                                         *)
Unmask ==
  /\ Guest("off", "masked")
  /\ \E unmasked \in {{DMA}, Irqs} : Cpu!WriteIMASK(unmasked)
  /\ UNCHANGED work

Enable ==
  /\ Guest("masked", "main")
  /\ Cpu!MTC0Status([ie EXCEPT ![1] = TRUE], TRUE, FALSE) /\ UNCHANGED work

Disable ==
  /\ Guest("main", "closed")
  /\ Cpu!MTC0Status([ie EXCEPT ![1] = FALSE], TRUE, FALSE) /\ UNCHANGED work

EnableAgain ==
  /\ Guest("closed", "main")
  /\ Cpu!MTC0Status([ie EXCEPT ![1] = TRUE], TRUE, FALSE) /\ UNCHANGED work

CallBios ==
  /\ Guest("main", "syscall")
  /\ Cpu!Syscall /\ UNCHANGED work

BiosReturns ==
  /\ Guest("syscall", "main")
  /\ Cpu!RFE /\ UNCHANGED work

(* psxDmaUpdate has recomputed bit 31, and raises the interrupt if it is 1.*)
Raises == IF irq' THEN Cpu!DeviceRaises(DMA) ELSE UNCHANGED cpu

(* Its stores to the controller; a transfer that ends at once interrupts.  *)
Running == phase = "cpu" /\ prog \in {"main", "closed"}

SetUp ==
  /\ Running
  /\ \/ SetUpPCR /\ UNCHANGED cpu
     \/ SetUpICR /\ Raises
  /\ UNCHANGED <<prog, work>>

StartTransfer ==
  /\ Running
  /\ \E c \in Channels : \/ Start(c, "now") /\ Raises
                         \/ Start(c, "later") /\ UNCHANGED cpu
  /\ UNCHANGED <<prog, work>>

(* Its handler.                                                            *)
Dispatch ==
  /\ phase = "cpu" /\ Guest("vector", "handler")
  /\ work' = Cpu!Pending
  /\ UNCHANGED cpu

Serves(irq1) == phase = "cpu" /\ prog = "handler" /\ irq1 \in work

AckVBlank ==
  /\ Serves(VBlank) /\ step = "main"
  /\ Cpu!WriteISTAT(Irqs \ {VBlank})
  /\ work' = work \ {VBlank}
  /\ UNCHANGED <<allVars, prog>>

AckDMA ==
  /\ Serves(DMA)
  /\ HandlerAcks /\ Cpu!WriteISTAT(Irqs \ {DMA})
  /\ UNCHANGED <<prog, work>>

ReadFlags ==
  /\ Serves(DMA)
  /\ HandlerReads /\ UNCHANGED <<cpu, prog, work>>

WriteFlags ==
  /\ Serves(DMA)
  /\ HandlerWrites /\ Raises
  /\ work' = work \ {DMA}
  /\ UNCHANGED prog

Leave ==
  /\ work = {} /\ Guest("handler", "main")
  /\ Cpu!RFE /\ UNCHANGED work

-----------------------------------------------------------------------------
(* The branch tests and the events.                                        *)
Unseen == UNCHANGED <<allVars, prog, work>>

BranchTest  == step # "wild" /\ Cpu!BranchTest /\ Unseen
EndDrain    == Cpu!EndDrain /\ Unseen
VBlankEvent == Cpu!VBlankEvent /\ Unseen

TransferEvent ==
  /\ phase = "drain"
  /\ Event /\ Raises
  /\ UNCHANGED <<prog, work>>

ExecuteException ==
  /\ Cpu!ExecuteException
  /\ prog' = IF Cpu!Deliverable THEN "vector" ELSE prog
  /\ UNCHANGED <<allVars, work>>

Drain == EndDrain \/ VBlankEvent \/ TransferEvent \/ ExecuteException

Handler == Dispatch \/ AckVBlank \/ AckDMA \/ ReadFlags \/ WriteFlags \/ Leave

Main ==
  \/ Unmask \/ Enable \/ Disable \/ EnableAgain \/ CallBios \/ BiosReturns
  \/ SetUp \/ StartTransfer

ConsoleNext == WildGuest \/ Main \/ Handler \/ BranchTest \/ Drain

(* Branches come, drains end, and between branches instructions run: the   *)
(* handler goes on, the BIOS returns, the program does not keep interrupts *)
(* disabled.  Nor does it hide: branches, and the vertical blank's event,  *)
(* do not always find it with interrupts disabled.                         *)
InTheOpen(A) == prog = "main" /\ A

ConsoleFairness ==
  /\ WF_consoleVars(BranchTest) /\ WF_consoleVars(ExecuteException)
  /\ SF_consoleVars(EndDrain) /\ SF_consoleVars(Handler)
  /\ SF_consoleVars(BiosReturns) /\ SF_consoleVars(EnableAgain)
  /\ SF_consoleVars(InTheOpen(BranchTest)) /\ SF_consoleVars(InTheOpen(VBlankEvent))

ConsoleSpec == ConsoleInit /\ [][ConsoleNext]_consoleVars /\ ConsoleFairness

-----------------------------------------------------------------------------
(* The bit of I_STAT the controller and its guest know is the one the CPU  *)
(* tests, whatever else is acknowledged with it.                           *)
BitsAgree == step # "wild" => (dmaIrq <=> DMA \in ISTAT)

(* The type invariant.                                                     *)
ConsoleTypeOK ==
  /\ BitsAgree
  /\ ISTAT \subseteq Irqs /\ IMASK \subseteq Irqs /\ work \subseteq Irqs
  /\ ie \in [1..3 -> BOOLEAN] /\ im \in BOOLEAN /\ evt \in BOOLEAN
  /\ phase \in {"cpu", "drain"}
  /\ prog \in {"off", "masked", "main", "closed", "syscall", "vector", "handler"}

=============================================================================
