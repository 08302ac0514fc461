------------------------------ MODULE PsxDma ------------------------------
(***************************************************************************)
(* The DMA controller (src/libpcsxcore/psxdma.cpp, the DMA registers of    *)
(* psxhw.cpp, and the channels mdec.cpp and cdrom.cpp implement).          *)
(*                                                                         *)
(* A store to a channel's CHCR copies all the data at once.  Most channels *)
(* also end at once; the GPU's transfers from memory and the ordering      *)
(* table's end in a scheduled event.  The end of a transfer clears the     *)
(* busy bit of CHCR and flags the channel in the interrupt register ICR.   *)
(***************************************************************************)
CONSTANTS
  Channels,    \* the DMA channels in use
  GPU,         \* channel 2, whose end is PsxEvt_GPU
  OTC          \* channel 6, whose end is PsxEvt_OTC

ASSUME ChannelsAssumption == GPU # OTC

VARIABLES
  master,   \* ICR bit 23: interrupts enabled
  mask,     \* ICR bits 16-22: the channels that may interrupt
  flags,    \* ICR bits 24-30: the channels that have ended
  irq,      \* ICR bit 31
  pcr,      \* the channels enabled in PCR
  busy,     \* the channels with bit 24 of CHCR set
  event,    \* the channels with their end scheduled
  dmaIrq,   \* bit PsxInt_DMA of I_STAT
  ignored,  \* history: the busy channels whose CHCR started no transfer
  disturbed, \* history: the channels whose CHCR the guest wrote before the end
             \* that is scheduled
  bypassed   \* history: bytes were stored into ICR since psxDmaUpdate last ran

icr == <<master, mask, flags, irq, bypassed>>
vars == <<master, mask, flags, irq, bypassed, pcr, busy, event, dmaIrq, ignored,
          disturbed>>

Delayed == {GPU, OTC} \cap Channels

(* What a store to CHCR asks of a channel: nothing (bit 24 clear), a       *)
(* transfer that ends at once or later, or one that nobody starts, because *)
(* the MDEC's functions do not know the mode, or because bit 24 was set by *)
(* an 8 or 16-bit store, which DmaExec does not see.                       *)
Modes(c) ==
  {"off", "now", "unknown"} \union (IF c \in Delayed THEN {"later"} ELSE {})

-----------------------------------------------------------------------------
(* Variants: the interrupt bit is never cleared; only its rising edge      *)
(* raises an interrupt.                                                    *)
KeepsLine(ended, unmasked, enabled) ==
  /\ flags' = ended \cap unmasked /\ mask' = unmasked /\ master' = enabled
  /\ bypassed' = FALSE
  /\ irq' = (irq \/ (enabled /\ ended \cap unmasked # {}))
  /\ dmaIrq' = (dmaIrq \/ (enabled /\ ended \cap unmasked # {}))

RaisesOnEdge(ended, unmasked, enabled) ==
  /\ flags' = ended \cap unmasked /\ mask' = unmasked /\ master' = enabled
  /\ bypassed' = FALSE
  /\ irq' = (enabled /\ flags' # {})
  /\ dmaIrq' = (dmaIrq \/ (irq' /\ ~irq))

(* psxDmaUpdate, on the ICR its caller has just written.                   *)
psxDmaUpdate(ended, unmasked, enabled) ==
  /\ flags' = ended \cap unmasked /\ mask' = unmasked /\ master' = enabled
  /\ bypassed' = FALSE
  /\ irq' = (enabled /\ flags' # {})
  /\ dmaIrq' = (dmaIrq \/ irq')

psxDmaInterrupt(c) == psxDmaUpdate(flags \union {c}, mask, master)

(* The end of a transfer: gpuInterrupt, otcInterrupt and the last lines of *)
(* the other channels.                                                     *)
End(c) ==
  /\ busy' = busy \ {c}
  /\ ignored' = ignored \ {c}
  /\ psxDmaInterrupt(c)

(* Variants: the end is forgotten; the transfer ends at once as well.      *)
NothingScheduled(c) ==
  /\ busy' = busy \union {c} /\ ignored' = ignored \ {c}
  /\ UNCHANGED <<event, icr, dmaIrq>>

LaterAndNow(c) ==
  /\ event' = event \union {c}
  /\ End(c)

EndLater(c) ==
  /\ event' = event \union {c}
  /\ busy' = busy \union {c} /\ ignored' = ignored \ {c}
  /\ UNCHANGED <<icr, dmaIrq>>

(* DmaExec(c): a store to CHCR, and the channel's transfer function if     *)
(* PCR enables the channel.                                                *)
Starts(c, mode) == mode \in {"now", "later"} /\ c \in pcr

WriteCHCR(c, mode) ==
  /\ disturbed' = disturbed \union ({c} \cap event)
  /\ \/ Starts(c, mode) /\ mode = "now" /\ End(c) /\ UNCHANGED event
     \/ Starts(c, mode) /\ mode = "later" /\ EndLater(c)
     \/ /\ ~Starts(c, mode)
        /\ busy' = IF mode = "off" THEN busy \ {c} ELSE busy \union {c}
        /\ ignored' = IF mode = "off" THEN ignored \ {c} ELSE ignored \union {c}
        /\ UNCHANGED <<icr, dmaIrq, event>>
  /\ UNCHANGED pcr

(* The events PsxEvt_GPU and PsxEvt_OTC.                                   *)
EndEvent(c) ==
  /\ c \in event
  /\ event' = event \ {c} /\ disturbed' = disturbed \ {c}
  /\ End(c)
  /\ UNCHANGED pcr

(* A store to ICR: its low 24 bits are replaced, its flags are cleared     *)
(* where ones are written.                                                 *)
WriteICR(enabled, unmasked, ack) ==
  /\ psxDmaUpdate(flags \ ack, unmasked, enabled)
  /\ UNCHANGED <<pcr, busy, event, ignored, disturbed>>

(* An 8-bit store into ICR goes to memory as it is, to the mask and the    *)
(* master bit or to the flags and bit 31; a 16-bit store is two of them.   *)
StoreICR ==
  /\ bypassed' = TRUE
  /\ \/ /\ master' \in BOOLEAN /\ mask' \in SUBSET Channels
        /\ UNCHANGED <<flags, irq>>
     \/ /\ flags' \in SUBSET Channels /\ irq' \in BOOLEAN
        /\ UNCHANGED <<master, mask>>
  /\ UNCHANGED <<dmaIrq, pcr, busy, event, ignored, disturbed>>

WritePCR(enabled) ==
  /\ pcr' = enabled
  /\ UNCHANGED <<icr, busy, event, dmaIrq, ignored, disturbed>>

(* The guest acknowledges the interrupt in I_STAT.                         *)
AckISTAT ==
  /\ dmaIrq' = FALSE
  /\ UNCHANGED <<icr, pcr, busy, event, ignored, disturbed>>

-----------------------------------------------------------------------------
(* psxHwReset clears the registers.                                        *)
Init ==
  /\ master = FALSE /\ mask = {} /\ flags = {} /\ irq = FALSE
  /\ pcr = {} /\ busy = {} /\ event = {} /\ dmaIrq = FALSE
  /\ ignored = {} /\ disturbed = {} /\ bypassed = FALSE

Transfers == \E c \in Channels :
  \/ \E mode \in Modes(c) : WriteCHCR(c, mode)
  \/ EndEvent(c)

Next ==
  \/ Transfers \/ AckISTAT \/ StoreICR
  \/ \E enabled \in BOOLEAN, unmasked, ack \in SUBSET Channels :
       WriteICR(enabled, unmasked, ack)
  \/ \E enabled \in SUBSET Channels : WritePCR(enabled)

Spec == Init /\ [][Next]_vars

(* A scheduled event runs: SpuRecurs of PsxEvents, for any event.          *)
Fairness == \A c \in Channels : WF_vars(EndEvent(c))

FairSpec == Spec /\ Fairness

-----------------------------------------------------------------------------
(* The type invariant.  Since psxDmaUpdate last ran, only unmasked channels*)
(* have flags.                                                             *)
TypeOK ==
  /\ master \in BOOLEAN /\ mask \subseteq Channels
  /\ flags \subseteq Channels /\ irq \in BOOLEAN /\ bypassed \in BOOLEAN
  /\ ~bypassed => flags \subseteq mask
  /\ pcr \subseteq Channels /\ busy \subseteq Channels
  /\ event \subseteq Delayed /\ dmaIrq \in BOOLEAN
  /\ ignored \subseteq busy /\ disturbed \subseteq event

(* After any mix of ends, acknowledgements and changes of the mask, bit 31 *)
(* of ICR says whether an enabled channel's end is unacknowledged, unless  *)
(* bytes were stored into ICR and no end or 32-bit store has come since.   *)
InterruptLine == ~bypassed => (irq <=> master /\ flags # {})

(* A channel that shows busy has its end scheduled, unless the store that  *)
(* made it busy started no transfer: PCR disabled the channel, its function*)
(* did not know the mode, or DmaExec did not see the store.                *)
BusyHasAnEnd == busy \ ignored \subseteq event

(* A transfer has one end: when a channel is free no event of an earlier   *)
(* transfer is left, unless the guest wrote CHCR before it came.           *)
OneEndPerTransfer == event \ disturbed \subseteq busy

=============================================================================
