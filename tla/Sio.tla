-------------------------------- MODULE Sio --------------------------------
(***************************************************************************)
(* The serial port with the pads and memory cards behind it                *)
(* (src/libpcsxcore/sio.cpp).  The guest writes a byte (sioWrite8), the    *)
(* event PsxEvt_SIO interrupts it (sioInterrupt), it reads the answer      *)
(* (sioRead8) and acknowledges (sioWriteCtrl16).  A page sent to a card is *)
(* kept in sio.buf and copied to the card, and to its file, when the last  *)
(* byte of the answer is read.                                             *)
(*                                                                         *)
(* What pads answer, checksums and the net play of the pads are left out.  *)
(* sioInterrupt also sets a bit of I_STAT, which is the matter of IntC.    *)
(***************************************************************************)
EXTENDS Integers, Sequences

CONSTANTS
  Pages,        \* the addresses the guest uses, as values of sio.adrL
  PageSize,     \* the bytes of a page: 128
  Data,         \* the bytes it sends for a page
  PadSizes,     \* what the pads' identities add to bufcount: 2 to 32
  MaxOver,      \* bound: how far a guest writes past the end of a transfer
  MaxTransfers  \* bound: how many transfers are begun

Cards == {1, 2}
Slots == Cards \union {0}   \* 0 when CtrlReg selects no slot

StartPad  == 1     \* 0x01
StartCard == 129   \* 0x81
ReadPage  == 82    \* 0x52, which is a poll (bit 6) to a pad
WritePage == 87    \* 0x57, likewise
Commands  == {StartPad, StartCard, ReadPage, WritePage, 0}
Polls     == {ReadPage, WritePage}

ASSUME SioAssumption ==
  /\ PageSize \in Nat \ {0}
  /\ Pages \subseteq 0..255 /\ 0 \in Pages
  /\ Data \subseteq 0..255 /\ 0 \in Data
  /\ PadSizes \subseteq 2..32
  /\ MaxOver \in Nat /\ MaxTransfers \in Nat

VARIABLES
  padst, mcdst, rdwr, parp, bufcount,
  adr,        \* adrL; adrH is 0: the guest keeps to the card's own pages
  buf,        \* the page in buf: from buf[1] in a write, from buf[4] in a read
  RX_RDY, IRQ,  \* bits of StatReg
  slot,       \* the slot CtrlReg selects
  evt,        \* is PsxEvt_SIO scheduled?
  Mcd,        \* Mcd1Data and Mcd2Data
  file,       \* the files of the two cards
  turn,       \* what a patient guest does next, "any" for an impatient one
  sent,       \* history: the bytes sent for the page of this transfer
  unsaved,    \* history: the pages whose last save failed
  bytes,      \* history: a byte was sent since the last reset
  transfers

serial == <<padst, mcdst, rdwr, parp, bufcount>>
cards  == <<Mcd, file, unsaved>>
vars   == <<serial, adr, buf, RX_RDY, IRQ, slot, evt, cards, turn, sent, bytes, transfers>>

Page == [1..PageSize -> Data]

PortType ==
  /\ padst \in 0..2 /\ mcdst \in 0..5 /\ rdwr \in 0..2
  /\ parp \in Nat /\ bufcount \in Nat /\ transfers \in Nat

LineType == RX_RDY \in BOOLEAN /\ IRQ \in BOOLEAN /\ evt \in BOOLEAN /\ bytes \in BOOLEAN

CardType ==
  /\ adr \in Pages /\ buf \in Page /\ slot \in Slots
  /\ Mcd \in [Cards -> [Pages -> Page]] /\ file \in [Cards -> [Pages -> Page]]
  /\ unsaved \subseteq Cards \X Pages
  /\ sent \in Seq(Data)

Turns == {"any", "write", "wait", "read", "acknowledge"}

TypeOK == PortType /\ LineType /\ CardType /\ turn \in Turns

Blank == [p \in Pages |-> [i \in 1..PageSize |-> 0]]

Init ==
  /\ padst = 0 /\ mcdst = 0 /\ rdwr = 0 /\ parp = 0 /\ bufcount = 0
  /\ adr = 0 /\ buf = [i \in 1..PageSize |-> 0]
  /\ RX_RDY = FALSE /\ IRQ = FALSE /\ slot = 0 /\ evt = FALSE
  /\ Mcd = [c \in Cards |-> Blank] /\ file = Mcd /\ unsaved = {}
  /\ turn = "any" /\ sent = <<>> /\ bytes = FALSE /\ transfers = 0

Idle    == padst = 0 /\ mcdst = 0
Patient == turn # "any"

(* A patient guest takes turns with the port; an impatient one does not.   *)
Turn(now, next) ==
  /\ turn \in {"any", now}
  /\ turn' = IF Patient THEN next ELSE turn

-----------------------------------------------------------------------------
(* sioWrite8: one action for each state of the port.  Each schedules the   *)
(* interrupt (SIO_INT), but for the last byte of a pad.                    *)

SIO_INT ==
  /\ evt' = TRUE /\ bytes' = TRUE
  /\ Turn("write", "wait")

(* padst 1: the command to a pad.                                          *)
WritePadCommand(value) ==
  /\ padst = 1
  /\ Patient => value \in Polls
  /\ IF value \in Polls
     THEN /\ padst' = 2 /\ parp' = 1
          /\ \E n \in PadSizes : bufcount' = 2 + n
     ELSE padst' = 0 /\ UNCHANGED <<parp, bufcount>>
  /\ SIO_INT
  /\ UNCHANGED <<mcdst, rdwr, adr, buf, RX_RDY, IRQ, slot, cards, sent, transfers>>

(* padst 2: the bytes after it; the last one does not interrupt.           *)
WritePad ==
  /\ padst = 2
  /\ parp' = parp + 1
  /\ IF parp' = bufcount
     THEN padst' = 0 /\ Turn("write", "read") /\ UNCHANGED <<evt, bytes>>
     ELSE SIO_INT /\ UNCHANGED padst
  /\ UNCHANGED <<mcdst, rdwr, bufcount, adr, buf, RX_RDY, IRQ, slot, cards, sent, transfers>>

(* mcdst 1: the command to a card, and the bytes until the address.        *)
WriteCardCommand(value) ==
  /\ padst = 0 /\ mcdst = 1
  /\ IF rdwr # 0
     THEN parp' = parp + 1 /\ parp' <= bufcount + MaxOver /\ UNCHANGED <<mcdst, rdwr>>
     ELSE /\ Patient => value \in {ReadPage, WritePage}
          /\ parp' = 1
          /\ rdwr' = CASE value = ReadPage -> 1 [] value = WritePage -> 2 [] OTHER -> 0
          /\ mcdst' = IF rdwr' = 0 THEN 0 ELSE 1
  /\ SIO_INT
  /\ UNCHANGED <<padst, bufcount, adr, buf, RX_RDY, IRQ, slot, cards, sent, transfers>>

(* mcdst 2 and 3: the two bytes of the address.                            *)
WriteAddress(value) ==
  /\ padst = 0 /\ mcdst \in {2, 3}
  /\ adr' = IF mcdst = 3 THEN value ELSE adr
  /\ parp' = 0 /\ bufcount' = 1
  /\ mcdst' = mcdst + 1
  /\ SIO_INT
  /\ UNCHANGED <<padst, rdwr, buf, RX_RDY, IRQ, slot, cards, sent, transfers>>

(* mcdst 4: a page to read is copied, the first byte of a page is kept.    *)
WriteFirst(value) ==
  /\ padst = 0 /\ mcdst = 4
  /\ parp' = 0 /\ mcdst' = 5
  /\ CASE rdwr = 1 ->
            /\ bufcount' = PageSize + 5
            /\ buf' = IF slot \in Cards THEN Mcd[slot][adr] ELSE buf
            /\ UNCHANGED sent
       [] rdwr = 2 ->
            /\ bufcount' = PageSize + 3
            /\ buf' = [buf EXCEPT ![1] = value]
            /\ sent' = <<value>>
       [] OTHER -> UNCHANGED <<bufcount, buf, sent>>
  /\ SIO_INT
  /\ UNCHANGED <<padst, rdwr, adr, RX_RDY, IRQ, slot, cards, transfers>>

(* Variant: the last byte of a page is not kept.                           *)
WriteRestButLast(value) ==
  /\ padst = 0 /\ mcdst = 5
  /\ parp' = parp + 1 /\ parp' <= bufcount + MaxOver
  /\ buf' = IF rdwr = 2 /\ parp' < PageSize - 1 THEN [buf EXCEPT ![parp' + 1] = value] ELSE buf
  /\ sent' = IF rdwr = 2 /\ Len(sent) < PageSize THEN Append(sent, value) ELSE sent
  /\ SIO_INT
  /\ UNCHANGED <<padst, mcdst, rdwr, bufcount, adr, RX_RDY, IRQ, slot, cards, transfers>>

(* mcdst 5: the rest of the page, and what follows it.                     *)
WriteRest(value) ==
  /\ padst = 0 /\ mcdst = 5
  /\ parp' = parp + 1 /\ parp' <= bufcount + MaxOver
  /\ buf' = IF rdwr = 2 /\ parp' < PageSize THEN [buf EXCEPT ![parp' + 1] = value] ELSE buf
  /\ sent' = IF rdwr = 2 /\ Len(sent) < PageSize THEN Append(sent, value) ELSE sent
  /\ SIO_INT
  /\ UNCHANGED <<padst, mcdst, rdwr, bufcount, adr, RX_RDY, IRQ, slot, cards, transfers>>

(* The first byte of a transfer; any other is ignored.                     *)
StartTransfer(value) ==
  /\ Idle /\ value \in {StartPad, StartCard}
  /\ transfers < MaxTransfers /\ transfers' = transfers + 1
  /\ RX_RDY' = TRUE /\ parp' = 0
  /\ CASE value = StartPad  -> bufcount' = 2 /\ padst' = 1 /\ UNCHANGED <<mcdst, rdwr>>
       [] value = StartCard -> bufcount' = 3 /\ mcdst' = 1 /\ rdwr' = 0 /\ UNCHANGED padst
  /\ SIO_INT
  /\ UNCHANGED <<adr, buf, IRQ, slot, cards, sent>>

Write ==
  \/ \E value \in Commands :
       WritePadCommand(value) \/ WriteCardCommand(value) \/ StartTransfer(value)
  \/ WritePad
  \/ \E page \in Pages : (mcdst = 2 => page = 0) /\ WriteAddress(page)
  \/ \E value \in Data : WriteFirst(value) \/ WriteRest(value)

-----------------------------------------------------------------------------
(* Variant: the page is written to the beginning of the file.              *)
SaveMcdWithoutSeek(c) ==
  /\ file' = [file EXCEPT ![c][0] = Mcd'[c][adr]] /\ unsaved' = unsaved \ {<<c, adr>>}

(* ConvertMcd: the whole file is written anew, or it cannot be (which ends *)
(* the emulator if the name of the file asks for a header).  A rewrite     *)
(* that is cut short, and leaves a truncated file, is left out.            *)
ConvertMcd(c) ==
  \/ file' = [file EXCEPT ![c] = Mcd'[c]] /\ unsaved' = unsaved \ ({c} \X Pages)
  \/ file' = file /\ unsaved' = unsaved \union {<<c, adr>>}

(* The page a write that stops after so many bytes leaves behind.          *)
CutShort(new, old, bytesWritten) ==
  [i \in 1..PageSize |-> IF i <= bytesWritten THEN new[i] ELSE old[i]]

(* SaveMcd: the page is written to the file, whole or cut short, if the    *)
(* file can be opened so.                                                  *)
SaveMcd(c) ==
  \/ file' = [file EXCEPT ![c][adr] = Mcd'[c][adr]] /\ unsaved' = unsaved \ {<<c, adr>>}
  \/ \E n \in 1..PageSize-1 :
       file' = [file EXCEPT ![c][adr] = CutShort(Mcd'[c][adr], @, n)]
       /\ unsaved' = unsaved \union {<<c, adr>>}
  \/ ConvertMcd(c)

(* Variant: the page only goes to the first card.                          *)
StorePageFirst ==
  IF rdwr = 2 /\ slot = 1
  THEN Mcd' = [Mcd EXCEPT ![slot][adr] = buf] /\ SaveMcd(slot)
  ELSE UNCHANGED cards

(* The page goes to the card that is selected now.                         *)
StorePage ==
  IF rdwr = 2 /\ slot \in Cards
  THEN Mcd' = [Mcd EXCEPT ![slot][adr] = buf] /\ SaveMcd(slot)
  ELSE UNCHANGED cards

(* sioRead8 with more of the answer to come, or with nothing to read.      *)
ReadByte ==
  /\ ~RX_RDY \/ parp # bufcount
  /\ Turn("read", "acknowledge")
  /\ UNCHANGED <<serial, adr, buf, RX_RDY, IRQ, slot, evt, cards, sent, bytes, transfers>>

(* Variant: RX_RDY is not set again after the card's greeting.             *)
ReadLastNotReady ==
  /\ RX_RDY /\ parp = bufcount
  /\ RX_RDY' = FALSE
  /\ mcdst' = CASE mcdst = 5 -> 0 [] mcdst = 1 -> 2 [] OTHER -> mcdst
  /\ padst' = IF padst = 2 THEN 0 ELSE padst
  /\ IF mcdst = 5 THEN StorePage /\ sent' = <<>> ELSE UNCHANGED <<cards, sent>>
  /\ Turn("read", "acknowledge")
  /\ UNCHANGED <<rdwr, parp, bufcount, adr, buf, IRQ, slot, evt, bytes, transfers>>

(* sioRead8 of the last byte of the answer.                                *)
ReadLast ==
  /\ RX_RDY /\ parp = bufcount
  /\ RX_RDY' = (mcdst = 1)
  /\ mcdst' = CASE mcdst = 5 -> 0 [] mcdst = 1 -> 2 [] OTHER -> mcdst
  /\ padst' = IF padst = 2 THEN 0 ELSE padst
  /\ IF mcdst = 5 THEN StorePage /\ sent' = <<>> ELSE UNCHANGED <<cards, sent>>
  /\ Turn("read", "acknowledge")
  /\ UNCHANGED <<rdwr, parp, bufcount, adr, buf, IRQ, slot, evt, bytes, transfers>>

(* sioWriteCtrl16 without a reset: selects a slot, acknowledges.           *)
WriteCtrl(s, reset_err) ==
  /\ Patient => reset_err /\ s = slot
  /\ Turn("acknowledge", "write")
  /\ slot' = s
  /\ IRQ' = (IRQ /\ ~reset_err)
  /\ UNCHANGED <<serial, adr, buf, RX_RDY, evt, cards, sent, bytes, transfers>>

(* Variant: the event is not cancelled.                                    *)
ResetKeepsEvent(s) ==
  /\ Patient => Idle /\ turn = "write"
  /\ slot' = s
  /\ padst' = 0 /\ mcdst' = 0 /\ parp' = 0
  /\ RX_RDY' = FALSE /\ IRQ' = FALSE
  /\ sent' = <<>> /\ bytes' = FALSE
  /\ turn' \in {turn, "write"}
  /\ UNCHANGED <<rdwr, bufcount, adr, buf, evt, cards, transfers>>

(* sioWriteCtrl16 with SIO_RESET, or with 0 in the register.  An impatient *)
(* guest may mend its ways here; a patient one resets between transfers.   *)
Reset(s) ==
  /\ Patient => Idle /\ turn = "write"
  /\ slot' = s
  /\ padst' = 0 /\ mcdst' = 0 /\ parp' = 0
  /\ RX_RDY' = FALSE /\ IRQ' = FALSE /\ evt' = FALSE
  /\ sent' = <<>> /\ bytes' = FALSE
  /\ turn' \in {turn, "write"}
  /\ UNCHANGED <<rdwr, bufcount, adr, buf, cards, transfers>>

sioInterrupt ==
  /\ evt /\ evt' = FALSE
  /\ IRQ' = TRUE
  /\ turn' = IF turn = "wait" THEN "read" ELSE turn
  /\ UNCHANGED <<serial, adr, buf, RX_RDY, slot, cards, sent, bytes, transfers>>

(* LoadMcd, which leaves a card as it is if its file cannot be read.       *)
LoadMcds(loaded) ==
  /\ Mcd' = [c \in Cards |-> IF c \in loaded THEN file[c] ELSE Mcd[c]]
  /\ unsaved' = {u \in unsaved : u[1] \notin loaded}

(* sioInit: the emulator restarts.                                         *)
sioInit(loaded) ==
  /\ padst' = 0 /\ mcdst' = 0 /\ rdwr' = 0 /\ parp' = 0 /\ bufcount' = 0
  /\ adr' = 0 /\ buf' = [i \in 1..PageSize |-> 0]
  /\ RX_RDY' = FALSE /\ IRQ' = FALSE /\ slot' = 0 /\ evt' = FALSE
  /\ LoadMcds(loaded)
  /\ turn' = "any" /\ sent' = <<>> /\ bytes' = FALSE
  /\ UNCHANGED <<file, transfers>>

-----------------------------------------------------------------------------
Next ==
  \/ Write
  \/ ReadByte \/ ReadLast
  \/ \E s \in Slots : Reset(s) \/ \E reset_err \in BOOLEAN : WriteCtrl(s, reset_err)
  \/ sioInterrupt
  \/ \E loaded \in SUBSET Cards : sioInit(loaded)

Spec == Init /\ [][Next]_vars

(* A patient guest does not stop in the middle of a transfer.              *)
Continue ==
  /\ Patient /\ ~(Idle /\ turn = "write")
  /\ Write \/ ReadByte \/ ReadLast \/ \E s \in Slots : WriteCtrl(s, TRUE)

FairSpec == Spec /\ WF_vars(sioInterrupt) /\ WF_vars(Continue)

-----------------------------------------------------------------------------
(* The cards keep the promise of a memory card, whatever the guest does:   *)
(* a page is copied whole (sioRead8), as it was sent, to the address that  *)
(* was sent; nothing else changes a card or its file.                      *)
Card == INSTANCE MemCard WITH card <- Mcd, disk <- file, outbox <- sent, addr <- adr

RefinesCard == Card!Spec

(* A file differs from its card only in pages that could not be saved when *)
(* they were last written: SaveMcd writes the right page to the right      *)
(* place, and replaces the whole file when it cannot.                      *)
FileKeepsUp ==
  \A c \in Cards, p \in Pages : <<c, p>> \notin unsaved => file[c][p] = Mcd[c][p]

(* No interrupt comes after a reset for a byte that was sent before it:    *)
(* sioWriteCtrl16 cancels the event.                                       *)
NoStrayInterrupt == (evt \/ IRQ) => bytes

(* The port talks to one device at a time, and to a card about a page only *)
(* once it knows what to do with it (sioWrite8, sioRead8).                 *)
OneTransfer == (padst = 0 \/ mcdst = 0) /\ (mcdst > 1 => rdwr # 0)

(* When a patient guest's transfer of a page ends, the page is on the card *)
(* it selected -- whatever was done to the port before the guest reset it. *)
PageArrives ==
  [][(Patient /\ mcdst = 5 /\ mcdst' = 0 /\ rdwr = 2 /\ slot \in Cards /\ turn' # "any")
        => Mcd'[slot][adr] = sent]_vars

(* Every transfer of a patient guest ends: each byte is answered with an   *)
(* interrupt, and the port does not stay in a state of the transfer --     *)
(* whatever was done to it before the guest reset it.                      *)
TransferEnds == (Patient /\ ~Idle) ~> Idle
=============================================================================
