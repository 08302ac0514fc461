------------------------------- MODULE Cdrom -------------------------------
(***************************************************************************)
(* The CD-ROM controller (src/libpcsxcore/cdrom.cpp): commands the guest   *)
(* writes, their one or two responses, and the sectors of a read, all of   *)
(* which are announced through one interrupt cause (cdr.Stat) that the     *)
(* guest acknowledges.                                                     *)
(*                                                                         *)
(* cdr.Irq is a queue of length one: the response the event PsxEvt_Cdrom   *)
(* is to give.  PsxEvt_CdromRead reads sectors.  When either event finds   *)
(* an unacknowledged cause it tries again 0x800 cycles later; without      *)
(* clocks that is no step at all, and the events' actions wait for         *)
(* Stat = NoIntr.  The sectors' data, audio and StatP are left out.        *)
(***************************************************************************)
EXTENDS Integers

CONSTANTS
  Commands,    \* the commands the guest uses
  Sizes,       \* the sizes of results
  Manners,     \* of guests: a "rude" one stores what it likes, the others
               \* wait for the responses they are owed, "polling" for
               \* causes or "waiting" for interrupts
  ReadErrors,  \* can CDR_readTrack fail?
  EndOfFile    \* do sectors carry the end-of-file bit?

Stoppers  == {"Setloc", "Standby", "Stop", "Pause", "Reset", "Init"}
Readers   == {"ReadN", "ReadS"}
TwoPart   == {"Pause", "Init", "SeekL", "SeekP", "ID", "ReadToc"}
Fallible  == {"Nop", "GetTN", "GetTD"}
Completed == {"Forward", "Backward", "Standby", "Stop"}

ASSUME CdromAssumption ==
  /\ Commands \subseteq Stoppers \union Readers \union TwoPart \union Fallible
       \union Completed \union {"Sync", "Play", "Mute", "Demute", "Setfilter",
                                "Setmode", "Getmode", "GetlocL", "GetlocP", "Test"}
  /\ "Pause" \in Commands
  /\ Sizes \subseteq 1..8 /\ 1 \in Sizes
  /\ Manners \subseteq {"rude", "polling", "waiting"}
  /\ {ReadErrors, EndOfFile} \subseteq BOOLEAN

VARIABLES
  Stat,         \* the unacknowledged cause, NoIntr if there is none
  Irq,          \* the response to give: <<command, 1 or 2>>, or as below
  evt,          \* is PsxEvt_Cdrom scheduled?
  readEvt,      \* is PsxEvt_CdromRead scheduled?
  Reading,      \* a read is on
  autopause,    \* bit 1 of Mode
  busy,         \* bit 7 of Ctrl
  index,        \* bit 0 of Ctrl
  ResultReady,
  left,         \* ResultC - ResultP, -1 for anything below
  off,          \* Reg2 = 0x18: responses do not interrupt
  raised,       \* bit PsxInt_CDROM of I_STAT
  handling,     \* the guest is in its interrupt handler
  manners,      \* the guest's, which it keeps
  owed,         \* history: the response the guest waits for, None if none
  ended         \* history: the read met the end of the file

ctrl    == <<busy, index, off, autopause>>
results == <<ResultReady, left>>
reading == <<Reading, readEvt, ended>>
queue   == <<Irq, evt>>
guest   == <<raised, handling>>
vars == <<Stat, queue, reading, ctrl, results, guest, owed>>

Polite  == manners # "rude"
Polling == manners = "polling"

None == <<"0xff", 1>>     \* cdr.Irq = 0xff: the queue is empty
Zero == <<"Sync", 1>>     \* cdr.Irq = 0: CdlSync, and the queue after None
ReadAck == <<"READ_ACK", 1>>
Causes == {"NoIntr", "DataReady", "Complete", "Acknowledge", "DiskError"}

-----------------------------------------------------------------------------
(* AddIrqQueue: schedules the response, or leaves that to cdrWrite3.       *)
AddIrqQueue(irq, scheduled) ==
  /\ Irq' = irq
  /\ evt' = (scheduled \/ Stat' = "NoIntr")

StopReading ==
  /\ Reading' = FALSE /\ ended' = FALSE
  /\ readEvt' = (readEvt /\ ~Reading)

(* Variant: the reading flag is set and nothing queued.                    *)
StartReadingNoAck ==
  /\ Reading' = TRUE /\ ended' = FALSE
  /\ readEvt' = (readEvt /\ ~Reading)
  /\ AddIrqQueue(None, evt)

(* StopReading, then StartReading.                                         *)
StartReading ==
  /\ Reading' = TRUE /\ ended' = FALSE
  /\ readEvt' = (readEvt /\ ~Reading)
  /\ AddIrqQueue(ReadAck, evt)

SetResultSize(size) == ResultReady' = TRUE /\ left' = size

-----------------------------------------------------------------------------
(* The registers.                                                          *)

FirstResponse(c) == IF c \in Readers THEN ReadAck ELSE <<c, 1>>

(* cdrWrite1: a command.  Whatever cause was unacknowledged is dropped,    *)
(* and so is a response that has not been given.                           *)
Command(c) ==
  /\ index = 0
  /\ Polite => ~busy /\ owed = None
  /\ Stat' = "NoIntr" /\ busy' = TRUE
  /\ CASE c \in Readers  -> StartReading
       [] c \in Stoppers -> StopReading /\ AddIrqQueue(<<c, 1>>, evt)
       [] OTHER          -> AddIrqQueue(<<c, 1>>, evt) /\ UNCHANGED reading
  /\ autopause' \in IF c = "Setmode" THEN BOOLEAN ELSE {autopause}
  /\ owed' = FirstResponse(c)
  /\ UNCHANGED <<index, off, results, guest>>

(* cdrWrite0 selects a register, and drops the results with 0.  It keeps   *)
(* the other bits of Ctrl and adds all those of rt, so that a rude guest   *)
(* may set the busy bit itself.                                            *)
Selections == {0, 1, 2, 128, 129}

SelectIndex(rt) ==
  /\ Polite => rt < 128
  /\ index' = rt % 2 /\ busy' = (busy \/ rt >= 128)
  /\ ResultReady' = (ResultReady /\ rt # 0)
  /\ UNCHANGED <<Stat, queue, reading, off, autopause, left, guest, owed>>

(* cdrRead1.                                                               *)
ReadResult ==
  /\ ResultReady
  /\ left' = IF left < 0 THEN left ELSE left - 1
  /\ ResultReady' = (left' # 0)
  /\ UNCHANGED <<Stat, queue, reading, ctrl, guest, owed>>

(* cdrWrite2 with 7: claims a result even when none is left.               *)
ResetParameters ==
  /\ index = 1
  /\ ResultReady' = TRUE /\ index' = 0
  /\ UNCHANGED <<Stat, queue, reading, busy, off, autopause, left, guest, owed>>

(* cdrWrite2 with another value; a polite guest keeps interrupts on.       *)
WriteReg2(value) ==
  /\ index = 1 /\ ~Polite
  /\ off' = value
  /\ UNCHANGED <<Stat, queue, reading, busy, index, autopause, results, guest, owed>>

(* Variant: the queued response is left where it is.                       *)
AcknowledgeOnly ==
  /\ index = 1
  /\ Polite => Stat # "NoIntr" /\ (handling \/ Polling)
  /\ Stat' = "NoIntr" /\ handling' = FALSE
  /\ Irq' = (IF Irq = None THEN Zero ELSE Irq) /\ UNCHANGED evt
  /\ UNCHANGED <<reading, ctrl, results, raised, owed>>

(* cdrWrite3 with 7: the guest acknowledges the cause, and the next        *)
(* response is scheduled.                                                  *)
Acknowledge ==
  /\ index = 1
  /\ Polite => Stat # "NoIntr" /\ (handling \/ Polling)
  /\ Stat' = "NoIntr" /\ handling' = FALSE
  /\ Irq' = IF Irq = None THEN Zero ELSE Irq
  /\ evt' = (evt \/ Irq \notin {None, Zero})
  /\ UNCHANGED <<reading, ctrl, results, raised, owed>>

(* The guest's handler starts: it acknowledges I_STAT before the cause.    *)
TakeInterrupt ==
  /\ raised /\ raised' = FALSE /\ handling' = TRUE
  /\ UNCHANGED <<Stat, queue, reading, ctrl, results, owed>>

-----------------------------------------------------------------------------
(* The events.                                                             *)

(* The second response, where there is one, is owed next.                  *)
Settled(irq) ==
  IF owed # irq THEN owed
  ELSE IF irq[2] = 1 /\ irq[1] \in TwoPart THEN <<irq[1], 2>> ELSE None

(* The cause and the size of the result a response comes with.             *)
CauseOf(irq, cause) ==
  CASE irq[2] = 2                -> cause = "Complete"
    [] irq[1] \in Completed      -> cause = "Complete"
    [] irq[1] \in Fallible       -> cause \in {"Acknowledge", "DiskError"}
    [] OTHER                     -> cause = "Acknowledge"

Result(irq) ==
  \/ \E size \in Sizes : SetResultSize(size)
  \/ irq[1] = "Test" /\ UNCHANGED results

(* Variant: nothing is said of a second response.                          *)
FirstOnly(irq) ==
  /\ \E cause \in Causes : CauseOf(irq, cause) /\ Stat' = cause
  /\ Irq' = None /\ evt' = FALSE /\ busy' = FALSE
  /\ Result(irq)

Answer(irq) ==
  /\ \E cause \in Causes : CauseOf(irq, cause) /\ Stat' = cause
  /\ IF irq[2] = 1 /\ irq[1] \in TwoPart
     THEN AddIrqQueue(<<irq[1], 2>>, FALSE) /\ busy' = (irq[1] = "Pause")
     ELSE Irq' = None /\ evt' = FALSE /\ busy' = FALSE
  /\ Result(irq)

(* cdrInterrupt.                                                           *)
Respond ==
  /\ evt /\ Stat = "NoIntr" /\ Irq \notin {None, ReadAck}
  /\ Answer(Irq)
  /\ raised' = (raised \/ ~off)
  /\ owed' = Settled(Irq)
  /\ UNCHANGED <<reading, index, off, autopause, handling>>

(* Variant: the reading of sectors is not started.                         *)
RespondReadIdle ==
  /\ evt /\ Stat = "NoIntr" /\ Irq = ReadAck
  /\ Irq' = None /\ evt' = FALSE /\ busy' = FALSE
  /\ IF Reading
     THEN /\ Stat' = "Acknowledge" /\ UNCHANGED readEvt
          /\ SetResultSize(1) /\ raised' = (raised \/ ~off)
     ELSE UNCHANGED <<Stat, readEvt, results, raised>>
  /\ owed' = Settled(ReadAck)
  /\ UNCHANGED <<Reading, ended, index, off, autopause, handling>>

(* The same for READ_ACK, which starts the reading of sectors.             *)
RespondRead ==
  /\ evt /\ Stat = "NoIntr" /\ Irq = ReadAck
  /\ Irq' = None /\ evt' = FALSE /\ busy' = FALSE
  /\ IF Reading
     THEN /\ Stat' = "Acknowledge" /\ readEvt' = TRUE
          /\ SetResultSize(1) /\ raised' = (raised \/ ~off)
     ELSE UNCHANGED <<Stat, readEvt, results, raised>>
  /\ owed' = Settled(ReadAck)
  /\ UNCHANGED <<Reading, ended, index, off, autopause, handling>>

(* Variant: the read does not wait for the acknowledgement.                *)
ReadAtOnce ==
  /\ readEvt /\ Reading
  /\ SetResultSize(1)
  /\ Stat' = "DataReady" /\ raised' = TRUE
  /\ UNCHANGED <<queue, reading, ctrl, handling, owed>>

(* Variant: the last sector of a file raises no interrupt.                 *)
ReadSectorQuietEnd ==
  /\ readEvt /\ Reading /\ Stat = "NoIntr"
  /\ SetResultSize(1)
  /\ Stat' = "DataReady"
  /\ \/ UNCHANGED <<queue, reading>> /\ raised' = TRUE
     \/ /\ EndOfFile /\ autopause
        /\ AddIrqQueue(<<"Pause", 1>>, evt)
        /\ readEvt' = FALSE /\ ended' = TRUE
        /\ UNCHANGED <<Reading, raised>>
  /\ UNCHANGED <<ctrl, handling, owed>>

(* cdrReadInterrupt: a sector.  One that ends the file in autopause mode   *)
(* queues a pause of the drive's own instead of the next sector.           *)
ReadSector ==
  /\ readEvt /\ Reading /\ Stat = "NoIntr"
  /\ SetResultSize(1)
  /\ Stat' = "DataReady" /\ raised' = TRUE
  /\ \/ UNCHANGED <<queue, reading>>
     \/ /\ EndOfFile /\ autopause
        /\ AddIrqQueue(<<"Pause", 1>>, evt)
        /\ readEvt' = FALSE /\ ended' = TRUE
        /\ UNCHANGED Reading
  /\ UNCHANGED <<ctrl, handling, owed>>

(* The same when the sector cannot be read: no interrupt is raised.        *)
ReadError ==
  /\ ReadErrors
  /\ readEvt /\ Reading /\ Stat = "NoIntr"
  /\ SetResultSize(1)
  /\ Stat' = "DiskError"
  /\ UNCHANGED <<queue, reading, ctrl, guest, owed>>

-----------------------------------------------------------------------------
(* cdrReset clears cdr.                                                    *)
Init ==
  /\ Stat = "NoIntr" /\ Irq = Zero /\ evt = FALSE
  /\ Reading = FALSE /\ readEvt = FALSE /\ ended = FALSE
  /\ autopause = FALSE /\ busy = FALSE /\ index = 0 /\ off = FALSE
  /\ ResultReady = FALSE /\ left = 0
  /\ raised = FALSE /\ handling = FALSE /\ owed = None
  /\ manners \in Manners

Step ==
  \/ \E c \in Commands : Command(c)
  \/ \E rt \in Selections : SelectIndex(rt)
  \/ \E value \in BOOLEAN : WriteReg2(value)
  \/ ReadResult \/ ResetParameters \/ Acknowledge \/ TakeInterrupt
  \/ Respond \/ RespondRead \/ ReadSector \/ ReadError

Next == Step /\ UNCHANGED manners

Spec == Init /\ [][Next]_<<vars, manners>>

(* The events run.  A response waits at most 0x800 cycles after an         *)
(* acknowledgement, a sector 0x1b900, so a guest that keeps up with the    *)
(* drive cannot starve a response: hence strong fairness for it.  The      *)
(* guest's handler selects register 1 and acknowledges.                    *)
Fairness ==
  /\ SF_vars(Respond) /\ SF_vars(RespondRead) /\ SF_vars(ReadSector)
  /\ WF_vars(TakeInterrupt) /\ SF_vars(Acknowledge)
  /\ WF_vars((handling \/ Polling) /\ index = 0 /\ SelectIndex(1))

FairSpec == Spec /\ Fairness

-----------------------------------------------------------------------------
Responses == Commands \X {1, 2}

(* The type invariant.                                                     *)
TypeOK ==
  /\ Stat \in Causes
  /\ Irq \in Responses \union {None, Zero, ReadAck}
  /\ evt \in BOOLEAN /\ readEvt \in BOOLEAN /\ Reading \in BOOLEAN
  /\ autopause \in BOOLEAN /\ busy \in BOOLEAN /\ index \in {0, 1}
  /\ ResultReady \in BOOLEAN /\ left \in -1..8
  /\ off \in BOOLEAN /\ raised \in BOOLEAN /\ handling \in BOOLEAN
  /\ owed \in Responses \union {None, ReadAck}
  /\ ended \in BOOLEAN /\ manners \in Manners

(* Bit 7 of Ctrl is not left set: the response that clears it is to come.  *)
BusyEnds == busy => evt \/ (Stat # "NoIntr" /\ Irq \notin {None, Zero})

(* The queue after any step: its event is scheduled, or the acknowledgement*)
(* of the present cause will schedule it; there is none for no response.   *)
QueueMoves ==
  /\ Irq \notin {None, Zero} => evt \/ Stat # "NoIntr"
  /\ Irq = None => ~evt

(* A queued response is never stranded, and no polite guest finds the      *)
(* controller busy with nothing to come.                                   *)
NeverStranded == QueueMoves /\ (Polite => BusyEnds)

(* The response owed to a polite guest's last command is in the queue,     *)
(* unless the drive's own pause at the end of a file has taken its place.  *)
ResponseKept == Polite /\ owed # None => Irq = owed \/ ended

(* A polite guest's read that has not met the end of its file goes on: the *)
(* next sector is scheduled, or the response that starts the reading is    *)
(* still to come.                                                          *)
ReadGoesOn == Polite /\ Reading /\ ~ended => readEvt \/ Irq = ReadAck

(* The result of an unacknowledged cause is not replaced before the guest  *)
(* acknowledges it or gives a new command.                                 *)
ResultsStay ==
  [][Stat # "NoIntr" /\ Stat' # "NoIntr" => left' <= left]_vars

(* A cause but for a read error that a polite guest has not acknowledged   *)
(* has been announced in I_STAT.                                           *)
CauseIsAnnounced ==
  Polite /\ Stat \notin {"NoIntr", "DiskError"} => raised \/ handling

(* A read error raises no interrupt: a guest that waits for one is stuck   *)
(* until it gives a command; one that polls is not.                        *)
Stuck == manners = "waiting" /\ Stat = "DiskError" /\ ~raised /\ ~handling

(* Every response owed to a polite guest comes, unless it is reading a     *)
(* file whose end makes the drive pause, or is stuck.                      *)
ResponsesCome == Polite /\ owed # None ~> owed = None \/ ended \/ Stuck

(* Every cause reaches a polite guest, but for read errors the one that    *)
(* waits for interrupts.                                                   *)
CausesAreSeen == Polite /\ Stat # "NoIntr" ~> Stat = "NoIntr" \/ Stuck

(* While a polite guest's read goes on, and it does not begin another,     *)
(* sectors or read errors keep coming, whatever it commands in between.    *)
SectorsCome ==
  Polite /\ Reading /\ ~ended ~>
    Stat \in {"DataReady", "DiskError"} \/ ~Reading \/ owed = ReadAck

=============================================================================
