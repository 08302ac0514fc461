--------------------------- MODULE Cdrom_proofs ---------------------------
(***************************************************************************)
(* Proofs about the CD-ROM controller, for any commands of the guest and   *)
(* whether or not it waits for the responses.                              *)
(***************************************************************************)
EXTENDS Cdrom, TLAPS

(* The inductive invariant: whoever takes an event out of the schedule or  *)
(* drops a cause needs to know that the queue moves.                       *)
IInv == TypeOK /\ QueueMoves

(* The two halves of TypeOK that the steps change together.                *)
QueueOK ==
  /\ Stat \in Causes /\ Irq \in Responses \union {None, Zero, ReadAck}
  /\ evt \in BOOLEAN /\ busy \in BOOLEAN
  /\ owed \in Responses \union {None, ReadAck}
RestOK ==
  /\ readEvt \in BOOLEAN /\ Reading \in BOOLEAN /\ ended \in BOOLEAN
  /\ autopause \in BOOLEAN /\ index \in {0, 1} /\ off \in BOOLEAN
  /\ ResultReady \in BOOLEAN /\ left \in -1..8
  /\ raised \in BOOLEAN /\ handling \in BOOLEAN /\ manners \in Manners

(* TypeOK is their conjunction.                                            *)
LEMMA TypeSplits == TypeOK <=> QueueOK /\ RestOK
  BY DEF TypeOK, QueueOK, RestOK

(* The parts of the invariant after a step.                                *)
LEMMA Combine == QueueOK' /\ RestOK' /\ QueueMoves' => IInv'
  BY DEF IInv, TypeOK, QueueOK, RestOK

(* The special values of cdr.Irq differ from each other and from a second  *)
(* response.                                                               *)
LEMMA SpecialIrqs ==
  /\ None # Zero /\ None # ReadAck /\ Zero # ReadAck
  /\ \A c \in Commands : <<c, 1>> # None /\ <<c, 1>> # ReadAck
  /\ \A c \in Commands : <<c, 2>> \notin {None, Zero, ReadAck}
<1>1. \A c \in Commands : c # "0xff" /\ c # "READ_ACK"
  BY CdromAssumption DEF Stoppers, Readers, TwoPart, Fallible, Completed
<1> QED
  BY <1>1 DEF None, Zero, ReadAck

(* Queueing a response while no cause is left unacknowledged, or behind an *)
(* event that is scheduled, or behind a cause, does not strand it.         *)
LEMMA QueueingIsSafe ==
  ASSUME NEW irq \in Responses \union {ReadAck}, irq # None,
         NEW scheduled \in BOOLEAN, AddIrqQueue(irq, scheduled)
  PROVE  /\ Irq' \in Responses \union {None, Zero, ReadAck} /\ evt' \in BOOLEAN
         /\ QueueMoves'
<1>1. Irq' = irq /\ evt' = (scheduled \/ Stat' = "NoIntr")
  BY DEF AddIrqQueue
<1>2. evt' \in BOOLEAN
  BY <1>1, Zenon
<1>3. evt' \/ Stat' # "NoIntr"
  BY <1>1, Zenon
<1> QED
  BY <1>1, <1>2, <1>3 DEF QueueMoves

(* What a command does to the read and the queue.                          *)
LEMMA CommandCases ==
  ASSUME NEW c \in Commands, Command(c)
  PROVE  /\ c \in Readers => c \notin Stoppers /\ StartReading
         /\ c \notin Readers => AddIrqQueue(<<c, 1>>, evt)
         /\ c \in Stoppers => StopReading
         /\ c \notin Readers \union Stoppers => UNCHANGED reading
<1>1. \A r \in Readers : r \notin Stoppers
  BY DEF Readers, Stoppers
<1>2. CASE c \in Readers
  <2>1. c \notin Stoppers
    BY <1>1, <1>2
  <2>2. StartReading
    BY <1>2, <2>1 DEF Command
  <2> QED
    BY <1>2, <2>1, <2>2
<1>3. CASE c \in Stoppers
  <2>1. c \notin Readers
    BY <1>1, <1>3
  <2>2. StopReading /\ AddIrqQueue(<<c, 1>>, evt)
    BY <1>3, <2>1 DEF Command
  <2> QED
    BY <1>3, <2>1, <2>2
<1>4. CASE c \notin Readers \union Stoppers
  <2>1. AddIrqQueue(<<c, 1>>, evt) /\ UNCHANGED reading
    BY <1>4 DEF Command
  <2> QED
    BY <1>4, <2>1
<1> QED
  BY <1>2, <1>3, <1>4

(* A command.                                                              *)
LEMMA CommandKeeps ==
  ASSUME IInv, UNCHANGED manners, NEW c \in Commands, Command(c)
  PROVE  IInv'
<1>0. QueueOK /\ RestOK
  BY TypeSplits DEF IInv
<1>1. <<c, 1>> \in Responses /\ <<c, 1>> # None /\ ReadAck # None
  BY SpecialIrqs DEF Responses
<1>c. /\ c \in Readers => c \notin Stoppers /\ StartReading
      /\ c \notin Readers => AddIrqQueue(<<c, 1>>, evt)
      /\ c \in Stoppers => StopReading
      /\ c \notin Readers \union Stoppers => UNCHANGED reading
  BY CommandCases
<1>2. PICK irq \in Responses \union {ReadAck} :
        irq # None /\ AddIrqQueue(irq, evt) /\ irq = FirstResponse(c)
  <2>1. CASE c \in Readers
    BY <1>1, <1>c, <2>1 DEF StartReading, FirstResponse
  <2>2. CASE c \notin Readers
    BY <1>1, <1>c, <2>2 DEF FirstResponse
  <2> QED
    BY <2>1, <2>2
<1>3. Stat' = "NoIntr" /\ busy' = TRUE /\ owed' = FirstResponse(c)
  BY DEF Command
<1>4. evt \in BOOLEAN
  BY <1>0 DEF QueueOK
<1>5. /\ Irq' \in Responses \union {None, Zero, ReadAck} /\ evt' \in BOOLEAN
      /\ QueueMoves'
  BY <1>2, <1>4, QueueingIsSafe
<1>7. QueueOK'
  BY <1>2, <1>3, <1>5 DEF QueueOK, Causes
<1>8. RestOK'
  <2>1. readEvt' \in BOOLEAN /\ Reading' \in BOOLEAN /\ ended' \in BOOLEAN
    <3>1. CASE c \in Readers
      BY <1>0, <1>c, <3>1, Zenon DEF StartReading, RestOK
    <3>2. CASE c \in Stoppers
      BY <1>0, <1>c, <3>2, Zenon DEF StopReading, RestOK
    <3>3. CASE c \notin Readers \union Stoppers
      BY <1>0, <1>c, <3>3 DEF reading, RestOK
    <3> QED
      BY <3>1, <3>2, <3>3
  <2>2. autopause' \in BOOLEAN
    BY <1>0 DEF Command, RestOK
  <2> QED
    BY <1>0, <2>1, <2>2 DEF Command, RestOK, results, guest
<1> QED
  BY <1>5, <1>7, <1>8, Combine

(* The register accesses that leave the queue alone.                       *)
LEMMA RegistersKeep ==
  ASSUME IInv, UNCHANGED manners,
         \/ \E rt \in Selections : SelectIndex(rt)
         \/ \E value \in BOOLEAN : WriteReg2(value)
         \/ ReadResult \/ ResetParameters \/ TakeInterrupt \/ UNCHANGED vars
  PROVE  IInv'
<1>0. QueueOK /\ RestOK
  BY TypeSplits DEF IInv
<1>1. UNCHANGED <<Stat, Irq, evt, owed>>
  BY DEF SelectIndex, WriteReg2, ReadResult, ResetParameters, TakeInterrupt,
         vars, queue, ctrl
<1>b. busy' \in BOOLEAN
  <2>1. CASE \E rt \in Selections : SelectIndex(rt)
    BY <2>1, Zenon DEF SelectIndex
  <2>2. CASE busy' = busy
    BY <1>0, <2>2 DEF QueueOK
  <2> QED
    BY <2>1, <2>2 DEF WriteReg2, ReadResult, ResetParameters, TakeInterrupt, vars, ctrl
<1>2. QueueOK'
  BY <1>0, <1>1, <1>b DEF QueueOK
<1>3. QueueMoves'
  BY <1>1 DEF IInv, QueueMoves
<1>4. RestOK'
  <2>1. ASSUME NEW rt \in Selections, SelectIndex(rt) PROVE RestOK'
    <3>1. ResultReady' \in BOOLEAN
      BY <2>1, <1>0, Zenon DEF SelectIndex, RestOK
    <3>2. index' \in {0, 1}
      BY <2>1 DEF SelectIndex, Selections
    <3> QED
      BY <2>1, <3>1, <3>2, <1>0 DEF SelectIndex, RestOK, reading, guest
  <2>2. ASSUME NEW value \in BOOLEAN, WriteReg2(value) PROVE RestOK'
    BY <2>2, <1>0 DEF WriteReg2, RestOK, reading, results, guest
  <2>3. CASE ReadResult
    <3>1. left' \in -1..8
      BY <2>3, <1>0 DEF ReadResult, RestOK
    <3>2. ResultReady' \in BOOLEAN
      BY <2>3, Zenon DEF ReadResult
    <3> QED
      BY <2>3, <3>1, <3>2, <1>0 DEF ReadResult, RestOK, reading, ctrl, guest
  <2>4. CASE ResetParameters
    BY <2>4, <1>0 DEF ResetParameters, RestOK, reading, guest
  <2>5. CASE TakeInterrupt
    BY <2>5, <1>0 DEF TakeInterrupt, RestOK, reading, ctrl, results
  <2>6. CASE UNCHANGED vars
    BY <2>6, <1>0 DEF vars, RestOK, reading, ctrl, results, guest
  <2> QED
    BY <2>1, <2>2, <2>3, <2>4, <2>5, <2>6
<1> QED
  BY <1>2, <1>3, <1>4, Combine

(* The guest's acknowledgement.                                            *)
LEMMA AcknowledgeKeeps ==
  ASSUME IInv, UNCHANGED manners, Acknowledge
  PROVE  IInv'
<1>0. QueueOK /\ RestOK
  BY TypeSplits DEF IInv
<1>1. Stat' = "NoIntr" /\ busy' = busy /\ owed' = owed
  BY DEF Acknowledge, ctrl
<1>2. evt' = (evt \/ Irq \notin {None, Zero})
  BY DEF Acknowledge
<1>3. evt' \in BOOLEAN
  BY <1>2, Zenon
<1>4. ASSUME Irq = None PROVE QueueOK' /\ QueueMoves'
  <2>1. Irq' = Zero /\ ~evt /\ ~evt'
    BY <1>2, <1>4 DEF Acknowledge, IInv, QueueMoves
  <2>2. QueueOK'
    BY <1>0, <1>1, <1>3, <2>1 DEF QueueOK, Causes
  <2>3. QueueMoves'
    BY <2>1, SpecialIrqs DEF QueueMoves
  <2> QED
    BY <2>2, <2>3
<1>5. ASSUME Irq # None PROVE QueueOK' /\ QueueMoves'
  <2>1. Irq' = Irq
    BY <1>5 DEF Acknowledge
  <2>2. QueueOK'
    BY <1>0, <1>1, <1>3, <2>1 DEF QueueOK, Causes
  <2>3. QueueMoves'
    BY <1>2, <1>5, <2>1 DEF QueueMoves
  <2> QED
    BY <2>2, <2>3
<1>6. RestOK'
  BY <1>0 DEF Acknowledge, RestOK, reading, ctrl, results
<1>7. QueueOK' /\ QueueMoves'
  BY <1>4, <1>5
<1> QED
  BY <1>6, <1>7, Combine

(* Every response but READ_ACK: it is given, and its second part queued.   *)
LEMMA RespondKeeps ==
  ASSUME IInv, UNCHANGED manners, Respond
  PROVE  IInv'
<1>0. QueueOK /\ RestOK
  BY TypeSplits DEF IInv
<1>1. Irq \in Responses \union {Zero} /\ Irq \notin {None, ReadAck}
  BY <1>0 DEF Respond, QueueOK
<1>2. PICK cause \in Causes : CauseOf(Irq, cause) /\ Stat' = cause
  BY DEF Respond, Answer
<1>3. Stat' \in Causes /\ Stat' # "NoIntr"
  BY <1>2 DEF CauseOf, Causes
<1>4. owed' \in Responses \union {None, ReadAck}
  <2>1. owed' \in {owed, <<Irq[1], 2>>, None}
    BY DEF Respond, Settled
  <2>2. CASE owed' = <<Irq[1], 2>> /\ Irq \in Responses
    BY <2>2 DEF Responses
  <2>3. CASE owed' = <<Irq[1], 2>> /\ owed' # owed /\ owed' # None
    <3>1. owed = Irq
      BY <2>3 DEF Respond, Settled
    <3>2. Irq \in Responses
      BY <1>0, <1>1, <3>1 DEF QueueOK
    <3> QED
      BY <2>2, <2>3, <3>2
  <2> QED
    BY <1>0, <2>1, <2>3 DEF QueueOK
<1>5. ASSUME Irq[2] = 1 /\ Irq[1] \in TwoPart
      PROVE  QueueOK' /\ QueueMoves'
  <2>1. AddIrqQueue(<<Irq[1], 2>>, FALSE) /\ busy' = (Irq[1] = "Pause")
    BY <1>5 DEF Respond, Answer
  <2>2. Irq \in Responses
    BY <1>1, <1>5 DEF Zero, TwoPart
  <2>3. Irq[1] \in Commands
    BY <2>2 DEF Responses
  <2>4. <<Irq[1], 2>> \in Responses /\ <<Irq[1], 2>> \notin {None, Zero}
    BY <2>3, SpecialIrqs DEF Responses
  <2>5. /\ Irq' \in Responses \union {None, Zero, ReadAck} /\ evt' \in BOOLEAN
        /\ QueueMoves'
    BY <2>1, <2>4, QueueingIsSafe
  <2>6. busy' \in BOOLEAN
    BY <2>1, Zenon
  <2> QED
    BY <1>3, <1>4, <2>5, <2>6 DEF QueueOK
<1>6. ASSUME ~(Irq[2] = 1 /\ Irq[1] \in TwoPart)
      PROVE  QueueOK' /\ QueueMoves'
  <2>1. Irq' = None /\ evt' = FALSE /\ busy' = FALSE
    BY <1>6 DEF Respond, Answer
  <2> QED
    BY <1>3, <1>4, <2>1 DEF QueueOK, QueueMoves
<1>7. RestOK'
  <2>1. ResultReady' \in BOOLEAN /\ left' \in -1..8
    <3>1. CASE UNCHANGED results
      BY <1>0, <3>1 DEF results, RestOK
    <3>2. ASSUME NEW size \in Sizes, SetResultSize(size)
          PROVE  ResultReady' \in BOOLEAN /\ left' \in -1..8
      BY <3>2, CdromAssumption DEF SetResultSize
    <3> QED
      BY <3>1, <3>2 DEF Respond, Answer, Result
  <2>2. raised' \in BOOLEAN
    BY <1>0, Zenon DEF Respond, RestOK
  <2> QED
    BY <1>0, <2>1, <2>2 DEF Respond, RestOK, reading
<1> QED
  BY <1>5, <1>6, <1>7, Combine

(* READ_ACK.                                                               *)
LEMMA RespondReadKeeps ==
  ASSUME IInv, UNCHANGED manners, RespondRead
  PROVE  IInv'
<1>0. QueueOK /\ RestOK
  BY TypeSplits DEF IInv
<1>1. Irq' = None /\ evt' = FALSE /\ busy' = FALSE
  BY DEF RespondRead
<1>2. owed' \in Responses \union {None, ReadAck}
  <2>1. Settled(ReadAck) \in {owed, None}
    BY DEF Settled, ReadAck, TwoPart
  <2> QED
    BY <1>0, <2>1 DEF RespondRead, QueueOK
<1>3. CASE Reading
  <2>1. Stat' = "Acknowledge" /\ readEvt' = TRUE
        /\ ResultReady' = TRUE /\ left' = 1 /\ raised' = (raised \/ ~off)
    BY <1>3 DEF RespondRead, SetResultSize
  <2>2. raised' \in BOOLEAN
    BY <2>1, Zenon
  <2>3. QueueOK' /\ QueueMoves'
    BY <1>1, <1>2, <2>1 DEF QueueOK, QueueMoves, Causes
  <2>4. RestOK'
    BY <1>0, <2>1, <2>2 DEF RespondRead, RestOK
  <2> QED
    BY <2>3, <2>4, Combine
<1>4. CASE ~Reading
  <2>1. UNCHANGED <<Stat, readEvt, ResultReady, left, raised>>
    BY <1>4 DEF RespondRead, results
  <2>2. QueueOK' /\ QueueMoves'
    BY <1>0, <1>1, <1>2, <2>1 DEF QueueOK, QueueMoves
  <2>3. RestOK'
    BY <1>0, <2>1 DEF RespondRead, RestOK
  <2> QED
    BY <2>2, <2>3, Combine
<1> QED
  BY <1>3, <1>4

(* A sector, and a sector that cannot be read.                             *)
LEMMA SectorKeeps ==
  ASSUME IInv, UNCHANGED manners, ReadSector \/ ReadError
  PROVE  IInv'
<1>0. QueueOK /\ RestOK
  BY TypeSplits DEF IInv
<1>1. /\ Stat = "NoIntr" /\ Stat' \in Causes /\ Stat' # "NoIntr"
      /\ busy' = busy /\ owed' = owed
  BY DEF ReadSector, ReadError, ctrl, Causes
<1>2. ASSUME UNCHANGED queue
      PROVE  QueueOK' /\ QueueMoves'
  <2>1. Irq' = Irq /\ evt' = evt
    BY <1>2 DEF queue
  <2>2. QueueOK'
    BY <1>0, <1>1, <2>1 DEF QueueOK
  <2>3. QueueMoves'
    BY <1>1, <2>1 DEF IInv, QueueMoves
  <2> QED
    BY <2>2, <2>3
<1>3. ASSUME AddIrqQueue(<<"Pause", 1>>, evt)
      PROVE  QueueOK' /\ QueueMoves'
  <2>1. <<"Pause", 1>> \in Responses /\ <<"Pause", 1>> # None
    BY CdromAssumption, SpecialIrqs DEF Responses
  <2>2. evt \in BOOLEAN
    BY <1>0 DEF QueueOK
  <2>3. /\ Irq' \in Responses \union {None, Zero, ReadAck} /\ evt' \in BOOLEAN
        /\ QueueMoves'
    BY <1>3, <2>1, <2>2, QueueingIsSafe
  <2>4. QueueOK'
    BY <1>0, <1>1, <2>3 DEF QueueOK
  <2> QED
    BY <2>3, <2>4
<1>4. QueueOK' /\ QueueMoves'
  BY <1>2, <1>3 DEF ReadSector, ReadError
<1>5. RestOK'
  <2>1. left' \in -1..8
    BY DEF ReadSector, ReadError, SetResultSize
  <2>2. /\ readEvt' \in BOOLEAN /\ Reading' \in BOOLEAN /\ ended' \in BOOLEAN
        /\ ResultReady' \in BOOLEAN /\ raised' \in BOOLEAN
    BY <1>0 DEF ReadSector, ReadError, SetResultSize, RestOK, reading, guest
  <2>3. autopause' \in BOOLEAN /\ index' \in {0, 1} /\ off' \in BOOLEAN
        /\ handling' \in BOOLEAN /\ manners' \in Manners
    BY <1>0 DEF ReadSector, ReadError, RestOK, ctrl, guest
  <2> QED
    BY <2>1, <2>2, <2>3 DEF RestOK
<1> QED
  BY <1>4, <1>5, Combine

(* The controller starts with the invariant.                               *)
LEMMA InitInvariant == Init => IInv
<1> SUFFICES ASSUME Init PROVE IInv
  OBVIOUS
<1>1. QueueOK
  BY Zenon DEF Init, QueueOK, Causes
<1>2. RestOK
  <2>1. left \in -1..8 /\ index \in {0, 1}
    BY DEF Init
  <2>2. manners \in Manners
    BY CdromAssumption DEF Init
  <2> QED
    BY <2>1, <2>2, Zenon DEF Init, RestOK
<1>3. QueueMoves
  BY SpecialIrqs DEF Init, QueueMoves
<1> QED
  BY <1>1, <1>2, <1>3, TypeSplits DEF IInv

(* Every step keeps the invariant.                                         *)
LEMMA Invariance == IInv /\ [Next]_<<vars, manners>> => IInv'
<1> SUFFICES ASSUME IInv, [Next]_<<vars, manners>> PROVE IInv'
  OBVIOUS
<1>0. UNCHANGED manners
  BY DEF Next
<1>1. ASSUME NEW c \in Commands, Command(c) PROVE IInv'
  BY <1>0, <1>1, CommandKeeps
<1>2. CASE \/ \E rt \in Selections : SelectIndex(rt)
           \/ \E value \in BOOLEAN : WriteReg2(value)
           \/ ReadResult \/ ResetParameters \/ TakeInterrupt \/ UNCHANGED vars
  BY <1>0, <1>2, RegistersKeep
<1>3. CASE Acknowledge
  BY <1>0, <1>3, AcknowledgeKeeps
<1>4. CASE Respond
  BY <1>0, <1>4, RespondKeeps
<1>5. CASE RespondRead
  BY <1>0, <1>5, RespondReadKeeps
<1>6. CASE ReadSector \/ ReadError
  BY <1>0, <1>6, SectorKeeps
<1> QED
  BY <1>1, <1>2, <1>3, <1>4, <1>5, <1>6, Zenon DEF Next, Step

(* A command, or the first of two responses, sets the busy bit.            *)
SetsBusy == Respond \/ \E c \in Commands : Command(c)

(* A step that sets the busy bit in no other way leaves it with a response *)
(* that clears it.                                                         *)
LEMMA BusyStep ==
  ASSUME IInv, BusyEnds, [Next]_<<vars, manners>>,
         ~busy /\ busy' => SetsBusy
  PROVE  BusyEnds'
<1>1. CASE \E c \in Commands : Command(c)
  <2>1. PICK c \in Commands : Command(c)
    BY <1>1
  <2>2. CASE c \in Readers
    BY <2>1, <2>2, CommandCases DEF StartReading, AddIrqQueue, Command, BusyEnds
  <2>3. CASE c \notin Readers
    BY <2>1, <2>3, CommandCases DEF AddIrqQueue, Command, BusyEnds
  <2> QED
    BY <2>2, <2>3
<1>2. CASE /\ ~(~busy /\ busy')
           /\ \/ \E rt \in Selections : SelectIndex(rt)
              \/ \E value \in BOOLEAN : WriteReg2(value)
              \/ ReadResult \/ ResetParameters \/ TakeInterrupt \/ UNCHANGED vars
  <2>1. UNCHANGED <<Stat, Irq, evt>>
    BY <1>2 DEF SelectIndex, WriteReg2, ReadResult, ResetParameters, TakeInterrupt,
                vars, queue
  <2> QED
    BY <1>2, <2>1 DEF BusyEnds
<1>3. CASE Acknowledge
  <2>1. busy' = busy /\ evt' = (evt \/ Irq \notin {None, Zero})
    BY <1>3 DEF Acknowledge, ctrl
  <2> QED
    BY <2>1 DEF BusyEnds
<1>4. CASE Respond
  <2>1. CASE Irq[2] = 1 /\ Irq[1] \in TwoPart
    <3>1. Irq \in Responses
      BY <1>4, <2>1 DEF IInv, TypeOK, Respond, Zero, TwoPart
    <3>2. <<Irq[1], 2>> \notin {None, Zero}
      BY <3>1, SpecialIrqs DEF Responses
    <3>3. Irq' = <<Irq[1], 2>> /\ evt' = (FALSE \/ Stat' = "NoIntr")
      BY <1>4, <2>1 DEF Respond, Answer, AddIrqQueue
    <3> QED
      BY <3>2, <3>3 DEF BusyEnds
  <2>2. CASE ~(Irq[2] = 1 /\ Irq[1] \in TwoPart)
    BY <1>4, <2>2 DEF Respond, Answer, BusyEnds
  <2> QED
    BY <2>1, <2>2
<1>5. CASE RespondRead
  BY <1>5 DEF RespondRead, BusyEnds
<1>6. CASE ReadSector \/ ReadError
  <2>1. Stat = "NoIntr" /\ Stat' # "NoIntr" /\ busy' = busy
    BY <1>6 DEF ReadSector, ReadError, ctrl
  <2>2. evt' = evt
    BY <1>6, <2>1, Zenon DEF ReadSector, ReadError, queue, AddIrqQueue, IInv, TypeOK
  <2>3. evt => Irq' \notin {None, Zero} \/ evt'
    BY <2>2
  <2> QED
    BY <2>1, <2>2 DEF BusyEnds
<1> QED
  BY <1>1, <1>2, <1>3, <1>4, <1>5, <1>6, Zenon DEF Next, Step, SetsBusy

(* A polite guest sets it in no other way.                                 *)
LEMMA PoliteBusy ==
  ASSUME Polite, [Next]_<<vars, manners>>, ~busy, busy'
  PROVE  SetsBusy
<1>1. ASSUME NEW rt \in Selections, SelectIndex(rt) PROVE FALSE
  <2>1. ~(rt >= 128)
    BY <1>1 DEF SelectIndex, Selections
  <2>2. busy' = (busy \/ rt >= 128)
    BY <1>1 DEF SelectIndex
  <2> QED
    BY <2>1, <2>2, Zenon
<1>2. CASE RespondRead
  BY <1>2 DEF RespondRead
<1>3. CASE \/ \E value \in BOOLEAN : WriteReg2(value)
           \/ ReadResult \/ ResetParameters \/ TakeInterrupt \/ UNCHANGED vars
           \/ Acknowledge \/ ReadSector \/ ReadError
  BY <1>3 DEF WriteReg2, ReadResult, ResetParameters, TakeInterrupt, vars, Acknowledge,
              ReadSector, ReadError, ctrl
<1> QED
  BY <1>1, <1>2, <1>3, Zenon DEF Next, Step, SetsBusy

-----------------------------------------------------------------------------
(* The controller's state keeps its type.                                  *)
THEOREM TypeInvariance == Spec => []TypeOK
<1>1. IInv => TypeOK
  BY DEF IInv
<1> QED
  BY InitInvariant, Invariance, <1>1, PTL DEF Spec

(* No queued response is stranded, whatever commands the guest gives while *)
(* responses and sectors are outstanding, and no polite guest finds the    *)
(* controller busy with nothing to come.                                   *)
THEOREM NoStrandedResponse == Spec => []NeverStranded
<1>1. Init => (Polite => BusyEnds)
  BY DEF Init, BusyEnds
<1>2. IInv /\ (Polite => BusyEnds) /\ [Next]_<<vars, manners>> => (Polite => BusyEnds)'
  <2> SUFFICES ASSUME IInv, Polite => BusyEnds, [Next]_<<vars, manners>>, Polite'
               PROVE  BusyEnds'
    OBVIOUS
  <2>1. Polite
    BY DEF Next, Polite
  <2> QED
    BY <2>1, BusyStep, PoliteBusy
<1>3. IInv /\ (Polite => BusyEnds) => NeverStranded
  BY DEF IInv, NeverStranded
<1> QED
  BY InitInvariant, Invariance, <1>1, <1>2, <1>3, PTL DEF Spec

(* For every guest: while no store of its own sets the busy bit            *)
(* (cdrWrite0), a response that clears it is always to come.               *)
NotBusyByStore == [][~busy /\ busy' => SetsBusy]_vars

THEOREM NotBusyForEver == Spec /\ NotBusyByStore => []BusyEnds
<1>1. Init => BusyEnds
  BY DEF Init, BusyEnds
<1>2. /\ IInv /\ BusyEnds /\ [Next]_<<vars, manners>>
      /\ [~busy /\ busy' => SetsBusy]_vars
      => BusyEnds'
  <2> SUFFICES ASSUME IInv, BusyEnds, [Next]_<<vars, manners>>,
                      [~busy /\ busy' => SetsBusy]_vars
               PROVE  BusyEnds'
    OBVIOUS
  <2>1. UNCHANGED vars => busy' = busy
    BY DEF vars, ctrl
  <2> QED
    BY <2>1, BusyStep
<1> QED
  BY InitInvariant, Invariance, <1>1, <1>2, PTL DEF Spec, NotBusyByStore

-----------------------------------------------------------------------------
(* What a polite guest can rely on.  ReadGoesOn needs to know that READ_ACK*)
(* is only queued while the guest sees the controller busy, and            *)
(* CauseIsAnnounced that such a guest leaves interrupts on.                *)
PoliteInv ==
  /\ Irq = ReadAck => busy
  /\ ResponseKept /\ ReadGoesOn
  /\ Polite => ~off
  /\ CauseIsAnnounced

(* A command of a polite guest comes when nothing is owed to it.           *)
LEMMA CommandKeepsPromises ==
  ASSUME IInv, PoliteInv, UNCHANGED manners, NEW c \in Commands, Command(c)
  PROVE  PoliteInv'
<1>0. Polite' = Polite
  BY DEF Polite
<1>1. /\ Polite => ~busy
      /\ Stat' = "NoIntr" /\ busy' = TRUE /\ owed' = FirstResponse(c) /\ off' = off
  BY DEF Command
<1>2. CASE c \in Readers
  <2>1. StartReading
    BY <1>2, CommandCases
  <2>2. Irq' = ReadAck
    BY <2>1 DEF StartReading, AddIrqQueue
  <2> QED
    BY <1>0, <1>1, <1>2, <2>2
    DEF PoliteInv, ResponseKept, ReadGoesOn, CauseIsAnnounced, FirstResponse
<1>3. CASE c \notin Readers
  <2>1. /\ AddIrqQueue(<<c, 1>>, evt)
        /\ StopReading \/ UNCHANGED reading
    BY <1>3, CommandCases
  <2>2. Irq' = <<c, 1>> /\ owed' = <<c, 1>>
    BY <1>1, <1>3, <2>1 DEF AddIrqQueue, FirstResponse
  <2>3. Irq' # ReadAck
    BY <2>2, SpecialIrqs
  <2>4. ReadGoesOn'
    <3>1. CASE StopReading
      BY <3>1 DEF StopReading, ReadGoesOn
    <3>2. CASE UNCHANGED reading
      BY <1>0, <1>1, <3>2 DEF reading, PoliteInv, ReadGoesOn
    <3> QED
      BY <2>1, <3>1, <3>2
  <2> QED
    BY <1>0, <1>1, <2>2, <2>3, <2>4 DEF PoliteInv, ResponseKept, CauseIsAnnounced
<1> QED
  BY <1>2, <1>3

(* A response is taken out of the queue, and its second part put there.    *)
LEMMA RespondKeepsPromises ==
  ASSUME IInv, PoliteInv, UNCHANGED manners, Respond
  PROVE  PoliteInv'
<1>0. Polite' = Polite
  BY DEF Polite
<1>1. /\ Irq # None /\ Irq # ReadAck /\ owed' = Settled(Irq)
      /\ UNCHANGED <<Reading, readEvt, ended, off, handling>>
      /\ raised' = (raised \/ ~off)
  BY DEF Respond, reading
<1>2. Irq \in Responses \union {Zero}
  BY <1>1 DEF IInv, TypeOK
<1>3. CASE Irq[2] = 1 /\ Irq[1] \in TwoPart
  <2>1. Irq' = <<Irq[1], 2>>
    BY <1>3 DEF Respond, Answer, AddIrqQueue
  <2>2. Irq[1] \in Commands
    BY <1>2, <1>3 DEF Responses, Zero, TwoPart
  <2>3. Irq' # ReadAck
    BY <2>1, <2>2, SpecialIrqs
  <2>4. owed' = IF owed = Irq THEN Irq' ELSE owed
    BY <1>1, <1>3, <2>1 DEF Settled
  <2>5. ResponseKept'
    BY <1>0, <1>1, <2>4 DEF PoliteInv, ResponseKept
  <2> QED
    BY <1>0, <1>1, <2>3, <2>5 DEF PoliteInv, ReadGoesOn, CauseIsAnnounced
<1>4. CASE ~(Irq[2] = 1 /\ Irq[1] \in TwoPart)
  <2>1. Irq' = None
    BY <1>4 DEF Respond, Answer
  <2>2. owed' = IF owed = Irq THEN None ELSE owed
    BY <1>1, <1>4 DEF Settled
  <2>3. ResponseKept'
    BY <1>0, <1>1, <2>2 DEF PoliteInv, ResponseKept
  <2>4. Irq' # ReadAck
    BY <2>1, SpecialIrqs
  <2> QED
    BY <1>0, <1>1, <2>3, <2>4 DEF PoliteInv, ReadGoesOn, CauseIsAnnounced
<1> QED
  BY <1>3, <1>4

(* READ_ACK is taken out of the queue, and the first sector scheduled.     *)
LEMMA RespondReadKeepsPromises ==
  ASSUME IInv, PoliteInv, UNCHANGED manners, RespondRead
  PROVE  PoliteInv'
<1>0. Polite' = Polite
  BY DEF Polite
<1>1. /\ Stat = "NoIntr" /\ Irq = ReadAck /\ Irq' = None
      /\ UNCHANGED <<Reading, ended, off, handling>>
      /\ owed' = Settled(ReadAck)
  BY DEF RespondRead
<1>2. owed' = IF owed = ReadAck THEN None ELSE owed
  BY <1>1 DEF Settled, ReadAck, TwoPart
<1>3. ResponseKept'
  BY <1>0, <1>1, <1>2 DEF PoliteInv, ResponseKept
<1>4. Irq' # ReadAck
  BY <1>1, SpecialIrqs
<1>5. CASE Reading
  <2>1. readEvt' = TRUE /\ raised' = (raised \/ ~off)
    BY <1>5 DEF RespondRead
  <2> QED
    BY <1>0, <1>1, <1>3, <1>4, <2>1 DEF PoliteInv, ReadGoesOn, CauseIsAnnounced
<1>6. CASE ~Reading
  <2>1. Stat' = "NoIntr"
    BY <1>1, <1>6 DEF RespondRead
  <2> QED
    BY <1>0, <1>1, <1>3, <1>4, <1>6, <2>1 DEF PoliteInv, ReadGoesOn, CauseIsAnnounced
<1> QED
  BY <1>5, <1>6

(* A sector; the last one of a file queues a pause of the drive's own.     *)
LEMMA SectorKeepsPromises ==
  ASSUME IInv, PoliteInv, UNCHANGED manners, ReadSector \/ ReadError
  PROVE  PoliteInv'
<1>0. Polite' = Polite
  BY DEF Polite
<1>1. /\ Stat' = "DiskError" \/ raised' = TRUE
      /\ UNCHANGED <<busy, owed, off, handling>>
  BY DEF ReadSector, ReadError, ctrl, guest
<1>2. CASE UNCHANGED <<queue, reading>>
  BY <1>0, <1>1, <1>2
  DEF PoliteInv, ResponseKept, ReadGoesOn, CauseIsAnnounced, queue, reading
<1>3. CASE ended' = TRUE /\ AddIrqQueue(<<"Pause", 1>>, evt)
  <2>1. Irq' # ReadAck
    BY <1>3, SpecialIrqs, CdromAssumption DEF AddIrqQueue
  <2> QED
    BY <1>0, <1>1, <1>3, <2>1 DEF PoliteInv, ResponseKept, ReadGoesOn, CauseIsAnnounced
<1> QED
  BY <1>2, <1>3 DEF ReadSector, ReadError

(* Accesses to the registers.                                              *)
LEMMA RegistersKeepPromises ==
  ASSUME IInv, PoliteInv, UNCHANGED manners,
         \/ \E rt \in Selections : SelectIndex(rt)
         \/ \E value \in BOOLEAN : WriteReg2(value)
         \/ ReadResult \/ ResetParameters \/ TakeInterrupt \/ UNCHANGED vars
         \/ Acknowledge
  PROVE  PoliteInv'
<1>0. Polite' = Polite
  BY DEF Polite
<1>1. CASE Acknowledge
  <2>1. /\ Stat' = "NoIntr" /\ Irq' = (IF Irq = None THEN Zero ELSE Irq)
        /\ UNCHANGED <<Reading, readEvt, ended, busy, off, owed>>
    BY <1>1 DEF Acknowledge, reading, ctrl
  <2>2. Irq = None => Irq' # ReadAck
    BY <2>1, SpecialIrqs
  <2> QED
    BY <1>0, <2>1, <2>2, SpecialIrqs DEF PoliteInv, ResponseKept, ReadGoesOn, CauseIsAnnounced
<1>2. ASSUME UNCHANGED <<Stat, queue, reading, owed>>, busy => busy',
             UNCHANGED off \/ ~Polite,
             UNCHANGED guest \/ handling' = TRUE
      PROVE  PoliteInv'
  BY <1>0, <1>2
  DEF PoliteInv, ResponseKept, ReadGoesOn, CauseIsAnnounced, queue, reading, guest
<1>3. CASE TakeInterrupt
  BY <1>2, <1>3 DEF TakeInterrupt, ctrl
<1>4. CASE \E rt \in Selections : SelectIndex(rt)
  <2>1. busy => busy'
    BY <1>4, Zenon DEF SelectIndex
  <2>2. UNCHANGED <<Stat, queue, reading, owed, off, guest>>
    BY <1>4 DEF SelectIndex
  <2> QED
    BY <1>2, <2>1, <2>2
<1>5. CASE \E value \in BOOLEAN : WriteReg2(value)
  BY <1>2, <1>5 DEF WriteReg2
<1>6. CASE ReadResult \/ ResetParameters
  BY <1>2, <1>6 DEF ReadResult, ResetParameters, ctrl
<1>7. CASE UNCHANGED vars
  BY <1>2, <1>7 DEF vars, ctrl
<1> QED
  BY <1>1, <1>3, <1>4, <1>5, <1>6, <1>7

LEMMA PromisesAreKept == IInv /\ PoliteInv /\ [Next]_<<vars, manners>> => PoliteInv'
<1> SUFFICES ASSUME IInv, PoliteInv, [Next]_<<vars, manners>> PROVE PoliteInv'
  OBVIOUS
<1>0. UNCHANGED manners
  BY DEF Next
<1>1. ASSUME NEW c \in Commands, Command(c) PROVE PoliteInv'
  BY <1>0, <1>1, CommandKeepsPromises
<1>2. CASE \/ \E rt \in Selections : SelectIndex(rt)
           \/ \E value \in BOOLEAN : WriteReg2(value)
           \/ ReadResult \/ ResetParameters \/ TakeInterrupt \/ UNCHANGED vars
           \/ Acknowledge
  BY <1>0, <1>2, RegistersKeepPromises
<1>3. CASE Respond
  BY <1>0, <1>3, RespondKeepsPromises
<1>4. CASE RespondRead
  BY <1>0, <1>4, RespondReadKeepsPromises
<1>5. CASE ReadSector \/ ReadError
  BY <1>0, <1>5, SectorKeepsPromises
<1> QED
  BY <1>1, <1>2, <1>3, <1>4, <1>5, Zenon DEF Next, Step

(* Everything a polite guest relies on holds from the start.               *)
LEMMA InitPromises == Init => PoliteInv
BY SpecialIrqs DEF Init, PoliteInv, ResponseKept, ReadGoesOn, CauseIsAnnounced

(* A polite guest's command is answered before anything else, but for the  *)
(* drive's own pause at the end of a file.                                 *)
THEOREM ResponsesAreKept == Spec => []ResponseKept
<1>1. PoliteInv => ResponseKept
  BY DEF PoliteInv
<1> QED
  BY InitInvariant, Invariance, InitPromises, PromisesAreKept, <1>1, PTL DEF Spec

(* A polite guest's read does not stop before the end of the file.         *)
THEOREM ReadsGoOn == Spec => []ReadGoesOn
<1>1. PoliteInv => ReadGoesOn
  BY DEF PoliteInv
<1> QED
  BY InitInvariant, Invariance, InitPromises, PromisesAreKept, <1>1, PTL DEF Spec

(* Every cause but a read error is announced to a polite guest.            *)
THEOREM CausesAreAnnounced == Spec => []CauseIsAnnounced
<1>1. PoliteInv => CauseIsAnnounced
  BY DEF PoliteInv
<1> QED
  BY InitInvariant, Invariance, InitPromises, PromisesAreKept, <1>1, PTL DEF Spec

-----------------------------------------------------------------------------
(* While a cause is unacknowledged the guest only takes bytes of its       *)
(* result away: both events wait, and what drops the cause sets it to      *)
(* NoIntr.                                                                 *)
THEOREM ResultsAreKept == Spec => ResultsStay
<1>1. ASSUME TypeOK, [Next]_<<vars, manners>>, Stat # "NoIntr", Stat' # "NoIntr"
      PROVE  left' <= left
  <2>1. left \in Int
    BY <1>1 DEF TypeOK
  <2>2. ASSUME NEW c \in Commands, Command(c) PROVE FALSE
    BY <1>1, <2>2 DEF Command
  <2>3. CASE \/ \E rt \in Selections : SelectIndex(rt)
             \/ \E value \in BOOLEAN : WriteReg2(value)
             \/ ResetParameters \/ TakeInterrupt \/ UNCHANGED vars
    <3>1. left' = left
      BY <2>3 DEF SelectIndex, WriteReg2, ResetParameters, TakeInterrupt, vars, results
    <3>. QED  BY <2>1, <3>1
  <2>4. CASE ReadResult
    BY <2>1, <2>4 DEF ReadResult
  <2>5. CASE Acknowledge
    BY <1>1, <2>5 DEF Acknowledge
  <2>6. CASE Respond \/ RespondRead \/ ReadSector \/ ReadError
    BY <1>1, <2>6 DEF Respond, RespondRead, ReadSector, ReadError
  <2>. QED  BY <1>1, <2>2, <2>3, <2>4, <2>5, <2>6, Zenon DEF Next, Step
<1>2. TypeOK /\ [Next]_<<vars, manners>> =>
        [Stat # "NoIntr" /\ Stat' # "NoIntr" => left' <= left]_vars
  BY <1>1
<1>. QED
  BY <1>2, TypeInvariance, PTL DEF Spec, ResultsStay
=============================================================================
