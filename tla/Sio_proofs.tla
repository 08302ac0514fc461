----------------------------- MODULE Sio_proofs -----------------------------
(***************************************************************************)
(* Proofs about the serial port, for every size of a page, every set of    *)
(* addresses and any number of transfers.                                  *)
(***************************************************************************)
EXTENDS Sio, TLAPS

(* What sio.buf and the counters hold in each state of the port.           *)
Greeting == mcdst = 1 => bufcount = 3 /\ (rdwr = 0 => parp = 0)
NotSending == mcdst # 5 \/ rdwr # 2 => sent = <<>>
Sending ==
  mcdst = 5 /\ rdwr = 2 =>
    /\ bufcount = PageSize + 3
    /\ Len(sent) = IF parp < PageSize THEN parp + 1 ELSE PageSize
    /\ \A i \in 1..Len(sent) : buf[i] = sent[i]

PortOK == OneTransfer /\ Greeting /\ NotSending /\ Sending

-----------------------------------------------------------------------------
(* What a write of one byte does, case by case.                            *)
LEMMA StartCases ==
  ASSUME NEW value, StartTransfer(value)
  PROVE  \/ padst' = 1 /\ bufcount' = 2 /\ mcdst' = mcdst /\ rdwr' = rdwr
         \/ mcdst' = 1 /\ bufcount' = 3 /\ rdwr' = 0 /\ padst' = padst
<1>1. CASE value = StartPad
  BY <1>1 DEF StartTransfer, StartPad, StartCard
<1>2. CASE value = StartCard
  BY <1>2 DEF StartTransfer, StartPad, StartCard
<1> QED BY <1>1, <1>2 DEF StartTransfer

LEMMA FirstCases ==
  ASSUME NEW value, WriteFirst(value)
  PROVE  /\ rdwr = 1 => /\ bufcount' = PageSize + 5 /\ sent' = sent
                        /\ buf' = IF slot \in Cards THEN Mcd[slot][adr] ELSE buf
         /\ rdwr = 2 => /\ bufcount' = PageSize + 3 /\ sent' = <<value>>
                        /\ buf' = [buf EXCEPT ![1] = value]
         /\ rdwr \notin {1, 2} => bufcount' = bufcount /\ sent' = sent /\ buf' = buf
BY DEF WriteFirst

(* What the guest does next is one of Turns.                               *)
LEMMA TurnType ==
  ASSUME turn \in Turns, NEW now, NEW next \in Turns, Turn(now, next)
  PROVE  turn' \in Turns
BY DEF Turn

-----------------------------------------------------------------------------
(* The types of the port's variables.                                      *)
LEMMA PortStep == PortType /\ [Next]_vars => PortType'
<1> SUFFICES ASSUME PortType, [Next]_vars PROVE PortType'
  OBVIOUS
<1> USE DEF PortType
<1>1. ASSUME NEW value \in Commands, WritePadCommand(value) PROVE PortType'
  BY <1>1, SioAssumption DEF WritePadCommand, SIO_INT
<1>2. ASSUME NEW value \in Commands, WriteCardCommand(value) PROVE PortType'
  <2>1. CASE rdwr = 0
    <3>1. rdwr' \in 0..2 /\ mcdst' \in 0..5 /\ parp' \in Nat
      BY <1>2, <2>1 DEF WriteCardCommand
    <3> QED BY <1>2, <3>1 DEF WriteCardCommand, SIO_INT
  <2>2. CASE rdwr # 0
    BY <1>2, <2>2 DEF WriteCardCommand, SIO_INT
  <2> QED BY <2>1, <2>2
<1>3. ASSUME NEW value \in Commands, StartTransfer(value) PROVE PortType'
  <2>1. padst' \in 0..2 /\ mcdst' \in 0..5 /\ rdwr' \in 0..2 /\ bufcount' \in Nat
    BY <1>3, StartCases
  <2> QED BY <1>3, <2>1 DEF StartTransfer, SIO_INT
<1>4. ASSUME WritePad PROVE PortType'
  BY <1>4 DEF WritePad, SIO_INT
<1>5. ASSUME NEW page \in Pages, WriteAddress(page) PROVE PortType'
  BY <1>5 DEF WriteAddress, SIO_INT
<1>6. ASSUME NEW value \in Data, WriteFirst(value) PROVE PortType'
  <2>1. bufcount' \in Nat
    BY <1>6, FirstCases, SioAssumption
  <2> QED BY <1>6, <2>1 DEF WriteFirst, SIO_INT
<1>7. ASSUME NEW value \in Data, WriteRest(value) PROVE PortType'
  BY <1>7 DEF WriteRest, SIO_INT
<1>8. CASE ReadByte
  BY <1>8 DEF ReadByte, serial
<1>9. CASE ReadLast
  <2>1. mcdst' \in 0..5 /\ padst' \in 0..2 
    BY <1>9 DEF ReadLast
  <2> QED BY <1>9, <2>1 DEF ReadLast
<1>10. ASSUME NEW s \in Slots, Reset(s) PROVE PortType'
  BY <1>10 DEF Reset
<1>11. ASSUME NEW s \in Slots, NEW reset_err \in BOOLEAN, WriteCtrl(s, reset_err)
       PROVE  PortType'
  BY <1>11 DEF WriteCtrl, serial
<1>12. CASE sioInterrupt
  BY <1>12 DEF sioInterrupt, serial
<1>13. ASSUME NEW loaded \in SUBSET Cards, sioInit(loaded) PROVE PortType'
  BY <1>13 DEF sioInit
<1>14. CASE UNCHANGED vars
  BY <1>14 DEF vars, serial
<1> QED
  BY <1>1, <1>2, <1>3, <1>4, <1>5, <1>6, <1>7, <1>8, <1>9, <1>10, <1>11, <1>12,
     <1>13, <1>14 DEF Next, Write

(* The types of its flags.                                                 *)
LEMMA LineStep == LineType /\ [Next]_vars => LineType'
<1> SUFFICES ASSUME LineType, [Next]_vars PROVE LineType'
  OBVIOUS
<1> USE DEF LineType
<1>1. CASE Write
  <2>1. CASE WritePad
    BY <2>1 DEF WritePad, SIO_INT
  <2>2. CASE ~WritePad
    BY <1>1, <2>2 DEF Write, SIO_INT, WritePadCommand, WriteCardCommand, StartTransfer,
                      WriteAddress, WriteFirst, WriteRest
  <2> QED BY <2>1, <2>2
<1>2. CASE ReadByte
  BY <1>2 DEF ReadByte
<1>3. CASE ReadLast
  BY <1>3 DEF ReadLast
<1>4. ASSUME NEW s \in Slots, Reset(s) PROVE LineType'
  BY <1>4 DEF Reset
<1>5. ASSUME NEW s \in Slots, NEW reset_err \in BOOLEAN, WriteCtrl(s, reset_err)
      PROVE  LineType'
  BY <1>5 DEF WriteCtrl
<1>6. CASE sioInterrupt
  BY <1>6 DEF sioInterrupt
<1>7. ASSUME NEW loaded \in SUBSET Cards, sioInit(loaded) PROVE LineType'
  BY <1>7 DEF sioInit
<1>8. CASE UNCHANGED vars
  BY <1>8 DEF vars
<1> QED BY <1>1, <1>2, <1>3, <1>4, <1>5, <1>6, <1>7, <1>8 DEF Next

(* The guest's turn.                                                       *)
LEMMA TurnStep == turn \in Turns /\ [Next]_vars => turn' \in Turns
<1> SUFFICES ASSUME turn \in Turns, [Next]_vars PROVE turn' \in Turns
  OBVIOUS
<1>0. {"write", "wait", "read", "acknowledge"} \subseteq Turns
  BY DEF Turns
<1>1. ASSUME SIO_INT PROVE turn' \in Turns
  BY <1>0, <1>1, TurnType DEF SIO_INT
<1>2. CASE Write
  <2>1. CASE WritePad
    BY <1>0, <1>1, <2>1, TurnType DEF WritePad
  <2>2. CASE ~WritePad
    <3>1. SIO_INT
      BY <1>2, <2>2 DEF Write, WritePadCommand, WriteCardCommand, StartTransfer,
                        WriteAddress, WriteFirst, WriteRest
    <3> QED BY <1>1, <3>1
  <2> QED BY <2>1, <2>2
<1>3. CASE ReadByte \/ ReadLast
  BY <1>0, <1>3, TurnType DEF ReadByte, ReadLast
<1>4. ASSUME NEW s \in Slots, Reset(s) PROVE turn' \in Turns
  BY <1>0, <1>4 DEF Reset
<1>5. ASSUME NEW s \in Slots, NEW reset_err \in BOOLEAN, WriteCtrl(s, reset_err)
      PROVE  turn' \in Turns
  BY <1>0, <1>5, TurnType DEF WriteCtrl
<1>6. CASE sioInterrupt
  BY <1>0, <1>6 DEF sioInterrupt
<1>7. ASSUME NEW loaded \in SUBSET Cards, sioInit(loaded) PROVE turn' \in Turns
  BY <1>7 DEF sioInit, Turns
<1>8. CASE UNCHANGED vars
  BY <1>8 DEF vars
<1> QED BY <1>2, <1>3, <1>4, <1>5, <1>6, <1>7, <1>8 DEF Next

(* The types of the cards, their files and the page between.               *)
LEMMA StoreType ==
  ASSUME CardType, StorePage
  PROVE  /\ Mcd' \in [Cards -> [Pages -> Page]] /\ file' \in [Cards -> [Pages -> Page]]
         /\ unsaved' \subseteq Cards \X Pages
<1>1. CASE rdwr = 2 /\ slot \in Cards
  <2>1. Mcd' = [Mcd EXCEPT ![slot][adr] = buf] /\ SaveMcd(slot)
    BY <1>1 DEF StorePage
  <2>2. Mcd' \in [Cards -> [Pages -> Page]]
    BY <1>1, <2>1 DEF CardType
  <2>3. Mcd'[slot] \in [Pages -> Page] /\ Mcd'[slot][adr] \in Page
    BY <1>1, <2>2 DEF CardType
  <2>4. CASE file' = [file EXCEPT ![slot][adr] = Mcd'[slot][adr]]
             /\ unsaved' = unsaved \ {<<slot, adr>>}
    BY <1>1, <2>2, <2>3, <2>4 DEF CardType
  <2>5. CASE file' = [file EXCEPT ![slot] = Mcd'[slot]]
             /\ unsaved' = unsaved \ ({slot} \X Pages)
    BY <1>1, <2>2, <2>3, <2>5 DEF CardType
  <2>6. CASE file' = file /\ unsaved' = unsaved \union {<<slot, adr>>}
    BY <1>1, <2>2, <2>6 DEF CardType
  <2>7. ASSUME NEW n \in 1..PageSize-1,
               file' = [file EXCEPT ![slot][adr] = CutShort(Mcd'[slot][adr], @, n)],
               unsaved' = unsaved \union {<<slot, adr>>}
        PROVE  file' \in [Cards -> [Pages -> Page]] /\ unsaved' \subseteq Cards \X Pages
    <3>1. file[slot][adr] \in Page
      BY <1>1 DEF CardType
    <3>2. CutShort(Mcd'[slot][adr], file[slot][adr], n) \in Page
      BY <2>3, <3>1, SioAssumption DEF CutShort, Page
    <3>3. file' \in [Cards -> [Pages -> Page]]
      BY <1>1, <2>7, <3>2 DEF CardType
    <3> QED BY <1>1, <2>7, <3>3 DEF CardType
  <2> QED BY <2>1, <2>2, <2>4, <2>5, <2>6, <2>7 DEF SaveMcd, ConvertMcd
<1>2. CASE ~(rdwr = 2 /\ slot \in Cards)
  BY <1>2 DEF CardType, StorePage, cards
<1> QED BY <1>1, <1>2

LEMMA CardStep == CardType /\ [Next]_vars => CardType'
<1> SUFFICES ASSUME CardType, [Next]_vars PROVE CardType'
  OBVIOUS
<1>1. ASSUME NEW value \in Commands,
             WritePadCommand(value) \/ WriteCardCommand(value) \/ StartTransfer(value)
      PROVE  CardType'
  BY <1>1 DEF CardType, WritePadCommand, WriteCardCommand, StartTransfer, cards
<1>2. CASE WritePad
  BY <1>2 DEF CardType, WritePad, cards
<1>3. ASSUME NEW page \in Pages, WriteAddress(page) PROVE CardType'
  BY <1>3 DEF CardType, WriteAddress, cards
<1>4. ASSUME NEW value \in Data, WriteFirst(value) PROVE CardType'
  <2>1. CASE rdwr = 1
    <3>1. buf' \in Page
      BY <1>4, <2>1, FirstCases DEF CardType
    <3> QED BY <1>4, <2>1, <3>1, FirstCases DEF CardType, WriteFirst, cards
  <2>2. CASE rdwr = 2
    <3>1. buf' = [buf EXCEPT ![1] = value] /\ sent' = <<value>>
      BY <1>4, <2>2, FirstCases
    <3>2. buf' \in Page
      BY <3>1 DEF CardType, Page
    <3>3. sent' \in Seq(Data)
      BY <3>1
    <3> QED BY <1>4, <3>2, <3>3 DEF CardType, WriteFirst, cards
  <2>3. CASE rdwr \notin {1, 2}
    <3>1. buf' = buf /\ sent' = sent
      BY <1>4, <2>3, FirstCases
    <3> QED BY <1>4, <3>1 DEF CardType, WriteFirst, cards
  <2> QED BY <2>1, <2>2, <2>3
<1>5. ASSUME NEW value \in Data, WriteRest(value) PROVE CardType'
  <2>1. buf' \in Page
    BY <1>5 DEF CardType, WriteRest, Page
  <2>2. sent' \in Seq(Data)
    BY <1>5 DEF CardType, WriteRest
  <2> QED BY <1>5, <2>1, <2>2 DEF CardType, WriteRest, cards
<1>6. CASE ReadByte
  BY <1>6 DEF CardType, ReadByte, cards
<1>7. CASE ReadLast
  <2>1. /\ Mcd' \in [Cards -> [Pages -> Page]] /\ file' \in [Cards -> [Pages -> Page]]
        /\ unsaved' \subseteq Cards \X Pages
    <3>1. StorePage \/ UNCHANGED cards
      BY <1>7 DEF ReadLast
    <3> QED BY <3>1, StoreType DEF cards, CardType
  <2>2. sent' = <<>> \/ sent' = sent
    BY <1>7 DEF ReadLast
  <2>3. sent' \in Seq(Data)
    <3>1. CASE sent' = <<>>
      BY <3>1
    <3>2. CASE sent' = sent
      BY <3>2 DEF CardType
    <3> QED BY <2>2, <3>1, <3>2
  <2> QED BY <1>7, <2>1, <2>3 DEF CardType, ReadLast
<1>8. ASSUME NEW s \in Slots, Reset(s) PROVE CardType'
  <2>1. sent' = <<>>
    BY <1>8 DEF Reset
  <2>2. sent' \in Seq(Data)
    BY <2>1
  <2> QED BY <1>8, <2>2 DEF CardType, Reset, cards
<1>9. ASSUME NEW s \in Slots, NEW reset_err \in BOOLEAN, WriteCtrl(s, reset_err)
      PROVE  CardType'
  BY <1>9 DEF CardType, WriteCtrl, cards
<1>10. CASE sioInterrupt
  BY <1>10 DEF CardType, sioInterrupt, cards
<1>11. ASSUME NEW loaded \in SUBSET Cards, sioInit(loaded) PROVE CardType'
  <2>1. Mcd' \in [Cards -> [Pages -> Page]]
    BY <1>11 DEF CardType, sioInit, LoadMcds
  <2>2. buf' \in Page /\ adr' \in Pages /\ slot' \in Slots
    BY <1>11, SioAssumption DEF sioInit, Page, Slots
  <2>3. sent' \in Seq(Data) /\ unsaved' \subseteq Cards \X Pages
    BY <1>11 DEF CardType, sioInit, LoadMcds
  <2> QED BY <1>11, <2>1, <2>2, <2>3 DEF CardType, sioInit, LoadMcds
<1>12. CASE UNCHANGED vars
  BY <1>12 DEF CardType, vars, cards
<1> QED
  BY <1>1, <1>2, <1>3, <1>4, <1>5, <1>6, <1>7, <1>8, <1>9, <1>10, <1>11, <1>12
  DEF Next, Write

LEMMA InitType == Init => TypeOK
<1> SUFFICES ASSUME Init PROVE TypeOK
  OBVIOUS
<1>1. buf \in Page /\ Blank \in [Pages -> Page]
  BY SioAssumption DEF Init, Page, Blank
<1>2. Mcd \in [Cards -> [Pages -> Page]] /\ file \in [Cards -> [Pages -> Page]]
  BY <1>1 DEF Init
<1>3. sent \in Seq(Data) /\ unsaved \subseteq Cards \X Pages
  BY DEF Init
<1>4. CardType
  BY <1>1, <1>2, <1>3, SioAssumption DEF Init, CardType, Slots
<1>5. PortType /\ turn \in Turns
  BY DEF Init, PortType, Turns
<1>6. LineType
  BY DEF Init, LineType
<1> QED BY <1>4, <1>5, <1>6 DEF TypeOK

LEMMA TypeStep == TypeOK /\ [Next]_vars => TypeOK'
BY PortStep, LineStep, TurnStep, CardStep DEF TypeOK

(* Every variable keeps its type.                                          *)
THEOREM TypeInvariance == Spec => []TypeOK
<1>1. Init => TypeOK
  BY InitType
<1>2. TypeOK /\ [Next]_vars => TypeOK'
  BY TypeStep
<1> QED BY <1>1, <1>2, PTL DEF Spec

-----------------------------------------------------------------------------
(* The state of the transfer.                                              *)
LEMMA InitPort == Init => PortOK
BY DEF Init, PortOK, OneTransfer, Greeting, NotSending, Sending

(* A byte of a page goes to the place in sio.buf that it has among the     *)
(* bytes that were sent.                                                   *)
LEMMA RestSending ==
  ASSUME TypeOK, Sending, NEW value \in Data, WriteRest(value), rdwr = 2
  PROVE  Sending'
<1>1. /\ mcdst = 5 /\ parp' = parp + 1 /\ bufcount' = bufcount
      /\ buf' = IF parp' < PageSize THEN [buf EXCEPT ![parp' + 1] = value] ELSE buf
      /\ sent' = IF Len(sent) < PageSize THEN Append(sent, value) ELSE sent
  BY DEF WriteRest
<1>2. /\ parp \in Nat /\ PageSize \in Nat \ {0} /\ sent \in Seq(Data)
      /\ buf \in [1..PageSize -> Data]
  BY SioAssumption DEF TypeOK, PortType, CardType, Page
<1>3. /\ bufcount = PageSize + 3
      /\ Len(sent) = IF parp < PageSize THEN parp + 1 ELSE PageSize
      /\ \A i \in 1..Len(sent) : buf[i] = sent[i]
  BY <1>1 DEF Sending
<1>4. CASE parp + 1 < PageSize
  <2>1. buf' = [buf EXCEPT ![parp + 2] = value] /\ sent' = Append(sent, value)
    BY <1>1, <1>2, <1>3, <1>4
  <2>2. Len(sent') = parp + 2
    BY <1>2, <1>3, <1>4, <2>1
  <2>3. \A i \in 1..Len(sent') : buf'[i] = sent'[i]
    BY <1>2, <1>3, <1>4, <2>1, <2>2
  <2> QED BY <1>1, <1>2, <1>3, <1>4, <2>2, <2>3 DEF Sending
<1>5. CASE ~(parp + 1 < PageSize)
  <2>1. buf' = buf /\ sent' = sent /\ Len(sent) = PageSize
    BY <1>1, <1>2, <1>3, <1>5
  <2> QED BY <1>1, <1>2, <1>3, <1>5, <2>1 DEF Sending
<1> QED BY <1>4, <1>5

LEMMA PortOKStep == TypeOK /\ PortOK /\ [Next]_vars => PortOK'
<1> SUFFICES ASSUME TypeOK, PortOK, [Next]_vars PROVE PortOK'
  OBVIOUS
<1>0. OneTransfer /\ Greeting /\ NotSending /\ Sending
  BY DEF PortOK
<1> USE DEF PortOK, OneTransfer, Greeting, NotSending, Sending
<1>1. ASSUME NEW value \in Commands, WritePadCommand(value) PROVE PortOK'
  BY <1>0, <1>1 DEF WritePadCommand
<1>2. ASSUME NEW value \in Commands, WriteCardCommand(value) PROVE PortOK'
  BY <1>0, <1>2 DEF WriteCardCommand
<1>3. ASSUME NEW value \in Commands, StartTransfer(value) PROVE PortOK'
  <2>1. Idle /\ sent' = sent /\ parp' = 0
    BY <1>3 DEF StartTransfer
  <2> QED BY <1>0, <1>3, <2>1, StartCases DEF Idle
<1>4. CASE WritePad
  BY <1>0, <1>4 DEF WritePad
<1>5. ASSUME NEW page \in Pages, WriteAddress(page) PROVE PortOK'
  BY <1>0, <1>5 DEF WriteAddress
<1>6. ASSUME NEW value \in Data, WriteFirst(value) PROVE PortOK'
  <2>1. mcdst = 4 /\ mcdst' = 5 /\ rdwr' = rdwr /\ padst' = padst /\ parp' = 0
    BY <1>6 DEF WriteFirst
  <2>2. CASE rdwr = 2
    <3>1. /\ sent' = <<value>> /\ bufcount' = PageSize + 3
          /\ buf' = [buf EXCEPT ![1] = value]
      BY <1>6, <2>2, FirstCases
    <3>2. buf'[1] = value
      BY <3>1, SioAssumption DEF TypeOK, CardType, Page
    <3> QED BY <1>0, <2>1, <2>2, <3>1, <3>2, SioAssumption
  <2>3. CASE rdwr # 2
    <3>1. sent' = sent
      BY <1>6, <2>3, FirstCases
    <3> QED BY <1>0, <2>1, <2>3, <3>1
  <2> QED BY <2>2, <2>3
<1>7. ASSUME NEW value \in Data, WriteRest(value) PROVE PortOK'
  <2>1. mcdst = 5 /\ mcdst' = 5 /\ rdwr' = rdwr /\ padst' = padst
    BY <1>7 DEF WriteRest
  <2>2. CASE rdwr = 2
    <3>1. Sending'
      BY <1>0, <1>7, <2>2, RestSending
    <3> QED BY <1>0, <2>1, <2>2, <3>1
  <2>3. CASE rdwr # 2
    <3>1. sent' = sent
      BY <1>7, <2>3 DEF WriteRest
    <3> QED BY <1>0, <2>1, <2>3, <3>1
  <2> QED BY <2>2, <2>3
<1>8. CASE ReadLast
  <2>1. /\ rdwr' = rdwr /\ parp' = parp /\ bufcount' = bufcount /\ buf' = buf
        /\ parp = bufcount
        /\ mcdst' = (CASE mcdst = 5 -> 0 [] mcdst = 1 -> 2 [] OTHER -> mcdst)
        /\ padst' = IF padst = 2 THEN 0 ELSE padst
        /\ sent' = IF mcdst = 5 THEN <<>> ELSE sent
    BY <1>8 DEF ReadLast
  <2>2. mcdst = 5 => mcdst' = 0
    BY <2>1
  <2>3. mcdst = 1 => mcdst' = 2
    BY <2>1
  <2>4. mcdst \notin {1, 5} => mcdst' = mcdst
    BY <2>1
  <2> QED BY <1>0, <2>1, <2>2, <2>3, <2>4
<1>9. CASE ReadByte \/ sioInterrupt
  BY <1>0, <1>9 DEF ReadByte, sioInterrupt, serial
<1>10. ASSUME NEW s \in Slots, Reset(s) PROVE PortOK'
  BY <1>10 DEF Reset
<1>11. ASSUME NEW s \in Slots, NEW reset_err \in BOOLEAN, WriteCtrl(s, reset_err)
       PROVE  PortOK'
  BY <1>0, <1>11 DEF WriteCtrl, serial
<1>12. ASSUME NEW loaded \in SUBSET Cards, sioInit(loaded) PROVE PortOK'
  BY <1>12 DEF sioInit
<1>13. CASE UNCHANGED vars
  BY <1>0, <1>13 DEF vars, serial
<1> QED
  BY <1>1, <1>2, <1>3, <1>4, <1>5, <1>6, <1>7, <1>8, <1>9, <1>10, <1>11, <1>12, <1>13
  DEF Next, Write

LEMMA PortInvariance == Spec => [](TypeOK /\ PortOK)
<1>1. Init => TypeOK /\ PortOK
  BY InitType, InitPort
<1>2. TypeOK /\ PortOK /\ [Next]_vars => (TypeOK /\ PortOK)'
  BY TypeStep, PortOKStep
<1> QED BY <1>1, <1>2, PTL DEF Spec

(* The port talks to one device at a time, and to a card about a page only *)
(* once it knows what to do with it.                                       *)
THEOREM OneDevice == Spec => []OneTransfer
<1>1. PortOK => OneTransfer
  BY DEF PortOK
<1> QED BY <1>1, PortInvariance, PTL

-----------------------------------------------------------------------------
(* Resets and interrupts.                                                  *)
LEMMA StrayStep == LineType /\ NoStrayInterrupt /\ [Next]_vars => NoStrayInterrupt'
<1> SUFFICES ASSUME LineType, NoStrayInterrupt, [Next]_vars PROVE NoStrayInterrupt'
  OBVIOUS
<1> USE DEF NoStrayInterrupt
<1>1. CASE Write
  <2>1. CASE WritePad
    BY <2>1 DEF WritePad, SIO_INT
  <2>2. CASE ~WritePad
    <3>1. SIO_INT
      BY <1>1, <2>2 DEF Write, WritePadCommand, WriteCardCommand, StartTransfer,
                        WriteAddress, WriteFirst, WriteRest
    <3> QED BY <3>1 DEF SIO_INT
  <2> QED BY <2>1, <2>2
<1>2. CASE ReadByte \/ ReadLast
  BY <1>2 DEF ReadByte, ReadLast
<1>3. ASSUME NEW s \in Slots, Reset(s) PROVE NoStrayInterrupt'
  BY <1>3 DEF Reset
<1>4. ASSUME NEW s \in Slots, NEW reset_err \in BOOLEAN, WriteCtrl(s, reset_err)
      PROVE  NoStrayInterrupt'
  BY <1>4 DEF WriteCtrl
<1>5. CASE sioInterrupt
  BY <1>5 DEF sioInterrupt
<1>6. ASSUME NEW loaded \in SUBSET Cards, sioInit(loaded) PROVE NoStrayInterrupt'
  BY <1>6 DEF sioInit
<1>7. CASE UNCHANGED vars
  BY <1>7 DEF vars
<1> QED BY <1>1, <1>2, <1>3, <1>4, <1>5, <1>6, <1>7 DEF Next

(* No interrupt comes after a reset for a byte that was sent before it.    *)
THEOREM NoInterruptOutlivesReset == Spec => []NoStrayInterrupt
<1>1. Init => LineType /\ NoStrayInterrupt
  BY InitType DEF Init, TypeOK, NoStrayInterrupt
<1>2. LineType /\ NoStrayInterrupt /\ [Next]_vars => (LineType /\ NoStrayInterrupt)'
  BY StrayStep, LineStep
<1> QED BY <1>1, <1>2, PTL DEF Spec

-----------------------------------------------------------------------------
(* The cards and their files.                                              *)
LEMMA StoreKeepsUp ==
  ASSUME CardType, FileKeepsUp, StorePage
  PROVE  FileKeepsUp'
<1>1. CASE rdwr = 2 /\ slot \in Cards
  <2>1. Mcd' = [Mcd EXCEPT ![slot][adr] = buf] /\ SaveMcd(slot)
    BY <1>1 DEF StorePage
  <2>2. SUFFICES ASSUME NEW c \in Cards, NEW p \in Pages, <<c, p>> \notin unsaved'
                 PROVE  file'[c][p] = Mcd'[c][p]
    BY DEF FileKeepsUp
  <2>3. CASE file' = [file EXCEPT ![slot][adr] = Mcd'[slot][adr]]
             /\ unsaved' = unsaved \ {<<slot, adr>>}
    <3>1. CASE c = slot /\ p = adr
      BY <1>1, <2>3, <3>1 DEF CardType
    <3>2. CASE ~(c = slot /\ p = adr)
      <4>1. <<c, p>> \notin unsaved
        BY <2>2, <2>3, <3>2
      <4>2. file'[c][p] = file[c][p] /\ Mcd'[c][p] = Mcd[c][p]
        BY <1>1, <2>1, <2>3, <3>2 DEF CardType
      <4> QED BY <4>1, <4>2 DEF FileKeepsUp
    <3> QED BY <3>1, <3>2
  <2>4. CASE file' = [file EXCEPT ![slot] = Mcd'[slot]]
             /\ unsaved' = unsaved \ ({slot} \X Pages)
    <3>1. CASE c = slot
      BY <1>1, <2>4, <3>1 DEF CardType
    <3>2. CASE c # slot
      <4>1. <<c, p>> \notin unsaved
        BY <2>2, <2>4, <3>2
      <4>2. file'[c][p] = file[c][p] /\ Mcd'[c][p] = Mcd[c][p]
        BY <1>1, <2>1, <2>4, <3>2 DEF CardType
      <4> QED BY <4>1, <4>2 DEF FileKeepsUp
    <3> QED BY <3>1, <3>2
  <2>5. CASE file' = file /\ unsaved' = unsaved \union {<<slot, adr>>}
    <3>1. <<c, p>> \notin unsaved /\ ~(c = slot /\ p = adr)
      BY <2>2, <2>5
    <3>2. Mcd'[c][p] = Mcd[c][p]
      BY <1>1, <2>1, <3>1 DEF CardType
    <3> QED BY <2>5, <3>1, <3>2 DEF FileKeepsUp
  <2>6. ASSUME NEW n \in 1..PageSize-1,
               file' = [file EXCEPT ![slot][adr] = CutShort(Mcd'[slot][adr], @, n)],
               unsaved' = unsaved \union {<<slot, adr>>}
        PROVE  file'[c][p] = Mcd'[c][p]
    <3>1. <<c, p>> \notin unsaved /\ ~(c = slot /\ p = adr)
      BY <2>2, <2>6
    <3>2. file'[c][p] = file[c][p] /\ Mcd'[c][p] = Mcd[c][p]
      BY <1>1, <2>1, <2>6, <3>1 DEF CardType
    <3> QED BY <3>1, <3>2 DEF FileKeepsUp
  <2> QED BY <2>1, <2>3, <2>4, <2>5, <2>6 DEF SaveMcd, ConvertMcd
<1>2. CASE ~(rdwr = 2 /\ slot \in Cards)
  BY <1>2 DEF StorePage, cards, FileKeepsUp
<1> QED BY <1>1, <1>2

(* Every other step but a restart leaves the cards alone.                  *)
LEMMA CardsKept ==
  ASSUME [Next]_vars
  PROVE  \/ UNCHANGED cards
         \/ ReadLast /\ mcdst = 5 /\ StorePage
         \/ \E loaded \in SUBSET Cards : sioInit(loaded)
<1>1. CASE Write
  BY <1>1 DEF Write, WritePadCommand, WriteCardCommand, StartTransfer, WritePad,
              WriteAddress, WriteFirst, WriteRest
<1>2. CASE ReadByte
  BY <1>2 DEF ReadByte
<1>3. CASE ReadLast
  BY <1>3 DEF ReadLast
<1>4. ASSUME NEW s \in Slots, Reset(s) PROVE UNCHANGED cards
  BY <1>4 DEF Reset
<1>5. ASSUME NEW s \in Slots, NEW reset_err \in BOOLEAN, WriteCtrl(s, reset_err)
      PROVE  UNCHANGED cards
  BY <1>5 DEF WriteCtrl
<1>6. CASE sioInterrupt
  BY <1>6 DEF sioInterrupt
<1>7. CASE UNCHANGED vars
  BY <1>7 DEF vars
<1> QED BY <1>1, <1>2, <1>3, <1>4, <1>5, <1>6, <1>7 DEF Next

LEMMA KeepsUpStep == CardType /\ FileKeepsUp /\ [Next]_vars => FileKeepsUp'
<1> SUFFICES ASSUME CardType, FileKeepsUp, [Next]_vars PROVE FileKeepsUp'
  OBVIOUS
<1>1. CASE UNCHANGED cards
  BY <1>1 DEF cards, FileKeepsUp
<1>2. CASE StorePage
  BY <1>2, StoreKeepsUp
<1>3. ASSUME NEW loaded \in SUBSET Cards, sioInit(loaded) PROVE FileKeepsUp'
  <2>1. SUFFICES ASSUME NEW c \in Cards, NEW p \in Pages, <<c, p>> \notin unsaved'
                 PROVE  file'[c][p] = Mcd'[c][p]
    BY DEF FileKeepsUp
  <2>2. file' = file /\ Mcd'[c] = IF c \in loaded THEN file[c] ELSE Mcd[c]
    BY <1>3 DEF sioInit, LoadMcds
  <2>3. c \notin loaded => <<c, p>> \notin unsaved
    BY <1>3, <2>1 DEF sioInit, LoadMcds
  <2> QED BY <2>2, <2>3 DEF FileKeepsUp
<1> QED BY <1>1, <1>2, <1>3, CardsKept

(* A file differs from its card only in pages whose last save failed.      *)
THEOREM FileFollowsCard == Spec => []FileKeepsUp
<1>1. Init => CardType /\ FileKeepsUp
  BY InitType DEF Init, TypeOK, FileKeepsUp
<1>2. CardType /\ FileKeepsUp /\ [Next]_vars => (CardType /\ FileKeepsUp)'
  BY KeepsUpStep, CardStep
<1> QED BY <1>1, <1>2, PTL DEF Spec

-----------------------------------------------------------------------------
(* Pages.                                                                  *)

(* When the last byte of the answer is read, sio.buf is the page as sent.  *)
LEMMA PageSent ==
  ASSUME TypeOK, PortOK, ReadLast, mcdst = 5, rdwr = 2
  PROVE  Len(sent) = PageSize /\ sent = buf
<1>1. parp = bufcount /\ bufcount = PageSize + 3
  BY DEF ReadLast, PortOK, Sending
<1>2. Len(sent) = PageSize /\ \A i \in 1..Len(sent) : buf[i] = sent[i]
  BY <1>1, SioAssumption DEF PortOK, Sending
<1>3. sent \in Seq(Data) /\ buf \in [1..PageSize -> Data]
  BY DEF TypeOK, CardType, Page
<1>4. sent \in [1..PageSize -> Data]
  BY <1>2, <1>3
<1> QED BY <1>2, <1>3, <1>4

(* The end of a transfer stores the page or drops what was sent.           *)
LEMMA ReadLastMaps ==
  ASSUME TypeOK, PortOK, ReadLast
  PROVE  (\E c \in Cards : Card!Store(c)) \/ Card!Abandon \/ UNCHANGED Card!vars
<1>1. adr' = adr
  BY DEF ReadLast
<1>2. CASE mcdst = 5 /\ rdwr = 2 /\ slot \in Cards
  <2>1. Len(sent) = PageSize /\ sent = buf
    BY <1>2, PageSent
  <2>2. Mcd' = [Mcd EXCEPT ![slot][adr] = sent] /\ SaveMcd(slot) /\ sent' = <<>>
    BY <1>2, <2>1 DEF ReadLast, StorePage
  <2>3. Mcd'[slot][adr] = sent
    BY <1>2, <2>2 DEF TypeOK, CardType
  <2>4. \/ file' = [file EXCEPT ![slot][adr] = sent]
        \/ file' = [file EXCEPT ![slot] = Mcd'[slot]]
        \/ file' = file
        \/ \E n \in 1..PageSize-1 :
             file' = [file EXCEPT ![slot][adr] = CutShort(sent, @, n)]
    BY <2>2, <2>3 DEF SaveMcd, ConvertMcd
  <2>6. \A n \in 1..PageSize-1 :
          CutShort(sent, file[slot][adr], n) = Card!Partly(file[slot][adr], n)
    BY DEF CutShort, Card!Partly
  <2>7. 1..PageSize-1 \subseteq 1..PageSize
    BY SioAssumption
  <2>5. Card!Store(slot)
    BY <1>1, <2>1, <2>2, <2>4, <2>6, <2>7 DEF Card!Store
  <2> QED BY <1>2, <2>5
<1>3. CASE mcdst = 5 /\ ~(rdwr = 2 /\ slot \in Cards)
  BY <1>1, <1>3 DEF ReadLast, StorePage, cards, Card!Abandon
<1>4. CASE mcdst # 5
  BY <1>1, <1>4 DEF ReadLast, cards, Card!vars
<1> QED BY <1>2, <1>3, <1>4

LEMMA StepMaps ==
  ASSUME TypeOK, PortOK, [Next]_vars
  PROVE  [Card!Next]_(Card!vars)
<1> USE DEF Card!Next
<1>1. ASSUME NEW value \in Commands,
             WritePadCommand(value) \/ WriteCardCommand(value) \/ StartTransfer(value)
      PROVE  UNCHANGED Card!vars
  BY <1>1 DEF WritePadCommand, WriteCardCommand, StartTransfer, cards, Card!vars
<1>2. ASSUME NEW page \in Pages, WriteAddress(page) PROVE Card!Address(adr')
  <2>1. sent = <<>>
    BY <1>2 DEF WriteAddress, PortOK, NotSending
  <2> QED BY <1>2, <2>1 DEF WriteAddress, cards, Card!Address
<1>3. adr' \in Pages
  BY TypeStep DEF TypeOK, CardType
<1>4. ASSUME NEW value \in Data, WriteFirst(value)
      PROVE  Card!Send(value) \/ UNCHANGED Card!vars
  <2>1. adr' = adr /\ UNCHANGED cards /\ mcdst = 4
    BY <1>4 DEF WriteFirst
  <2>2. CASE rdwr = 2
    <3>1. sent = <<>> /\ sent' = <<value>>
      BY <1>4, <2>1, <2>2, FirstCases DEF PortOK, NotSending
    <3>2. sent' = Append(sent, value) /\ Len(sent) < PageSize
      BY <3>1, SioAssumption
    <3> QED BY <2>1, <3>2 DEF cards, Card!Send
  <2>3. CASE rdwr # 2
    <3>1. sent' = sent
      BY <1>4, <2>3, FirstCases
    <3> QED BY <2>1, <3>1 DEF cards, Card!vars
  <2> QED BY <2>2, <2>3
<1>5. ASSUME NEW value \in Data, WriteRest(value)
      PROVE  Card!Send(value) \/ UNCHANGED Card!vars
  BY <1>5 DEF WriteRest, cards, Card!Send, Card!vars
<1>6. CASE WritePad \/ ReadByte \/ sioInterrupt
  BY <1>6 DEF WritePad, ReadByte, sioInterrupt, SIO_INT, cards, Card!vars
<1>7. CASE ReadLast
  BY <1>7, ReadLastMaps
<1>8. ASSUME NEW s \in Slots, Reset(s) PROVE Card!Abandon
  BY <1>8 DEF Reset, cards, Card!Abandon
<1>9. ASSUME NEW s \in Slots, NEW reset_err \in BOOLEAN, WriteCtrl(s, reset_err)
      PROVE  UNCHANGED Card!vars
  BY <1>9 DEF WriteCtrl, cards, Card!vars
<1>10. ASSUME NEW loaded \in SUBSET Cards, sioInit(loaded) PROVE Card!Restart(loaded)
  BY <1>10, SioAssumption DEF sioInit, LoadMcds, Card!Restart
<1>11. CASE UNCHANGED vars
  BY <1>11 DEF vars, cards, Card!vars
<1> QED
  BY <1>1, <1>2, <1>3, <1>4, <1>5, <1>6, <1>7, <1>8, <1>9, <1>10, <1>11 DEF Next, Write

(* The port with its buffer, its states and its files keeps the promise of *)
(* a memory card (sioWrite8, sioRead8, SaveMcd): a page changes as a       *)
(* whole, to what was sent for it.                                         *)
THEOREM Refinement == Spec => RefinesCard
<1>1. Init => Card!Init
  <2> SUFFICES ASSUME Init PROVE Card!Init
    OBVIOUS
  <2>1. CardType
    BY InitType DEF TypeOK
  <2>2. Card!Page = Page
    BY DEF Card!Page, Page
  <2> QED BY <2>1, <2>2 DEF Init, CardType, Card!Init
<1>2. TypeOK /\ PortOK /\ [Next]_vars => [Card!Next]_(Card!vars)
  BY StepMaps
<1> QED BY <1>1, <1>2, PortInvariance, PTL DEF Spec, RefinesCard, Card!Spec

(* When a patient guest's transfer of a page ends, the page is on the card *)
(* it selected: a patient guest resets only between transfers, so mcdst    *)
(* falls from 5 to 0 only in sioRead8.                                     *)
THEOREM PagesArrive == Spec => PageArrives
<1> DEFINE Arrives ==
      (Patient /\ mcdst = 5 /\ mcdst' = 0 /\ rdwr = 2 /\ slot \in Cards /\ turn' # "any")
         => Mcd'[slot][adr] = sent
<1>1. ASSUME TypeOK, PortOK, [Next]_vars PROVE Arrives
  <2> SUFFICES ASSUME Patient, mcdst = 5, mcdst' = 0, rdwr = 2, slot \in Cards, turn' # "any"
               PROVE  Mcd'[slot][adr] = sent
    OBVIOUS
  <2>1. CASE ReadLast
    <3>1. sent = buf
      BY <1>1, <2>1, PageSent
    <3>2. Mcd' = [Mcd EXCEPT ![slot][adr] = sent]
      BY <2>1, <3>1 DEF ReadLast, StorePage
    <3> QED BY <1>1, <3>2 DEF TypeOK, CardType
  <2>2. ASSUME Write PROVE FALSE
    BY <2>2 DEF Write, WritePadCommand, WriteCardCommand, StartTransfer, WritePad,
                WriteAddress, WriteFirst, WriteRest, Idle
  <2>3. ASSUME NEW s \in Slots, Reset(s) PROVE FALSE
    BY <2>3 DEF Reset, Idle
  <2>4. ASSUME NEW s \in Slots, NEW reset_err \in BOOLEAN, WriteCtrl(s, reset_err)
        PROVE  FALSE
    BY <2>4 DEF WriteCtrl, serial
  <2>5. ASSUME ReadByte \/ sioInterrupt PROVE FALSE
    BY <2>5 DEF ReadByte, sioInterrupt, serial
  <2>6. ASSUME NEW loaded \in SUBSET Cards, sioInit(loaded) PROVE FALSE
    BY <2>6 DEF sioInit
  <2>7. ASSUME UNCHANGED vars PROVE FALSE
    BY <2>7 DEF vars, serial
  <2> QED BY <1>1, <2>1, <2>2, <2>3, <2>4, <2>5, <2>6, <2>7 DEF Next
<1>2. TypeOK /\ PortOK /\ [Next]_vars => [Arrives]_vars
  BY <1>1
<1> QED BY <1>2, PortInvariance, PTL DEF Spec, PageArrives
=============================================================================
