----------------------------- MODULE Bios_proofs -----------------------------
(***************************************************************************)
(* Proofs about the emulated BIOS: the files of a memory card, for any     *)
(* names and any number of slots and words, and the heap, for any size and *)
(* any requests.                                                           *)
(***************************************************************************)
EXTENDS BiosHeap, BiosCard, FiniteSetTheorems, WellFoundedInduction, TLAPS

(* The frames in use, and the names in them.                               *)
Used(m)    == {s \in 1..Slots : m.dir[s].state = "used"}
NamesIn(m) == {m.dir[s].name : s \in Used(m)}

(* Names occur once, and the frames in use are as they were written.       *)
SoundCard(m) ==
  /\ \A s \in Used(m) : m.dir[s].sum = Sum("used", m.dir[s].name) /\ m.dir[s].name \in Names
  /\ \A s, t \in Used(m) : m.dir[s].name = m.dir[t].name => s = t

(* The descriptor is where the program thinks it is.                       *)
HeldOK ==
  held # NULL =>
    /\ FDesc.mcfile \in Used(McdData)
    /\ McdData.dir[FDesc.mcfile].name = held.name
    /\ FDesc.offset = held.at /\ FDesc.async = held.async

CardOK ==
  /\ McdFile = McdData
  /\ SoundCard(McdData)
  /\ HeldOK
  /\ got # <<>> => held # NULL

(* The files that are due lie ahead of where nextfile goes on.             *)
WalkOK ==
  \A name \in due : \E s \in nfile..Slots :
     s \in Used(McdData) /\ McdData.dir[s].name = name /\ name \in ffile

(* The least of some slots.                                                *)
LEMMA MinOfSlots ==
  ASSUME NEW S \in SUBSET (1..Slots), S # {}
  PROVE  Min(S) \in S /\ \A x \in S : Min(S) <= x
<1>1. S \subseteq Nat
  BY CardAssumption
<1>2. PICK x \in S : \A y \in S : ~(<<y, x>> \in OpToRel(<, Nat))
  BY <1>1, NatLessThanWellFounded, WFMin
<1>3. \A y \in S : ~(y < x)
  BY <1>1, <1>2 DEF OpToRel
<1>4. \A y \in S : x <= y
  BY <1>1, <1>3
<1>. QED  BY <1>4 DEF Min

LEMMA UsedFrames ==
  /\ \A s \in 1..Slots : IsUsed(McdData.dir[s]) <=> s \in Used(McdData)
  /\ Listed = NamesIn(McdData)
  /\ Unused = (1..Slots) \ Used(McdData)
  /\ \A name : Of(name) = {s \in Used(McdData) : McdData.dir[s].name = name}
  /\ \A names, from :
       Matches(names, from) =
         {s \in from..Slots : IsUsed(McdData.dir[s]) /\ McdData.dir[s].name \in names}
BY DEF Used, NamesIn, IsUsed, Listed, Unused, Of, Matches, NameOf

(* The calls that find a frame find it in the directory.                   *)
LEMMA FirstFrames ==
  /\ \A name : Of(name) # {} => /\ Min(Of(name)) \in Used(McdData)
                               /\ McdData.dir[Min(Of(name))].name = name
  /\ Unused # {} => Min(Unused) \in (1..Slots) \ Used(McdData)
<1>1. ASSUME NEW name, Of(name) # {}
      PROVE  Min(Of(name)) \in Used(McdData) /\ McdData.dir[Min(Of(name))].name = name
  <2>1. Of(name) \in SUBSET (1..Slots)
    BY DEF Of
  <2>2. Min(Of(name)) \in Of(name)
    BY <1>1, <2>1, MinOfSlots
  <2>. QED  BY <2>2, UsedFrames
<1>2. ASSUME Unused # {} PROVE Min(Unused) \in (1..Slots) \ Used(McdData)
  <2>1. Unused \in SUBSET (1..Slots)
    BY DEF Unused
  <2>. QED  BY <1>2, <2>1, MinOfSlots, UsedFrames
<1>. QED  BY <1>1, <1>2

(* What is written is a sequence.                                          *)
LEMMA WrittenValues ==
  ASSUME NEW values \in UNION {[1..n -> Values] : n \in 1..Words}
  PROVE  /\ Len(values) \in 1..Words
         /\ values \in [1..Len(values) -> Values]
<1>1. PICK n \in 1..Words : values \in [1..n -> Values]
  OBVIOUS
<1>2. values \in Seq(Values) /\ Len(values) = n
  BY <1>1, CardAssumption
<1>. QED  BY <1>1, <1>2

(* A search leads to the slot after the first match.                       *)
LEMMA SearchBounds ==
  ASSUME NEW names, NEW from \in 1..Slots+1, NEW ds, Search(names, from, ds)
  PROVE  nfile' \in 1..Slots+1 /\ due' \subseteq ds
<1>1. CASE Matches(names, from) = {}
  BY <1>1, CardAssumption DEF Search
<1>2. CASE Matches(names, from) # {}
  <2>1. Matches(names, from) \in SUBSET (1..Slots)
    BY CardAssumption DEF Matches
  <2>2. Min(Matches(names, from)) \in 1..Slots
    BY <1>2, <2>1, MinOfSlots
  <2>. QED  BY <1>2, <2>2, CardAssumption DEF Search
<1>. QED  BY <1>1, <1>2

(* A card with another frame, or another block.                            *)
WithFrame(m, s, f) == [dir |-> [m.dir EXCEPT ![s] = f], data |-> m.data]
WithBlock(m, s, b) == [dir |-> m.dir, data |-> [m.data EXCEPT ![s] = b]]

LEMMA PutFrame ==
  ASSUME NEW m \in Images, NEW s \in 1..Slots, NEW f \in Frames
  PROVE  [m EXCEPT !.dir[s] = f] = WithFrame(m, s, f) /\ WithFrame(m, s, f) \in Images
<1>1. m.dir \in [1..Slots -> Frames] /\ m.data \in [1..Slots -> [1..Words -> Values]]
  BY DEF Images
<1>2. m = [dir |-> m.dir, data |-> m.data]
  BY DEF Images
<1>3. [m.dir EXCEPT ![s] = f] \in [1..Slots -> Frames]
  BY <1>1
<1>4. [m EXCEPT !.dir[s] = f] = [dir |-> [m.dir EXCEPT ![s] = f], data |-> m.data]
  BY <1>2
<1>. QED  BY <1>1, <1>3, <1>4 DEF Images, WithFrame

LEMMA PutBlock ==
  ASSUME NEW m \in Images, NEW s \in 1..Slots, NEW b \in [1..Words -> Values]
  PROVE  [m EXCEPT !.data[s] = b] = WithBlock(m, s, b) /\ WithBlock(m, s, b) \in Images
<1>1. m.dir \in [1..Slots -> Frames] /\ m.data \in [1..Slots -> [1..Words -> Values]]
  BY DEF Images
<1>2. m = [dir |-> m.dir, data |-> m.data]
  BY DEF Images
<1>3. [m.data EXCEPT ![s] = b] \in [1..Slots -> [1..Words -> Values]]
  BY <1>1
<1>4. [m EXCEPT !.data[s] = b] = [dir |-> m.dir, data |-> [m.data EXCEPT ![s] = b]]
  BY <1>2
<1>. QED  BY <1>1, <1>3, <1>4 DEF Images, WithBlock

(* What the calls do to the card: the file follows exactly.                *)
LEMMA CreateEffect ==
  ASSUME CardTypeOK, CardOK, NEW name \in Names, NEW async \in BOOLEAN, create(name, async), Unused # {}
  PROVE  /\ Min(Unused) \in (1..Slots) \ Used(McdData)
         /\ Frame("used", name) \in Frames
         /\ McdData' = WithFrame(McdData, Min(Unused), Frame("used", name))
         /\ McdData' \in Images /\ McdFile' = McdData'
<1>. DEFINE s == Min(Unused)
            f == Frame("used", name)
<1>1. s \in (1..Slots) \ Used(McdData)
  BY FirstFrames
<1>2. f \in Frames
  BY DEF Frame, Frames, Sum
<1>3. McdData \in Images /\ McdFile = McdData
  BY DEF CardTypeOK, CardOK
<1>4. McdData' = [McdData EXCEPT !.dir[s] = f]
  BY DEF create
<1>5. McdData' = WithFrame(McdData, s, f) /\ McdData' \in Images
  BY <1>1, <1>2, <1>3, <1>4, PutFrame
<1>6. McdData'.dir[s] = f
  BY <1>1, <1>3, <1>5 DEF WithFrame, Images
<1>7. McdFile' = [McdData EXCEPT !.dir[s] = f]
  BY <1>3, <1>6 DEF create
<1>. QED  BY <1>1, <1>2, <1>4, <1>5, <1>7

LEMMA DeleteEffect ==
  ASSUME CardTypeOK, CardOK, NEW name \in Names, delete(name)
  PROVE  /\ Min(Of(name)) \in Used(McdData) /\ McdData.dir[Min(Of(name))].name = name
         /\ [McdData.dir[Min(Of(name))] EXCEPT !.state = "deleted"] \in Frames
         /\ McdData' = WithFrame(McdData, Min(Of(name)),
                          [McdData.dir[Min(Of(name))] EXCEPT !.state = "deleted"])
         /\ McdData' \in Images /\ McdFile' = McdData'
<1>. DEFINE s == Min(Of(name))
            f == [McdData.dir[s] EXCEPT !.state = "deleted"]
<1>1. s \in Used(McdData) /\ McdData.dir[s].name = name /\ s \in 1..Slots
  BY FirstFrames DEF delete, Used
<1>2. McdData \in Images /\ McdFile = McdData
  BY DEF CardTypeOK, CardOK
<1>3. McdData.dir[s] \in Frames
  BY <1>1, <1>2 DEF Images
<1>4. f \in Frames
  BY <1>3 DEF Frames
<1>5. McdData' = [McdData EXCEPT !.dir[s] = f] /\ McdFile' = [McdData EXCEPT !.dir[s] = f]
  BY <1>2 DEF delete
<1>. QED  BY <1>1, <1>2, <1>4, <1>5, PutFrame

LEMMA Renamed ==
  ASSUME NEW r \in Frames, r.state = "used", NEW new \in Names
  PROVE  Frame("used", new) = [[r EXCEPT !.name = new] EXCEPT !.sum = Frame("used", new).sum]
<1>. DEFINE x == Sum("used", new)
            p == [r EXCEPT !.name = new]
            q == [p EXCEPT !.sum = x]
<1>0. Frame("used", new).sum = x /\ x \in {"free", "used", "deleted"} \X (Names \union {"none"})
  BY DEF Frame, Sum
<1>. HIDE DEF x
<1>1. p \in Frames /\ p.state = "used" /\ p.name = new
  BY DEF Frames
<1>. HIDE DEF p
<1>2. q \in Frames /\ q.state = "used" /\ q.name = new /\ q.sum = x
  BY <1>0, <1>1 DEF Frames
<1>. HIDE DEF q
<1>3. q = [state |-> "used", name |-> new, sum |-> x]
  BY <1>2 DEF Frames
<1>4. q = Frame("used", new)
  BY <1>3 DEF Frame, x
<1>. QED  BY <1>0, <1>4 DEF p, q

LEMMA RenameEffect ==
  ASSUME CardTypeOK, CardOK, NEW old \in Names, NEW new \in Names, rename(old, new)
  PROVE  /\ Min(Of(old)) \in Used(McdData) /\ McdData.dir[Min(Of(old))].name = old
         /\ Frame("used", new) \in Frames
         /\ McdData' = WithFrame(McdData, Min(Of(old)), Frame("used", new))
         /\ McdData' \in Images /\ McdFile' = McdData'
<1>. DEFINE s == Min(Of(old))
            f == Frame("used", new)
<1>1. s \in Used(McdData) /\ McdData.dir[s].name = old /\ s \in 1..Slots
  BY FirstFrames DEF rename, Used
<1>2. McdData \in Images /\ McdFile = McdData
  BY DEF CardTypeOK, CardOK
<1>3. McdData.dir[s] \in Frames /\ McdData.dir[s].state = "used"
  BY <1>1, <1>2 DEF Images, Used
<1>4. f \in Frames
  BY DEF Frame, Frames, Sum
<1>5. McdData' = [McdData EXCEPT !.dir[s] = f]
  BY DEF rename
<1>6. McdData' = WithFrame(McdData, s, f) /\ McdData' \in Images
  BY <1>1, <1>2, <1>4, <1>5, PutFrame
<1>7. McdData'.dir[s].sum = f.sum
  BY <1>1, <1>2, <1>6 DEF WithFrame, Images
<1>8. f = [[McdData.dir[s] EXCEPT !.name = new] EXCEPT !.sum = f.sum]
  BY <1>3, Renamed
<1>9. McdFile' = [McdData EXCEPT !.dir[s].name = new, !.dir[s].sum = f.sum]
  BY <1>2, <1>7 DEF rename
<1>10. McdFile' = [McdData EXCEPT !.dir[s] = [[McdData.dir[s] EXCEPT !.name = new] EXCEPT !.sum = f.sum]]
  <2>1. McdData.dir \in [1..Slots -> Frames] /\ McdData = [dir |-> McdData.dir, data |-> McdData.data]
    BY <1>2 DEF Images
  <2>. QED  BY <1>1, <1>9, <2>1
<1>. QED  BY <1>1, <1>4, <1>5, <1>6, <1>8, <1>10

NewBlock(values) ==
  [w \in 1..Words |-> IF w \in Touched(Len(values))
                      THEN values[w - FDesc.offset + 1] ELSE McdData.data[FDesc.mcfile][w]]

LEMMA WriteEffect ==
  ASSUME CardTypeOK, CardOK,
         NEW values \in UNION {[1..n -> Values] : n \in 1..Words}, write(values)
  PROVE  /\ FDesc.mcfile \in Used(McdData)
         /\ NewBlock(values) \in [1..Words -> Values]
         /\ McdData' = WithBlock(McdData, FDesc.mcfile, NewBlock(values))
         /\ McdData' \in Images /\ McdFile' = McdData'
<1>. DEFINE s == FDesc.mcfile
            b == NewBlock(values)
<1>1. s \in Used(McdData) /\ s \in 1..Slots
  BY DEF write, InBlock, CardOK, HeldOK, Used
<1>2. McdData \in Images /\ McdFile = McdData /\ FDesc.offset \in 1..Words+1
  BY DEF CardTypeOK, CardOK, Descriptors
<1>3. McdData.data[s] \in [1..Words -> Values]
  BY <1>1, <1>2 DEF Images
<1>4. b \in [1..Words -> Values]
  <2>1. Len(values) \in 1..Words /\ values \in [1..Len(values) -> Values]
    BY WrittenValues
  <2>2. \A w \in Touched(Len(values)) : values[w - FDesc.offset + 1] \in Values
    BY <1>2, <2>1, CardAssumption DEF Touched
  <2>. QED  BY <1>3, <2>2 DEF NewBlock
<1>5. McdData' = [McdData EXCEPT !.data[s] = b]
  <2>1. McdData' = [McdData EXCEPT !.data[s] =
           [w \in 1..Words |-> IF w \in Touched(Len(values))
                               THEN values[w - FDesc.offset + 1] ELSE McdData.data[s][w]]]
    BY <1>1, <1>2 DEF write
  <2>. QED  BY <2>1 DEF NewBlock
<1>6. McdData' = WithBlock(McdData, s, b) /\ McdData' \in Images
  <2>1. [McdData EXCEPT !.data[s] = b] = WithBlock(McdData, s, b)
    BY <1>1, <1>2, <1>4, PutBlock
  <2>2. WithBlock(McdData, s, b) \in Images
    BY <1>1, <1>2, <1>4, PutBlock
  <2>. QED  BY <1>5, <2>1, <2>2
<1>7. McdData'.data[s] = b
  BY <1>1, <1>2, <1>6 DEF WithBlock, Images
<1>8. [w \in 1..Words |-> IF w \in Touched(Len(values))
                          THEN McdData'.data[s][w] ELSE McdData.data[s][w]] = b
  BY <1>4, <1>7 DEF NewBlock
<1>9. McdFile' = [McdData EXCEPT !.data[s] =
         [w \in 1..Words |-> IF w \in Touched(Len(values))
                             THEN McdData'.data[s][w] ELSE McdData.data[s][w]]]
  BY <1>1, <1>2 DEF write
<1>. QED  BY <1>1, <1>4, <1>5, <1>6, <1>8, <1>9

(* Types.                                                                  *)
LEMMA TypeStep ==
  ASSUME CardTypeOK, CardOK, [CardNext]_cardVars
  PROVE  CardTypeOK'
<1>. USE CardAssumption
<1>0. <<>> \in UNION {[1..n -> Values] : n \in 0..Words}
  <2>1. <<>> \in [1..0 -> Values]
    OBVIOUS
  <2>. QED  BY <2>1
<1>1. CASE UNCHANGED cardVars
  BY <1>1 DEF cardVars, walk, CardTypeOK
<1>2. ASSUME NEW name \in Names, NEW async \in BOOLEAN, open(name, async) PROVE CardTypeOK'
  <2>1. CASE Of(name) # {}
    <3>1. Min(Of(name)) \in 1..Slots
      BY <2>1, FirstFrames DEF Used
    <3>2. /\ FDesc' = [mcfile |-> Min(Of(name)), offset |-> 1, async |-> async]
          /\ held' = [name |-> name, at |-> 1, async |-> async]
      BY <1>2, <2>1 DEF open, Hold
    <3>3. FDesc' \in Descriptors /\ held' \in Places
      BY <3>1, <3>2 DEF Descriptors, Places
    <3>. QED  BY <1>0, <1>2, <3>3 DEF open, walk, CardTypeOK
  <2>2. CASE Of(name) = {}
    <3>1. Rewind(async)
      BY <1>2, <2>2 DEF open
    <3>2. FDesc' \in Descriptors /\ (held' = NULL \/ held' \in Places)
      BY <3>1 DEF Rewind, Descriptors, Places, CardTypeOK
    <3>. QED  BY <1>0, <1>2, <3>2 DEF open, walk, CardTypeOK
  <2>. QED  BY <2>1, <2>2
<1>3. ASSUME NEW name \in Names, NEW async \in BOOLEAN, create(name, async) PROVE CardTypeOK'
  <2>1. CASE Unused # {}
    <3>1. /\ FDesc' = [mcfile |-> Min(Unused), offset |-> 1, async |-> async]
          /\ held' = [name |-> name, at |-> 1, async |-> async]
      BY <1>3, <2>1 DEF create, Hold
    <3>2. Min(Unused) \in 1..Slots /\ McdData' \in Images /\ McdFile' = McdData'
      BY <1>3, <2>1, CreateEffect
    <3>3. FDesc' \in Descriptors /\ held' \in Places
      BY <3>1, <3>2 DEF Descriptors, Places
    <3>. QED  BY <1>0, <1>3, <3>2, <3>3 DEF create, walk, CardTypeOK
  <2>2. CASE Unused = {}
    <3>1. Rewind(async) /\ UNCHANGED <<McdData, McdFile>>
      BY <1>3, <2>2 DEF create
    <3>2. FDesc' \in Descriptors /\ (held' = NULL \/ held' \in Places)
      BY <3>1 DEF Rewind, Descriptors, Places, CardTypeOK
    <3>. QED  BY <1>0, <1>3, <3>1, <3>2 DEF create, walk, CardTypeOK
  <2>. QED  BY <2>1, <2>2
<1>4. ASSUME NEW name \in Names, delete(name) PROVE CardTypeOK'
  BY <1>0, <1>4, DeleteEffect DEF delete, CardTypeOK
<1>5. ASSUME NEW values \in UNION {[1..n -> Values] : n \in 1..Words}, write(values)
      PROVE  CardTypeOK'
  <2>1. Len(values) \in 1..Words
    BY WrittenValues
  <2>2. held \in Places
    BY <1>5 DEF write, InBlock, CardTypeOK
  <2>3. held.at = FDesc.offset /\ FDesc.offset + Len(values) <= Words + 1
    BY <1>5 DEF write, InBlock, CardOK, HeldOK
  <2>4. FDesc.offset + Len(values) \in 1..Words+1
    BY <2>1, <2>3 DEF CardTypeOK, Descriptors
  <2>5. FDesc' \in Descriptors
    BY <1>5, <2>4 DEF write, Moved, CardTypeOK, Descriptors
  <2>6. held' \in Places
    BY <1>5, <2>2, <2>3, <2>4 DEF write, Moved, Places
  <2>. QED  BY <1>0, <1>5, <2>5, <2>6, WriteEffect DEF write, walk, CardTypeOK
<1>6. ASSUME NEW n \in 1..Words, read(n) PROVE CardTypeOK'
  <2>1. held \in Places /\ FDesc.mcfile \in 1..Slots
    BY <1>6 DEF read, InBlock, CardTypeOK, CardOK, HeldOK, Used
  <2>2. held.at = FDesc.offset /\ FDesc.offset + n <= Words + 1
    BY <1>6 DEF read, InBlock, CardOK, HeldOK
  <2>3. FDesc.offset \in 1..Words+1 /\ McdData.data[FDesc.mcfile] \in [1..Words -> Values]
    BY <2>1 DEF CardTypeOK, Images, Descriptors
  <2>4. got' \in [1..n -> Values]
    BY <1>6, <2>2, <2>3 DEF read
  <2>. DEFINE moved == IF FDesc.async THEN 0 ELSE n
  <2>5. /\ moved \in 0..Words /\ FDesc.offset + moved \in 1..Words+1
        /\ FDesc' = [FDesc EXCEPT !.offset = @ + moved]
        /\ held' = [held EXCEPT !.at = @ + moved]
    BY <1>6, <2>2, <2>3 DEF read, Moved
  <2>. HIDE DEF moved
  <2>6. FDesc' \in Descriptors
    BY <2>5 DEF CardTypeOK, Descriptors
  <2>7. held' \in Places
    BY <2>1, <2>2, <2>5 DEF Places
  <2>. QED  BY <1>6, <2>4, <2>6, <2>7 DEF read, walk, CardTypeOK
<1>7. ASSUME NEW at \in 1..Words+1, lseek(at) PROVE CardTypeOK'
  BY <1>0, <1>7 DEF lseek, walk, CardTypeOK, Descriptors, Places
<1>8. CASE close
  BY <1>0, <1>8 DEF close, walk, CardTypeOK
<1>9. ASSUME NEW old \in Names, NEW new \in Names, rename(old, new) PROVE CardTypeOK'
  <2>1. held' = NULL \/ held' \in Places
    BY <1>9 DEF rename, CardTypeOK, Places
  <2>. QED  BY <1>0, <1>9, <2>1, RenameEffect DEF rename, CardTypeOK
<1>10. ASSUME NEW names \in SUBSET Names, firstfile(names) PROVE CardTypeOK'
  <2>1. Listed \cap names \subseteq Names
    OBVIOUS
  <2>2. Search(names, 1, Listed \cap names) /\ 1 \in 1..Slots+1
    BY <1>10 DEF firstfile
  <2>3. nfile' \in 1..Slots+1 /\ due' \subseteq Names
    BY <2>1, <2>2, SearchBounds
  <2>. QED  BY <1>0, <1>10, <2>3 DEF firstfile, CardTypeOK
<1>11. CASE nextfile
  <2>1. nfile' \in 1..Slots+1 /\ due' \subseteq Names
    BY <1>11, SearchBounds DEF nextfile, CardTypeOK
  <2>2. ended' \in BOOLEAN
    BY <1>11 DEF nextfile
  <2>. QED  BY <1>0, <1>11, <2>1, <2>2 DEF nextfile, CardTypeOK
<1>. QED  BY <1>1, <1>2, <1>3, <1>4, <1>5, <1>6, <1>7, <1>8, <1>9, <1>10, <1>11 DEF CardNext

(* The frames after one was changed.                                       *)
LEMMA FramesAfter ==
  ASSUME NEW m \in Images, NEW s \in 1..Slots, NEW f \in Frames
  PROVE  /\ WithFrame(m, s, f).data = m.data
         /\ \A t \in 1..Slots : WithFrame(m, s, f).dir[t] = IF t = s THEN f ELSE m.dir[t]
         /\ \A t \in 1..Slots : t \in Used(WithFrame(m, s, f)) <=>
              IF t = s THEN f.state = "used" ELSE t \in Used(m)
         /\ Used(WithFrame(m, s, f)) =
              IF f.state = "used" THEN Used(m) \union {s} ELSE Used(m) \ {s}
         /\ \A t \in Used(m) \ {s} : WithFrame(m, s, f).dir[t] = m.dir[t]
<1>1. \A t \in 1..Slots : WithFrame(m, s, f).dir[t] = IF t = s THEN f ELSE m.dir[t]
  BY DEF WithFrame, Images
<1>2. WithFrame(m, s, f).data = m.data
  BY DEF WithFrame
<1>3. \A t \in 1..Slots : t \in Used(WithFrame(m, s, f)) <=>
        IF t = s THEN f.state = "used" ELSE t \in Used(m)
  BY <1>1 DEF Used
<1>4. Used(m) \subseteq 1..Slots /\ Used(WithFrame(m, s, f)) \subseteq 1..Slots
  BY DEF Used
<1>5. Used(WithFrame(m, s, f)) = IF f.state = "used" THEN Used(m) \union {s} ELSE Used(m) \ {s}
  BY <1>3, <1>4
<1>6. \A t \in Used(m) \ {s} : WithFrame(m, s, f).dir[t] = m.dir[t]
  BY <1>1, <1>4
<1>. QED  BY <1>1, <1>2, <1>3, <1>5, <1>6

LEMMA SoundAfter ==
  ASSUME NEW m \in Images, SoundCard(m), NEW s \in 1..Slots, NEW f \in Frames,
         f.state = "used" => /\ f.sum = Sum("used", f.name) /\ f.name \in Names
                             /\ \A t \in Used(m) \ {s} : m.dir[t].name # f.name
  PROVE  SoundCard(WithFrame(m, s, f))
<1>1. Used(m) \subseteq 1..Slots /\ Used(WithFrame(m, s, f)) \subseteq 1..Slots
  BY DEF Used
<1>. QED  BY <1>1, FramesAfter DEF SoundCard

(* What is held is not NULL.                                               *)
LEMMA Something ==
  ASSUME NEW h \in Places
  PROVE  h # NULL
<1>1. h.name # NULL.name
  BY CardAssumption DEF NULL, Places
<1>. QED  BY <1>1

(* A failed open leaves the descriptor where the program thinks it is.     *)
LEMMA RewindKeeps ==
  ASSUME HeldOK, NEW async, Rewind(async), UNCHANGED McdData
  PROVE  HeldOK'
<1>1. CASE held = NULL
  BY <1>1 DEF Rewind, HeldOK
<1>2. CASE held # NULL
  BY <1>2 DEF Rewind, HeldOK
<1>. QED  BY <1>1, <1>2

(* The card, its file and the descriptor.                                  *)
LEMMA CardStep ==
  ASSUME CardTypeOK, CardTypeOK', CardOK, [CardNext]_cardVars
  PROVE  CardOK'
<1>. USE CardAssumption
<1>0. McdData \in Images /\ McdFile = McdData /\ SoundCard(McdData) /\ HeldOK
  BY DEF CardTypeOK, CardOK
<1>1. CASE UNCHANGED cardVars
  BY <1>1 DEF cardVars, walk, CardOK, HeldOK
<1>2. ASSUME NEW name \in Names, NEW async \in BOOLEAN, open(name, async) PROVE CardOK'
  <2>1. HeldOK'
    <3>1. CASE Of(name) # {}
      BY <1>2, <3>1, FirstFrames DEF open, Hold, HeldOK
    <3>2. CASE Of(name) = {}
      BY <1>0, <1>2, <3>2, RewindKeeps DEF open
    <3>. QED  BY <3>1, <3>2
  <2>. QED  BY <1>0, <1>2, <2>1 DEF open, CardOK
<1>3. ASSUME NEW name \in Names, NEW async \in BOOLEAN, create(name, async) PROVE CardOK'
  <2>1. CASE Unused # {}
    <3>. DEFINE s == Min(Unused)
                f == Frame("used", name)
    <3>1. /\ s \in (1..Slots) \ Used(McdData) /\ f \in Frames
          /\ McdData' = WithFrame(McdData, s, f) /\ McdFile' = McdData'
      BY <1>3, <2>1, CreateEffect
    <3>2. f.state = "used" /\ f.sum = Sum("used", name) /\ f.name = name
      BY DEF Frame
    <3>3. \A t \in Used(McdData) : McdData.dir[t].name # name
      BY <1>3, UsedFrames DEF create
    <3>4. /\ FDesc' = [mcfile |-> s, offset |-> 1, async |-> async]
          /\ held' = [name |-> name, at |-> 1, async |-> async] /\ got' = <<>>
      BY <1>3, <2>1 DEF create, Hold
    <3>. HIDE DEF s, f
    <3>5. SoundCard(McdData')
      BY <1>0, <3>1, <3>2, <3>3, SoundAfter
    <3>6. s \in Used(McdData') /\ McdData'.dir[s].name = name
      BY <1>0, <3>1, <3>2, FramesAfter
    <3>. QED  BY <3>1, <3>4, <3>5, <3>6 DEF CardOK, HeldOK
  <2>2. CASE Unused = {}
    <3>1. Rewind(async) /\ UNCHANGED <<McdData, McdFile>> /\ got' = <<>>
      BY <1>3, <2>2 DEF create
    <3>. QED  BY <1>0, <3>1, RewindKeeps DEF CardOK
  <2>. QED  BY <2>1, <2>2
<1>4. ASSUME NEW name \in Names, delete(name) PROVE CardOK'
  <2>. DEFINE s == Min(Of(name))
              f == [McdData.dir[s] EXCEPT !.state = "deleted"]
  <2>1. /\ s \in Used(McdData) /\ McdData.dir[s].name = name /\ s \in 1..Slots
        /\ f \in Frames
        /\ McdData' = WithFrame(McdData, s, f) /\ McdFile' = McdData'
    BY <1>4, DeleteEffect DEF Used
  <2>2. McdData.dir[s] \in Frames
    BY <1>0, <2>1 DEF Images
  <2>3. f.state # "used"
    BY <2>2 DEF Frames
  <2>4. /\ held' = IF held # NULL /\ held.name = name THEN NULL ELSE held
        /\ FDesc' = FDesc /\ got' = <<>>
    BY <1>4 DEF delete
  <2>. HIDE DEF s, f
  <2>5. SoundCard(McdData')
    BY <1>0, <2>1, <2>3, SoundAfter
  <2>6. ASSUME held' # NULL
        PROVE  /\ FDesc'.mcfile \in Used(McdData')
               /\ McdData'.dir[FDesc'.mcfile].name = held'.name
               /\ FDesc'.offset = held'.at /\ FDesc'.async = held'.async
    <3>1. held' = held /\ held # NULL /\ held.name # name
      BY <2>4, <2>6
    <3>2. FDesc.mcfile \in Used(McdData) /\ FDesc.mcfile \in 1..Slots /\ FDesc.mcfile # s
      BY <1>0, <2>1, <3>1 DEF HeldOK, Used
    <3>. QED  BY <1>0, <2>1, <2>4, <3>1, <3>2, FramesAfter DEF HeldOK
  <2>. QED  BY <2>1, <2>4, <2>5, <2>6 DEF CardOK, HeldOK
<1>5. ASSUME NEW values \in UNION {[1..n -> Values] : n \in 1..Words}, write(values)
      PROVE  CardOK'
  <2>1. McdData' = WithBlock(McdData, FDesc.mcfile, NewBlock(values)) /\ McdFile' = McdData'
    BY <1>5, WriteEffect
  <2>2. McdData'.dir = McdData.dir
    BY <2>1 DEF WithBlock
  <2>3. SoundCard(McdData') /\ Used(McdData') = Used(McdData)
    BY <1>0, <2>2 DEF SoundCard, Used
  <2>4. Len(values) \in Nat /\ held \in Places
    BY <1>5, WrittenValues DEF write, InBlock, CardTypeOK
  <2>5. HeldOK'
    BY <1>0, <1>5, <2>2, <2>3, <2>4 DEF HeldOK, write, Moved, InBlock, CardTypeOK, Descriptors, Places
  <2>6. got' = <<>>
    BY <1>5 DEF write
  <2>. QED  BY <2>1, <2>3, <2>5, <2>6 DEF CardOK
<1>6. ASSUME NEW n \in 1..Words, read(n) PROVE CardOK'
  <2>1. held # NULL /\ held \in Places
    BY <1>6 DEF read, InBlock, CardTypeOK
  <2>2. HeldOK'
    BY <1>0, <1>6, <2>1 DEF HeldOK, read, Moved, CardTypeOK, Descriptors, Places
  <2>3. held'.name = held.name
    BY <1>6, <2>1 DEF read, Moved, Places
  <2>4. held' # NULL
    BY <2>1, <2>3, CardAssumption DEF NULL, Places
  <2>5. McdData' = McdData /\ McdFile' = McdFile
    BY <1>6 DEF read
  <2>. QED  BY <1>0, <2>2, <2>4, <2>5 DEF CardOK
<1>7. ASSUME NEW at \in 1..Words+1, lseek(at) PROVE CardOK'
  <2>1. held \in Places
    BY <1>7 DEF lseek, CardTypeOK
  <2>. QED  BY <1>0, <1>7, <2>1 DEF lseek, CardOK, HeldOK, CardTypeOK, Descriptors, Places
<1>8. CASE close
  BY <1>0, <1>8 DEF close, CardOK, HeldOK
<1>9. ASSUME NEW old \in Names, NEW new \in Names, rename(old, new) PROVE CardOK'
  <2>. DEFINE s == Min(Of(old))
              f == Frame("used", new)
  <2>1. /\ s \in Used(McdData) /\ McdData.dir[s].name = old /\ s \in 1..Slots
        /\ f \in Frames
        /\ McdData' = WithFrame(McdData, s, f) /\ McdFile' = McdData'
    BY <1>9, RenameEffect DEF Used
  <2>2. f.state = "used" /\ f.sum = Sum("used", new) /\ f.name = new
    BY DEF Frame
  <2>3. \A t \in Used(McdData) : McdData.dir[t].name # new
    BY <1>9, UsedFrames DEF rename
  <2>4. /\ held' = IF held # NULL /\ held.name = old THEN [held EXCEPT !.name = new] ELSE held
        /\ FDesc' = FDesc /\ got' = <<>>
    BY <1>9 DEF rename
  <2>. HIDE DEF s, f
  <2>5. SoundCard(McdData')
    BY <1>0, <2>1, <2>2, <2>3, SoundAfter
  <2>6. ASSUME held' # NULL
        PROVE  /\ FDesc'.mcfile \in Used(McdData')
               /\ McdData'.dir[FDesc'.mcfile].name = held'.name
               /\ FDesc'.offset = held'.at /\ FDesc'.async = held'.async
    <3>1. held # NULL /\ held \in Places
      BY <2>4, <2>6 DEF CardTypeOK
    <3>2. FDesc.mcfile \in Used(McdData) /\ FDesc.mcfile \in 1..Slots
      BY <1>0, <3>1 DEF HeldOK, Used
    <3>3. CASE held.name = old
      <4>1. FDesc.mcfile = s
        BY <1>0, <2>1, <3>1, <3>2, <3>3 DEF HeldOK, SoundCard
      <4>2. held' = [held EXCEPT !.name = new]
        BY <2>4, <3>1, <3>3
      <4>3. held'.name = new /\ held'.at = held.at /\ held'.async = held.async
        BY <3>1, <4>2 DEF Places
      <4>. QED  BY <1>0, <2>1, <2>2, <2>4, <3>1, <4>1, <4>3, FramesAfter DEF HeldOK
    <3>4. CASE held.name # old
      <4>1. FDesc.mcfile # s /\ held' = held
        BY <1>0, <2>1, <2>4, <3>1, <3>4 DEF HeldOK
      <4>2. /\ FDesc.mcfile \in Used(McdData')
            /\ McdData'.dir[FDesc.mcfile] = McdData.dir[FDesc.mcfile]
        BY <1>0, <2>1, <3>2, <4>1, FramesAfter
      <4>3. /\ McdData.dir[FDesc.mcfile].name = held.name
            /\ FDesc.offset = held.at /\ FDesc.async = held.async
        BY <1>0, <3>1 DEF HeldOK
      <4>. QED  BY <2>4, <4>1, <4>2, <4>3
    <3>. QED  BY <3>3, <3>4
  <2>. QED  BY <2>1, <2>4, <2>5, <2>6 DEF CardOK, HeldOK
<1>10. ASSUME NEW names \in SUBSET Names, firstfile(names) PROVE CardOK'
  BY <1>0, <1>10 DEF firstfile, CardOK, HeldOK
<1>11. CASE nextfile
  BY <1>0, <1>11 DEF nextfile, CardOK, HeldOK
<1>. QED  BY <1>1, <1>2, <1>3, <1>4, <1>5, <1>6, <1>7, <1>8, <1>9, <1>10, <1>11 DEF CardNext

(* A search that is to come to all files of ds leaves those it has not     *)
(* come to ahead of it.                                                    *)
LEMMA SearchLeavesRest ==
  ASSUME NEW names, NEW from \in 1..Slots+1, NEW ds, Search(names, from, ds),
         \A name \in ds : \E s \in Matches(names, from) : McdData.dir[s].name = name
  PROVE  /\ Matches(names, from) = {} => due' = {}
         /\ \A name \in due' : \E s \in nfile'..Slots :
              s \in Used(McdData) /\ McdData.dir[s].name = name /\ name \in names
<1>. DEFINE M == Matches(names, from)
<1>1. CASE M = {}
  BY <1>1 DEF Search
<1>2. CASE M # {}
  <2>1. M \in SUBSET (1..Slots)
    BY CardAssumption DEF Matches
  <2>2. Min(M) \in M /\ \A s \in M : Min(M) <= s
    BY <1>2, <2>1, MinOfSlots
  <2>3. nfile' = Min(M) + 1 /\ due' = ds \ {McdData.dir[Min(M)].name}
    BY <1>2 DEF Search, NameOf
  <2>4. \A s \in M : s \in Used(McdData) /\ McdData.dir[s].name \in names
    BY <2>1 DEF Matches, Used, IsUsed, NameOf
  <2>5. ASSUME NEW name \in due'
        PROVE  \E s \in nfile'..Slots :
                 s \in Used(McdData) /\ McdData.dir[s].name = name /\ name \in names
    <3>1. PICK s \in M : McdData.dir[s].name = name
      BY <2>3, <2>5
    <3>2. s # Min(M)
      BY <2>3, <2>5, <3>1
    <3>3. s \in nfile'..Slots
      BY <2>1, <2>2, <2>3, <3>1, <3>2, CardAssumption
    <3>. QED  BY <2>4, <3>1, <3>3
  <2>. QED  BY <1>2, <2>5
<1>. QED  BY <1>1, <1>2

(* The files that are due stay ahead, whatever is done to the directory.   *)
LEMMA WalkStep ==
  ASSUME CardTypeOK, CardOK, WalkOK, WalkIsComplete, [CardNext]_cardVars
  PROVE  WalkOK' /\ WalkIsComplete'
<1>. USE CardAssumption
<1>0. McdData \in Images /\ nfile \in 1..Slots+1
  BY DEF CardTypeOK
<1>1. CASE UNCHANGED cardVars
  BY <1>1 DEF cardVars, walk, WalkOK, WalkIsComplete
<1>2. ASSUME NEW name \in Names, NEW async \in BOOLEAN, open(name, async) PROVE WalkOK' /\ WalkIsComplete'
  BY <1>2 DEF open, walk, WalkOK, WalkIsComplete
<1>3. ASSUME NEW name \in Names, NEW async \in BOOLEAN, create(name, async) PROVE WalkOK' /\ WalkIsComplete'
  <2>1. UNCHANGED walk
    BY <1>3 DEF create
  <2>2. CASE Unused # {}
    <3>. DEFINE s == Min(Unused)
                f == Frame("used", name)
    <3>1. s \in (1..Slots) \ Used(McdData) /\ f \in Frames /\ McdData' = WithFrame(McdData, s, f)
      BY <1>3, <2>2, CreateEffect
    <3>. HIDE DEF s, f
    <3>2. \A t \in Used(McdData) : t \in Used(McdData') /\ McdData'.dir[t].name = McdData.dir[t].name
      BY <1>0, <3>1, FramesAfter
    <3>. QED  BY <2>1, <3>2 DEF walk, WalkOK, WalkIsComplete
  <2>3. CASE Unused = {}
    BY <1>3, <2>1, <2>3 DEF create, walk, WalkOK, WalkIsComplete
  <2>. QED  BY <2>2, <2>3
<1>4. ASSUME NEW name \in Names, delete(name) PROVE WalkOK' /\ WalkIsComplete'
  <2>. DEFINE s == Min(Of(name))
              f == [McdData.dir[s] EXCEPT !.state = "deleted"]
  <2>1. /\ s \in Used(McdData) /\ McdData.dir[s].name = name /\ s \in 1..Slots
        /\ f \in Frames /\ McdData' = WithFrame(McdData, s, f)
    BY <1>4, DeleteEffect DEF Used
  <2>2. due' = due \ {name} /\ ffile' = ffile /\ nfile' = nfile /\ ended' = ended
    BY <1>4 DEF delete
  <2>. HIDE DEF s, f
  <2>3. \A t \in Used(McdData) \ {s} :
          t \in Used(McdData') /\ McdData'.dir[t].name = McdData.dir[t].name
    BY <1>0, <2>1, FramesAfter
  <2>4. ASSUME NEW d \in due'
        PROVE  \E t \in nfile'..Slots :
                 t \in Used(McdData') /\ McdData'.dir[t].name = d /\ d \in ffile'
    <3>1. d \in due /\ d # name
      BY <2>2, <2>4
    <3>2. PICK t \in nfile..Slots :
            t \in Used(McdData) /\ McdData.dir[t].name = d /\ d \in ffile
      BY <3>1 DEF WalkOK
    <3>3. t # s
      BY <2>1, <3>1, <3>2
    <3>4. t \in Used(McdData') /\ McdData'.dir[t].name = d
      BY <2>3, <3>2, <3>3
    <3>. QED  BY <2>2, <3>2, <3>4
  <2>5. WalkOK'
    BY <2>4 DEF WalkOK
  <2>6. WalkIsComplete'
    BY <2>2 DEF WalkIsComplete
  <2>. QED  BY <2>5, <2>6
<1>5. ASSUME NEW values \in UNION {[1..n -> Values] : n \in 1..Words}, write(values)
      PROVE  WalkOK' /\ WalkIsComplete'
  <2>1. McdData'.dir = McdData.dir
    BY <1>5, WriteEffect DEF WithBlock
  <2>2. UNCHANGED walk
    BY <1>5 DEF write
  <2>. QED  BY <2>1, <2>2 DEF walk, WalkOK, WalkIsComplete, Used
<1>6. ASSUME NEW n \in 1..Words, read(n) PROVE WalkOK' /\ WalkIsComplete'
  BY <1>6 DEF read, walk, WalkOK, WalkIsComplete
<1>7. ASSUME NEW at \in 1..Words+1, lseek(at) PROVE WalkOK' /\ WalkIsComplete'
  BY <1>7 DEF lseek, walk, WalkOK, WalkIsComplete
<1>8. CASE close
  BY <1>8 DEF close, walk, WalkOK, WalkIsComplete
<1>9. ASSUME NEW old \in Names, NEW new \in Names, rename(old, new)
      PROVE  WalkOK' /\ WalkIsComplete'
  <2>. DEFINE s == Min(Of(old))
              f == Frame("used", new)
  <2>1. /\ s \in Used(McdData) /\ McdData.dir[s].name = old /\ s \in 1..Slots
        /\ f \in Frames /\ McdData' = WithFrame(McdData, s, f)
    BY <1>9, RenameEffect DEF Used
  <2>2. due' = due \ {old} /\ ffile' = ffile /\ nfile' = nfile /\ ended' = ended
    BY <1>9 DEF rename
  <2>. HIDE DEF s, f
  <2>3. \A t \in Used(McdData) \ {s} :
          t \in Used(McdData') /\ McdData'.dir[t].name = McdData.dir[t].name
    BY <1>0, <2>1, FramesAfter
  <2>4. ASSUME NEW d \in due'
        PROVE  \E t \in nfile'..Slots :
                 t \in Used(McdData') /\ McdData'.dir[t].name = d /\ d \in ffile'
    <3>1. d \in due /\ d # old
      BY <2>2, <2>4
    <3>2. PICK t \in nfile..Slots :
            t \in Used(McdData) /\ McdData.dir[t].name = d /\ d \in ffile
      BY <3>1 DEF WalkOK
    <3>3. t # s
      BY <2>1, <3>1, <3>2
    <3>4. t \in Used(McdData') /\ McdData'.dir[t].name = d
      BY <2>3, <3>2, <3>3
    <3>. QED  BY <2>2, <3>2, <3>4
  <2>5. WalkOK'
    BY <2>4 DEF WalkOK
  <2>6. WalkIsComplete'
    BY <2>2 DEF WalkIsComplete
  <2>. QED  BY <2>5, <2>6
<1>10. ASSUME NEW names \in SUBSET Names, firstfile(names) PROVE WalkOK' /\ WalkIsComplete'
  <2>1. /\ Search(names, 1, Listed \cap names) /\ 1 \in 1..Slots+1
        /\ McdData' = McdData /\ ffile' = names /\ ~ended'
    BY <1>10 DEF firstfile
  <2>2. \A name \in Listed \cap names : \E s \in Matches(names, 1) : McdData.dir[s].name = name
    BY DEF Listed, Matches, NameOf
  <2>3. \A name \in due' : \E s \in nfile'..Slots :
          s \in Used(McdData) /\ McdData.dir[s].name = name /\ name \in names
    BY <1>0, <2>1, <2>2, SearchLeavesRest
  <2>4. WalkOK'
    BY <2>1, <2>3 DEF WalkOK
  <2>5. WalkIsComplete'
    BY <2>1 DEF WalkIsComplete
  <2>. QED  BY <2>4, <2>5
<1>11. CASE nextfile
  <2>1. /\ Search(ffile, nfile, due) /\ McdData' = McdData /\ ffile' = ffile
        /\ ended' = (Matches(ffile, nfile) = {})
    BY <1>11 DEF nextfile
  <2>2. \A name \in due : \E s \in Matches(ffile, nfile) : McdData.dir[s].name = name
    BY <1>0 DEF WalkOK, Matches, NameOf, IsUsed, Used
  <2>3. /\ Matches(ffile, nfile) = {} => due' = {}
        /\ \A name \in due' : \E s \in nfile'..Slots :
             s \in Used(McdData) /\ McdData.dir[s].name = name /\ name \in ffile
    BY <1>0, <2>1, <2>2, SearchLeavesRest
  <2>4. WalkOK'
    BY <2>1, <2>3 DEF WalkOK
  <2>5. WalkIsComplete'
    BY <2>1, <2>3 DEF WalkIsComplete
  <2>. QED  BY <2>4, <2>5
<1>. QED  BY <1>1, <1>2, <1>3, <1>4, <1>5, <1>6, <1>7, <1>8, <1>9, <1>10, <1>11 DEF CardNext

(* The card in memory and its file keep the form the code gives them: the  *)
(* file is the card byte for byte, no name occurs twice, every checksum in *)
(* use is right, and the descriptor is where its user thinks it is.        *)
THEOREM CardInvariance == CardSpec => [](CardTypeOK /\ CardOK)
<1>1. CardInit => CardTypeOK /\ CardOK
  <2>. SUFFICES ASSUME CardInit PROVE CardTypeOK /\ CardOK
    OBVIOUS
  <2>1. McdData \in Images /\ McdFile = McdData
    <3>1. Frame("free", "none") \in Frames
      BY DEF Frame, Frames, Sum
    <3>2. [s \in 1..Slots |-> [w \in 1..Words |-> 0]] \in [1..Slots -> [1..Words -> Values]]
      BY CardAssumption
    <3>. QED  BY <3>1, <3>2 DEF CardInit, Images
  <2>2. <<>> \in UNION {[1..n -> Values] : n \in 0..Words}
    <3>1. <<>> \in [1..0 -> Values]
      OBVIOUS
    <3>. QED  BY <3>1, CardAssumption
  <2>3. Used(McdData) = {}
    BY DEF CardInit, Used, Frame
  <2>4. CardTypeOK
    <3>1. FDesc \in Descriptors /\ nfile \in 1..Slots+1
      BY CardAssumption DEF CardInit, Descriptors
    <3>2. ffile \subseteq Names /\ due \subseteq Names /\ ended \in BOOLEAN /\ held = NULL
      BY DEF CardInit
    <3>. QED  BY <2>1, <2>2, <3>1, <3>2 DEF CardInit, CardTypeOK
  <2>5. CardOK
    BY <2>1, <2>3 DEF CardInit, CardOK, SoundCard, HeldOK
  <2>. QED  BY <2>4, <2>5
<1>2. CardTypeOK /\ CardOK /\ [CardNext]_cardVars => (CardTypeOK /\ CardOK)'
  BY TypeStep, CardStep
<1>. QED  BY <1>1, <1>2, PTL DEF CardSpec

(* A walk with firstfile and nextfile comes to every file, whatever is     *)
(* created, deleted or renamed on the way (bufile).                        *)
THEOREM WalkEndsLast == CardSpec => []WalkIsComplete
<1>1. CardInit => WalkOK /\ WalkIsComplete
  BY DEF CardInit, WalkOK, WalkIsComplete
<1>2. CardTypeOK /\ CardOK /\ WalkOK /\ WalkIsComplete /\ [CardNext]_cardVars
        => (WalkOK /\ WalkIsComplete)'
  BY WalkStep
<1>. QED  BY <1>1, <1>2, CardInvariance, PTL DEF CardSpec

-----------------------------------------------------------------------------
(* The refinement.  What the file of the card shows, by the card.          *)
SlotOf(m, name) == CHOOSE s \in Used(m) : m.dir[s].name = name
ContentsOf(m)   == [name \in NamesIn(m) |-> m.data[SlotOf(m, name)]]

LEMMA ShownAreUsed ==
  ASSUME NEW m, SoundCard(m)
  PROVE  {s \in 1..Slots : IsUsed(m.dir[s]) /\ IsSound(m.dir[s])} = Used(m)
BY DEF SoundCard, Used, IsUsed, IsSound

LEMMA ContentsAre == CardOK => Contents = ContentsOf(McdData)
<1>. SUFFICES ASSUME CardOK PROVE Contents = ContentsOf(McdData)
  OBVIOUS
<1>1. Shown = Used(McdData) /\ McdFile = McdData
  BY ShownAreUsed DEF CardOK, Shown
<1>. QED  BY <1>1 DEF Contents, ContentsOf, NamesIn, SlotOf

LEMMA LookedUp ==
  ASSUME NEW m, SoundCard(m), NEW s \in Used(m)
  PROVE  m.dir[s].name \in NamesIn(m) /\ ContentsOf(m)[m.dir[s].name] = m.data[s]
<1>1. m.dir[s].name \in NamesIn(m)
  BY DEF NamesIn
<1>2. SlotOf(m, m.dir[s].name) = s
  BY DEF SoundCard, SlotOf
<1>. QED  BY <1>1, <1>2 DEF ContentsOf

(* Files that are named and filled like the card's are the card's.         *)
LEMMA SameFiles ==
  ASSUME NEW m, SoundCard(m), NEW f, f = [n \in NamesIn(m) |-> f[n]],
         \A s \in Used(m) : f[m.dir[s].name] = m.data[s]
  PROVE  f = ContentsOf(m)
<1>1. \A n \in NamesIn(m) : f[n] = ContentsOf(m)[n]
  BY LookedUp DEF NamesIn
<1>2. ContentsOf(m) = [n \in NamesIn(m) |-> ContentsOf(m)[n]]
  BY DEF ContentsOf
<1>. QED  BY <1>1, <1>2

(* There are as many names as frames in use.                               *)
LEMMA NamesCount ==
  ASSUME NEW m, SoundCard(m)
  PROVE  /\ Cardinality(NamesIn(m)) \in Nat
         /\ Used(m) = 1..Slots => Cardinality(NamesIn(m)) = Slots
         /\ Used(m) # 1..Slots => Cardinality(NamesIn(m)) < Slots
<1>1. IsFiniteSet(1..Slots) /\ Cardinality(1..Slots) = Slots
  BY FS_Interval, CardAssumption
<1>2. Used(m) \in SUBSET (1..Slots)
  BY DEF Used
<1>3. /\ IsFiniteSet(Used(m)) /\ Cardinality(Used(m)) <= Slots
      /\ Used(m) # 1..Slots => Cardinality(Used(m)) # Slots
  BY <1>1, <1>2, FS_Subset
<1>4. Cardinality(Used(m)) \in Nat
  BY <1>3, FS_CardinalityType
<1>5. ExistsBijection(Used(m), NamesIn(m))
  <2>. DEFINE f == [s \in Used(m) |-> m.dir[s].name]
  <2>1. f \in [Used(m) -> NamesIn(m)]
    BY DEF NamesIn
  <2>2. \A a, b \in Used(m) : f[a] = f[b] => a = b
    BY DEF SoundCard
  <2>3. \A t \in NamesIn(m) : \E s \in Used(m) : f[s] = t
    BY DEF NamesIn
  <2>. HIDE DEF f
  <2>. QED  BY <2>1, <2>2, <2>3 DEF ExistsBijection, Bijection, Injection, Surjection, IsInjective
<1>6. Cardinality(NamesIn(m)) = Cardinality(Used(m))
  BY <1>3, <1>5, FS_Bijection
<1>. QED  BY <1>1, <1>3, <1>4, <1>6, CardAssumption

LEMMA ContentsAreNext == CardOK' => Contents' = ContentsOf(McdData')
<1>. SUFFICES ASSUME CardOK' PROVE Contents' = ContentsOf(McdData')
  OBVIOUS
<1>1. Shown' = Used(McdData') /\ McdFile' = McdData'
  BY ShownAreUsed DEF CardOK, Shown
<1>. QED  BY <1>1 DEF Contents, ContentsOf, NamesIn, SlotOf

(* Every call is one of CardFiles, or changes nothing of it.               *)
LEMMA StepMaps ==
  ASSUME CardTypeOK, CardOK, CardOK', [CardNext]_cardVars
  PROVE  [CardPromise!Next]_(CardPromise!vars)
<1>. USE CardAssumption
<1>0. /\ McdData \in Images /\ SoundCard(McdData) /\ SoundCard(McdData') /\ HeldOK
      /\ Contents = ContentsOf(McdData) /\ Contents' = ContentsOf(McdData')
      /\ DOMAIN Contents = NamesIn(McdData)
  BY ContentsAre, ContentsAreNext DEF CardTypeOK, CardOK, ContentsOf
<1>a. CardPromise!Cardinality(DOMAIN Contents) = Cardinality(DOMAIN Contents)
  BY DEF CardPromise!Cardinality, Cardinality
<1>b. \A name : name \in NamesIn(McdData) <=> Of(name) # {}
  BY UsedFrames DEF NamesIn
<1>1. CASE UNCHANGED cardVars
  BY <1>0, <1>1 DEF cardVars, CardPromise!vars
<1>2. ASSUME NEW name \in Names, NEW async \in BOOLEAN, open(name, async) PROVE CardPromise!Open(name, async)
  <2>1. Contents' = Contents
    BY <1>0, <1>2 DEF open
  <2>. QED  BY <1>0, <1>b, <1>2, <2>1
            DEF open, Hold, Rewind, CardPromise!Open, CardPromise!Beginning, CardPromise!Rewound
<1>3. ASSUME NEW name \in Names, NEW async \in BOOLEAN, create(name, async) PROVE CardPromise!Create(name, async)
  <2>1. name \notin NamesIn(McdData) /\ got' = <<>>
    BY <1>b, <1>3 DEF create
  <2>2. CASE Unused # {}
    <3>. DEFINE s == Min(Unused)
                f == Frame("used", name)
                g == CardPromise!Here(name, McdData.data[s])
    <3>1. /\ s \in (1..Slots) \ Used(McdData) /\ f \in Frames
          /\ McdData' = WithFrame(McdData, s, f)
      BY <1>3, <2>2, CreateEffect
    <3>2. f.state = "used" /\ f.name = name
      BY DEF Frame
    <3>3. held' = CardPromise!Beginning(name, async)
      BY <1>3, <2>2 DEF create, Hold, CardPromise!Beginning
    <3>4. Cardinality(DOMAIN Contents) < Slots
      BY <1>0, <3>1, NamesCount
    <3>5. McdData.data[s] \in [1..Words -> Values]
      BY <1>0, <3>1 DEF Images
    <3>. HIDE DEF s, f
    <3>6. /\ Used(McdData') = Used(McdData) \union {s}
          /\ McdData'.data = McdData.data /\ McdData'.dir[s].name = name
          /\ \A t \in Used(McdData) : t # s /\ McdData'.dir[t].name = McdData.dir[t].name
      <4>1. /\ McdData'.data = McdData.data /\ McdData'.dir[s] = f
            /\ Used(McdData') = Used(McdData) \union {s}
            /\ \A t \in Used(McdData) \ {s} : McdData'.dir[t] = McdData.dir[t]
        BY <1>0, <3>1, <3>2, FramesAfter
      <4>. QED  BY <3>1, <3>2, <4>1
    <3>7. NamesIn(McdData') = NamesIn(McdData) \union {name}
      BY <3>6 DEF NamesIn
    <3>8. g = [n \in NamesIn(McdData') |-> g[n]]
      BY <1>0, <3>7 DEF CardPromise!Here
    <3>9. \A t \in Used(McdData') : g[McdData'.dir[t].name] = McdData'.data[t]
      <4>1. g[name] = McdData.data[s]
        BY <1>0 DEF CardPromise!Here
      <4>2. \A t \in Used(McdData) : g[McdData.dir[t].name] = McdData.data[t]
        BY <1>0, <2>1, LookedUp DEF CardPromise!Here
      <4>. HIDE DEF g
      <4>. QED  BY <3>6, <4>1, <4>2
    <3>. HIDE DEF g
    <3>10. g = Contents'
      BY <1>0, <3>8, <3>9, SameFiles
    <3>. QED  BY <1>0, <1>a, <2>1, <3>3, <3>4, <3>5, <3>10 DEF CardPromise!Create, g
  <2>3. CASE Unused = {}
    <3>1. Used(McdData) = 1..Slots
      BY <2>3, UsedFrames DEF Used
    <3>2. Cardinality(DOMAIN Contents) = Slots
      BY <1>0, <3>1, NamesCount
    <3>3. held' = CardPromise!Rewound(async) /\ McdData' = McdData
      BY <1>3, <2>3 DEF create, Rewind, CardPromise!Beginning, CardPromise!Rewound
    <3>. QED  BY <1>0, <1>a, <2>1, <3>2, <3>3 DEF CardPromise!Create
  <2>. QED  BY <2>2, <2>3
<1>4. ASSUME NEW name \in Names, delete(name) PROVE CardPromise!Delete(name)
  <2>. DEFINE s == Min(Of(name))
              f == [McdData.dir[s] EXCEPT !.state = "deleted"]
              g == Restrict(Contents, DOMAIN Contents \ {name})
  <2>1. /\ s \in Used(McdData) /\ McdData.dir[s].name = name /\ s \in 1..Slots
        /\ f \in Frames /\ McdData' = WithFrame(McdData, s, f)
    BY <1>4, DeleteEffect DEF Used
  <2>2. McdData.dir[s] \in Frames
    BY <1>0, <2>1 DEF Images
  <2>3. f.state # "used"
    BY <2>2 DEF Frames
  <2>4. name \in DOMAIN Contents
    BY <1>0, <1>4, <1>b DEF delete
  <2>5. held' = (IF held # NULL /\ held.name = name THEN NULL ELSE held) /\ got' = <<>>
    BY <1>4 DEF delete
  <2>. HIDE DEF s, f
  <2>6. /\ Used(McdData') = Used(McdData) \ {s} /\ McdData'.data = McdData.data
        /\ \A t \in Used(McdData) \ {s} :
             McdData'.dir[t].name = McdData.dir[t].name /\ McdData.dir[t].name # name
    <3>1. \A t \in Used(McdData) \ {s} : McdData.dir[t].name # name
      BY <1>0, <2>1 DEF SoundCard
    <3>2. /\ McdData'.data = McdData.data /\ Used(McdData') = Used(McdData) \ {s}
          /\ \A t \in Used(McdData) \ {s} : McdData'.dir[t] = McdData.dir[t]
      BY <1>0, <2>1, <2>3, FramesAfter
    <3>. QED  BY <3>1, <3>2
  <2>7. NamesIn(McdData') = NamesIn(McdData) \ {name}
    BY <2>1, <2>6 DEF NamesIn
  <2>8. g = [n \in NamesIn(McdData') |-> g[n]]
    BY <1>0, <2>7 DEF Restrict
  <2>9. \A t \in Used(McdData') : g[McdData'.dir[t].name] = McdData'.data[t]
    BY <1>0, <2>6, LookedUp DEF Restrict
  <2>. HIDE DEF g
  <2>10. g = Contents'
    BY <1>0, <2>8, <2>9, SameFiles
  <2>. QED  BY <2>4, <2>5, <2>10 DEF CardPromise!Delete, CardPromise!Restrict, Restrict, g
<1>5. ASSUME NEW values \in UNION {[1..n -> Values] : n \in 1..Words}, write(values)
      PROVE  CardPromise!Write(values)
  <2>. DEFINE s == FDesc.mcfile
              b == NewBlock(values)
              g == CardPromise!Here(held.name, b)
  <2>1. /\ s \in Used(McdData) /\ b \in [1..Words -> Values]
        /\ McdData' = WithBlock(McdData, s, b)
    BY <1>5, WriteEffect
  <2>2. /\ held # NULL /\ held.name = McdData.dir[s].name /\ held.at = FDesc.offset
        /\ FDesc.offset + Len(values) <= Words + 1
        /\ held' = [held EXCEPT !.at = @ + Len(values)] /\ got' = <<>>
    BY <1>0, <1>5 DEF write, InBlock, Moved, HeldOK
  <2>3. Contents[held.name] = McdData.data[s]
    BY <1>0, <2>1, <2>2, LookedUp
  <2>4. b = [w \in 1..Words |-> IF w \in held.at..(held.at + Len(values) - 1)
                               THEN values[w - held.at + 1] ELSE Contents[held.name][w]]
    BY <2>2, <2>3 DEF NewBlock, Touched
  <2>. HIDE DEF b
  <2>5. /\ McdData'.dir = McdData.dir /\ McdData'.data[s] = b
        /\ \A t \in Used(McdData) \ {s} : McdData'.data[t] = McdData.data[t]
    BY <1>0, <2>1 DEF WithBlock, Images, Used
  <2>. HIDE DEF s
  <2>6. Used(McdData') = Used(McdData) /\ NamesIn(McdData') = NamesIn(McdData)
    BY <2>5 DEF Used, NamesIn
  <2>7. held.name \in NamesIn(McdData)
    BY <2>1, <2>2 DEF NamesIn
  <2>8. g = [n \in NamesIn(McdData') |-> g[n]]
    BY <1>0, <2>6, <2>7 DEF CardPromise!Here
  <2>9. \A t \in Used(McdData') : g[McdData'.dir[t].name] = McdData'.data[t]
    <3>1. g[held.name] = b
      BY <1>0, <2>7 DEF CardPromise!Here
    <3>2. \A t \in Used(McdData) \ {s} : McdData.dir[t].name # held.name
      BY <1>0, <2>1, <2>2 DEF SoundCard
    <3>3. \A t \in Used(McdData) \ {s} : g[McdData.dir[t].name] = McdData.data[t]
      BY <1>0, <3>2, LookedUp DEF CardPromise!Here
    <3>. HIDE DEF g
    <3>. QED  BY <2>2, <2>5, <2>6, <3>1, <3>3
  <2>. HIDE DEF g
  <2>10. g = Contents'
    BY <1>0, <2>8, <2>9, SameFiles
  <2>. QED  BY <2>2, <2>4, <2>10 DEF CardPromise!Write, g
<1>6. ASSUME NEW n \in 1..Words, read(n) PROVE CardPromise!Read(n)
  <2>1. /\ held # NULL /\ FDesc.mcfile \in Used(McdData)
        /\ held.name = McdData.dir[FDesc.mcfile].name /\ held.at = FDesc.offset
        /\ FDesc.offset + n <= Words + 1 /\ FDesc.async = held.async
        /\ held \in Places
    BY <1>0, <1>6 DEF read, InBlock, HeldOK, CardTypeOK
  <2>2. Contents[held.name] = McdData.data[FDesc.mcfile]
    BY <1>0, <2>1, LookedUp
  <2>3. Contents' = Contents
    BY <1>0, <1>6 DEF read
  <2>4. held' = IF held.async THEN held ELSE [held EXCEPT !.at = @ + n]
    <3>1. CASE held.async
      <4>1. held' = [held EXCEPT !.at = @ + 0]
        BY <1>6, <2>1, <3>1 DEF read, Moved
      <4>. QED  BY <2>1, <3>1, <4>1 DEF Places
    <3>2. CASE ~held.async
      BY <1>6, <2>1, <3>2 DEF read, Moved
    <3>. QED  BY <3>1, <3>2
  <2>. QED  BY <1>6, <2>1, <2>2, <2>3, <2>4 DEF read, CardPromise!Read
<1>7. ASSUME NEW at \in 1..Words+1, lseek(at) PROVE CardPromise!Seek(at)
  <2>1. Contents' = Contents
    BY <1>0, <1>7 DEF lseek
  <2>. QED  BY <1>7, <2>1 DEF lseek, CardPromise!Seek
<1>8. ASSUME close PROVE CardPromise!Close
  <2>1. Contents' = Contents
    BY <1>0, <1>8 DEF close
  <2>. QED  BY <1>8, <2>1 DEF close, CardPromise!Close
<1>9. ASSUME NEW old \in Names, NEW new \in Names, rename(old, new)
      PROVE  CardPromise!Rename(old, new)
  <2>. DEFINE s == Min(Of(old))
              f == Frame("used", new)
              g == [n \in (DOMAIN Contents \ {old}) \union {new} |->
                      Contents[IF n = new THEN old ELSE n]]
  <2>1. /\ s \in Used(McdData) /\ McdData.dir[s].name = old /\ s \in 1..Slots
        /\ f \in Frames /\ McdData' = WithFrame(McdData, s, f)
    BY <1>9, RenameEffect DEF Used
  <2>2. f.state = "used" /\ f.name = new
    BY DEF Frame
  <2>3. old \in DOMAIN Contents /\ new \notin DOMAIN Contents
    BY <1>0, <1>9, <1>b DEF rename
  <2>4. /\ held' = (IF held # NULL /\ held.name = old THEN [held EXCEPT !.name = new] ELSE held)
        /\ got' = <<>>
    BY <1>9 DEF rename
  <2>. HIDE DEF s, f
  <2>5. /\ Used(McdData') = Used(McdData) /\ McdData'.data = McdData.data
        /\ McdData'.dir[s].name = new
        /\ \A t \in Used(McdData) \ {s} :
             McdData'.dir[t].name = McdData.dir[t].name /\ McdData.dir[t].name # old
    <3>1. \A t \in Used(McdData) \ {s} : McdData.dir[t].name # old
      BY <1>0, <2>1 DEF SoundCard
    <3>2. /\ McdData'.data = McdData.data /\ McdData'.dir[s] = f
          /\ Used(McdData') = Used(McdData) \union {s}
          /\ \A t \in Used(McdData) \ {s} : McdData'.dir[t] = McdData.dir[t]
      BY <1>0, <2>1, <2>2, FramesAfter
    <3>. QED  BY <2>1, <2>2, <3>1, <3>2
  <2>6. NamesIn(McdData') = (NamesIn(McdData) \ {old}) \union {new}
    <3>1. ASSUME NEW n \in NamesIn(McdData')
          PROVE  n \in (NamesIn(McdData) \ {old}) \union {new}
      <4>1. PICK t \in Used(McdData) : McdData'.dir[t].name = n
        BY <2>5 DEF NamesIn
      <4>. QED  BY <2>5, <4>1 DEF NamesIn
    <3>2. ASSUME NEW n \in NamesIn(McdData), n # old PROVE n \in NamesIn(McdData')
      <4>1. PICK t \in Used(McdData) : McdData.dir[t].name = n
        BY DEF NamesIn
      <4>. QED  BY <2>1, <2>5, <3>2, <4>1 DEF NamesIn
    <3>3. new \in NamesIn(McdData')
      BY <2>1, <2>5 DEF NamesIn
    <3>. QED  BY <3>1, <3>2, <3>3
  <2>7. g = [n \in NamesIn(McdData') |-> g[n]]
    BY <1>0, <2>6
  <2>8. \A t \in Used(McdData') : g[McdData'.dir[t].name] = McdData'.data[t]
    <3>1. g[new] = McdData.data[s]
      BY <1>0, <2>1, LookedUp
    <3>2. \A t \in Used(McdData) \ {s} : McdData.dir[t].name # new
      BY <1>0, <2>3, LookedUp
    <3>3. \A t \in Used(McdData) \ {s} : g[McdData.dir[t].name] = McdData.data[t]
      BY <1>0, <2>5, <3>2, LookedUp
    <3>. HIDE DEF g
    <3>. QED  BY <2>5, <3>1, <3>3
  <2>. HIDE DEF g
  <2>9. g = Contents'
    BY <1>0, <2>7, <2>8, SameFiles
  <2>. QED  BY <2>3, <2>4, <2>9 DEF CardPromise!Rename, g
<1>10. ASSUME UNCHANGED <<McdData, McdFile, FDesc, held>>, got' = <<>>
       PROVE  (\E at \in 1..Words+1 : CardPromise!Seek(at)) \/ UNCHANGED CardPromise!vars
  <2>1. Contents' = Contents
    BY <1>0, <1>10
  <2>2. CASE held = NULL
    BY <1>10, <2>1, <2>2 DEF CardOK, CardPromise!vars
  <2>3. CASE held # NULL
    <3>1. held \in Places
      BY <2>3 DEF CardTypeOK
    <3>2. held' = [held EXCEPT !.at = held.at] /\ held.at \in 1..Words+1
      BY <1>10, <3>1 DEF Places
    <3>. QED  BY <1>10, <2>1, <2>3, <3>2 DEF CardPromise!Seek
  <2>. QED  BY <2>2, <2>3
<1>11. ASSUME NEW names \in SUBSET Names, firstfile(names)
       PROVE  UNCHANGED <<McdData, McdFile, FDesc, held>> /\ got' = <<>>
  BY <1>11 DEF firstfile
<1>12. ASSUME nextfile
       PROVE  UNCHANGED <<McdData, McdFile, FDesc, held>> /\ got' = <<>>
  BY <1>12 DEF nextfile
<1>. QED
  BY <1>1, <1>2, <1>3, <1>4, <1>5, <1>6, <1>7, <1>8, <1>9, <1>10, <1>11, <1>12
  DEF CardNext, CardPromise!Next

(* The calls on a card keep the promise of CardFiles: each changes the     *)
(* file it is about and no other, in memory and in the card's file alike   *)
(* (the file calls of psxbios.cpp).                                        *)
THEOREM Refinement == CardSpec => RefinesFiles
<1>1. CardInit => CardPromise!Init
  <2>. SUFFICES ASSUME CardInit PROVE CardPromise!Init
    OBVIOUS
  <2>1. Shown = {}
    BY DEF CardInit, Shown, IsUsed, Frame
  <2>2. Contents = [n \in {} |-> {}]
    BY <2>1 DEF Contents
  <2>3. Contents = <<>>
    BY <2>2
  <2>. QED  BY <2>3 DEF CardInit, CardPromise!Init
<1>2. CardTypeOK /\ CardOK /\ CardOK' /\ [CardNext]_cardVars
        => [CardPromise!Next]_(CardPromise!vars)
  BY StepMaps
<1>. QED  BY <1>1, <1>2, CardInvariance, PTL DEF CardSpec, RefinesFiles, CardPromise!Spec

-----------------------------------------------------------------------------
(* The heap: what its chain of chunks is.                                  *)

Memories == [0..Size+1 -> [size : 0..Size, free : BOOLEAN]]

(* C is where the chunks of m begin, up to where the chain leaves the heap.*)
IsChain(m, C) ==
  /\ C \subseteq 0..Size+1 /\ 0 \in C
  /\ \A c \in C : c < Size => Following(m, c) \in C
  /\ \A d \in C : d # 0 => \E c \in C : c < Size /\ Following(m, c) = d

LEMMA LeastOfNats ==
  ASSUME NEW S, S \subseteq Nat, S # {}
  PROVE  /\ \E x \in S : \A y \in S : x <= y
         /\ Min(S) \in S /\ \A x \in S : Min(S) <= x
<1>1. PICK x \in S : \A y \in S : ~(<<y, x>> \in OpToRel(<, Nat))
  BY NatLessThanWellFounded, WFMin
<1>2. \A y \in S : ~(y < x)
  BY <1>1 DEF OpToRel
<1>3. \A y \in S : x <= y
  BY <1>2
<1> QED  BY <1>3, Zenon DEF Min

LEMMA GreatestUpTo ==
  ASSUME NEW S, S \subseteq Nat, NEW k \in Nat, NEW s \in S, s <= k
  PROVE  \E x \in S : x <= k /\ \A y \in S : y <= k => y <= x
<1> DEFINE D == {k - x : x \in {y \in S : y <= k}}
<1>1. D \subseteq Nat /\ k - s \in D
  OBVIOUS
<1>2. PICK d \in D : \A e \in D : d <= e
  <2> HIDE DEF D
  <2> QED  BY <1>1, LeastOfNats
<1>3. PICK x \in S : x <= k /\ d = k - x
  OBVIOUS
<1>4. ASSUME NEW y \in S, y <= k PROVE y <= x
  <2>1. k - y \in D
    BY <1>4
  <2>2. k - x <= k - y
    BY <1>2, <1>3, <2>1
  <2> QED  BY <1>3, <2>2
<1> QED  BY <1>3, <1>4

LEMMA UpFromZero ==
  ASSUME NEW n \in Nat, NEW S, 0 \in S,
         \A i \in 1..n : i - 1 \in S => i \in S
  PROVE  0..n \subseteq S
<1> DEFINE Bad == (0..n) \ S
<1>1. SUFFICES ASSUME Bad # {} PROVE FALSE
  OBVIOUS
<1>2. PICK i \in Bad : \A j \in Bad : i <= j
  <2>1. Bad \subseteq Nat
    OBVIOUS
  <2> HIDE DEF Bad
  <2> QED  BY <1>1, <2>1, LeastOfNats
<1>3. i \in 1..n /\ i - 1 \in 0..n /\ ~(i <= i - 1) /\ i \notin S
  OBVIOUS
<1> QED  BY <1>2, <1>3

LEMMA FollowingIs ==
  ASSUME NEW m \in Memories, NEW c \in 0..Size+1, c < Size
  PROVE  /\ m[c].size \in 0..Size /\ m[c].free \in BOOLEAN
         /\ Following(m, c) = c + m[c].size + 1
         /\ Following(m, c) \in Nat /\ c < Following(m, c)
<1>1. m[c] \in [size : 0..Size, free : BOOLEAN]
  BY DEF Memories
<1>2. m[c].size \in 0..Size /\ m[c].free \in BOOLEAN
  BY <1>1
<1>3. Following(m, c) = c + m[c].size + 1
  BY DEF Following
<1>4. Size \in Nat /\ c \in Nat /\ m[c].size \in Nat
  BY <1>2, HeapAssumption
<1> QED  BY <1>2, <1>3, <1>4

(* The chain goes up: no chunk begins inside another.                      *)
LEMMA NoOverlap ==
  ASSUME NEW m \in Memories, NEW C, IsChain(m, C),
         NEW c \in C, NEW d \in C, c < Size, c < d
  PROVE  Following(m, c) <= d
<1> DEFINE Bad == {e \in C : \E b \in C : b < Size /\ b < e /\ e < Following(m, b)}
<1>1. C \subseteq Nat /\ C \subseteq 0..Size+1 /\ Size \in Nat
  BY HeapAssumption DEF IsChain
<1>2. \A b \in C : b < Size => Following(m, b) \in Nat /\ b < Following(m, b)
  BY <1>1, FollowingIs
<1>3. SUFFICES ASSUME d \in Bad PROVE FALSE
  BY <1>1, <1>2
<1>4. PICK e \in Bad : \A f \in Bad : e <= f
  <2>1. Bad \subseteq Nat /\ Bad # {}
    BY <1>1, <1>3
  <2> HIDE DEF Bad
  <2> QED  BY <2>1, LeastOfNats
<1>5. PICK b \in C : b < Size /\ b < e /\ e < Following(m, b)
  OBVIOUS
<1>6. e \in C /\ e # 0
  BY <1>1, <1>5
<1>7. PICK a \in C : a < Size /\ Following(m, a) = e
  BY <1>6 DEF IsChain
<1>8. a < e
  BY <1>2, <1>7
<1>9. CASE a = b
  BY <1>1, <1>2, <1>5, <1>7, <1>9
<1>10. CASE b < a
  <2>1. a < Following(m, b)
    BY <1>1, <1>2, <1>5, <1>6, <1>8
  <2>2. a \in Bad
    BY <1>5, <1>10, <2>1
  <2> QED  BY <1>1, <1>4, <1>6, <1>8, <2>2
<1>11. CASE a < b
  <2>1. b \in Bad
    BY <1>5, <1>7, <1>11
  <2> QED  BY <1>1, <1>4, <1>5, <1>6, <2>1
<1> QED  BY <1>1, <1>9, <1>10, <1>11

(* The chain leaves the heap.                                              *)
LEMMA ChainEnds ==
  ASSUME NEW m \in Memories, NEW C, IsChain(m, C)
  PROVE  \E d \in C : Size <= d
<1>1. C \subseteq Nat /\ C \subseteq 0..Size+1 /\ Size \in Nat /\ 0 \in C
  BY HeapAssumption DEF IsChain
<1>2. PICK c \in C : c <= Size + 1 /\ \A d \in C : d <= Size + 1 => d <= c
  <2>1. Size + 1 \in Nat /\ 0 <= Size + 1
    BY <1>1
  <2> QED  BY <1>1, <2>1, GreatestUpTo
<1>3. ASSUME c < Size PROVE FALSE
  <2>1. Following(m, c) \in C
    BY <1>3 DEF IsChain
  <2>2. c < Following(m, c)
    BY <1>1, <1>3, FollowingIs
  <2>3. Following(m, c) \in 0..Size+1 /\ c \in 0..Size+1
    BY <1>1, <2>1
  <2>4. Following(m, c) <= c
    BY <1>2, <2>1, <2>3
  <2> QED  BY <1>1, <2>2, <2>3, <2>4
<1> QED  BY <1>1, <1>3

(* Chunks finds the chain.                                                 *)
LEMMA ChunksAre ==
  ASSUME NEW m \in Memories, NEW C, IsChain(m, C)
  PROVE  Chunks(m) = C
<1> DEFINE n == Size + 1
           Step(f) == [i \in 0..n |-> IF i = 0 THEN 0 ELSE Following(m, f[i-1])]
           Upto(k, f) == /\ f \in [0..n -> C] /\ f[0] = 0
                         /\ \A i \in 1..n : i <= k => f[i] = Following(m, f[i-1])
           S == {k \in 0..n : \E f : Upto(k, f)}
<1>1. /\ n \in Nat /\ Size \in Nat /\ C \subseteq 0..n /\ 0 \in C
      /\ C \subseteq 0..Size+1 /\ C \subseteq Nat
  BY HeapAssumption DEF IsChain
<1>2. \A c \in C : Following(m, c) \in C
  BY DEF IsChain, Following
<1> HIDE DEF n
<1>3. 0 \in S
  <2> DEFINE f == [i \in 0..n |-> 0]
  <2>1. Upto(0, f)
    BY <1>1
  <2> QED  BY <1>1, <2>1
<1>4. ASSUME NEW k \in 1..n, k - 1 \in S PROVE k \in S
  <2>1. PICK f : Upto(k - 1, f)
    BY <1>4
  <2> DEFINE g == [f EXCEPT ![k] = Following(m, f[k-1])]
  <2>2. k - 1 \in 0..n /\ k \in 0..n /\ k # 0
    BY <1>1
  <2>3. Following(m, f[k-1]) \in C
    BY <1>2, <2>1, <2>2
  <2>4. g \in [0..n -> C] /\ g[0] = 0
    BY <2>1, <2>2, <2>3
  <2>5. ASSUME NEW i \in 1..n, i <= k PROVE g[i] = Following(m, g[i-1])
    <3>1. i \in 0..n /\ i - 1 \in 0..n /\ i - 1 # k
      BY <1>1, <2>5
    <3>2. CASE i = k
      BY <2>1, <2>2, <3>1, <3>2
    <3>3. CASE i # k
      <4>1. i <= k - 1
        BY <2>5, <3>3
      <4> QED  BY <2>1, <3>1, <3>3, <4>1
    <3> QED  BY <3>2, <3>3
  <2> HIDE DEF g
  <2>6. Upto(k, g)
    BY <2>4, <2>5
  <2> HIDE DEF Upto
  <2> QED  BY <2>2, <2>6
<1>5. n \in S
  <2>1. 0..n \subseteq S
    <3> HIDE DEF S
    <3> QED  BY <1>1, <1>3, <1>4, UpFromZero
  <2> HIDE DEF S
  <2> QED  BY <1>1, <2>1
<1>6. PICK g : Upto(n, g)
  BY <1>5
<1>7. g = Step(g)
  <2>1. ASSUME NEW i \in 0..n PROVE g[i] = Step(g)[i]
    <3>1. i # 0 => i \in 1..n /\ i <= n
      BY <1>1
    <3> QED  BY <1>6, <3>1
  <2>2. g = [i \in 0..n |-> g[i]]
    BY <1>6
  <2>3. Step(g) = [i \in 0..n |-> Step(g)[i]]
    OBVIOUS
  <2> HIDE DEF Step, Upto
  <2> QED  BY <2>1, <2>2, <2>3
<1> DEFINE ch == CHOOSE f : f = Step(f)
<1>8. Chunks(m) = {ch[i] : i \in 0..n}
  BY DEF Chunks, n
<1>9. ch = Step(ch)
  <2> HIDE DEF Step, Upto
  <2> QED  BY <1>7, Zenon
<1> HIDE DEF ch
<1>10. ch[0] = 0 /\ \A i \in 1..n : ch[i] = Following(m, ch[i-1])
  <2>1. 0 \in 0..n /\ \A i \in 1..n : i \in 0..n /\ i # 0
    BY <1>1
  <2>2. Step(ch)[0] = 0 /\ \A i \in 1..n : Step(ch)[i] = Following(m, ch[i-1])
    BY <2>1
  <2> HIDE DEF Step
  <2> QED  BY <1>9, <2>2
<1> DEFINE T == {i \in 0..n : ch[i] \in C /\ (i <= ch[i] \/ Size <= ch[i])}
<1>11. 0..n \subseteq T
  <2>1. 0 \in T
    BY <1>1, <1>10
  <2>2. ASSUME NEW i \in 1..n, i - 1 \in T PROVE i \in T
    <3>1. i \in 0..n /\ ch[i-1] \in C /\ (i - 1 <= ch[i-1] \/ Size <= ch[i-1])
      BY <1>1, <2>2
    <3>2. ch[i] = Following(m, ch[i-1]) /\ ch[i] \in C
      BY <1>2, <1>10, <3>1
    <3>3. CASE Size <= ch[i-1]
      <4>1. ch[i-1] \in Nat
        BY <1>1, <3>1
      <4>2. ~(ch[i-1] < Size)
        BY <1>1, <3>3, <4>1
      <4>3. ch[i] = ch[i-1]
        BY <3>2, <4>2 DEF Following
      <4> QED  BY <3>1, <3>2, <3>3, <4>3
    <3>4. CASE ~(Size <= ch[i-1])
      <4>0. ch[i-1] \in 0..Size+1 /\ ch[i-1] \in Nat
        <5>1. ch[i-1] \in C
          BY <3>1
        <5> HIDE DEF T
        <5> QED  BY <1>1, <5>1
      <4>1. ch[i-1] < Size /\ ch[i-1] \in 0..Size+1
        <5> HIDE DEF T
        <5> QED  BY <1>1, <3>4, <4>0
      <4>2. ch[i-1] < Following(m, ch[i-1]) /\ Following(m, ch[i-1]) \in Nat
        BY <4>1, FollowingIs
      <4>3. i <= ch[i]
        BY <1>1, <3>1, <3>2, <3>4, <4>1, <4>2
      <4> QED  BY <3>1, <3>2, <4>3
    <3> QED  BY <3>3, <3>4
  <2> HIDE DEF T
  <2> QED  BY <1>1, <2>1, <2>2, UpFromZero
<1>12. Chunks(m) \subseteq C
  BY <1>8, <1>11
<1>13. C \subseteq Chunks(m)
  <2> DEFINE Bad == C \ Chunks(m)
  <2>1. SUFFICES ASSUME Bad # {} PROVE FALSE
    OBVIOUS
  <2>2. PICK d \in Bad : \A e \in Bad : d <= e
    <3>1. Bad \subseteq C
      OBVIOUS
    <3> HIDE DEF Bad
    <3>2. Bad \subseteq Nat
      BY <1>1, <3>1
    <3> QED  BY <2>1, <3>2, LeastOfNats
  <2>3. d \in C /\ d \notin Chunks(m) /\ d # 0
    <3>1. 0 \in Chunks(m)
      BY <1>1, <1>8, <1>10
    <3> QED  BY <3>1
  <2>4. PICK c \in C : c < Size /\ Following(m, c) = d
    BY <2>3 DEF IsChain
  <2>5. c < d /\ c \in 0..Size+1
    BY <1>1, <2>4, FollowingIs DEF n
  <2>6. c \in Chunks(m)
    <3>1. ~(d <= c)
      BY <1>1, <2>3, <2>5
    <3> QED  BY <2>2, <3>1
  <2>7. PICK i \in 0..n : c = ch[i]
    BY <1>8, <2>6
  <2>8. i <= c
    <3>1. i <= ch[i] \/ Size <= ch[i]
      BY <1>11
    <3> QED  BY <1>1, <2>4, <2>5, <2>7, <3>1
  <2>9. i + 1 \in 1..n /\ (i + 1) - 1 = i /\ i + 1 \in 0..n
    BY <1>1, <2>4, <2>5, <2>8 DEF n
  <2>10. ch[i+1] = d
    BY <1>10, <2>4, <2>7, <2>9
  <2>11. d \in Chunks(m)
    BY <1>8, <2>9, <2>10
  <2> QED  BY <2>3, <2>11
<1> QED  BY <1>12, <1>13

(* The blocks in use are the chunks that are not free.                     *)
Keeps(m, C, bs) ==
  /\ IsChain(m, C)
  /\ \A c \in C : c < Size /\ ~m[c].free =>
        c + 1 \in DOMAIN bs /\ bs[c+1] = m[c].size
  /\ \A b \in DOMAIN bs :
        b \in 1..Size /\ b - 1 \in C /\ ~m[b-1].free

LEMMA ChainFacts ==
  ASSUME NEW m \in Memories, NEW C, IsChain(m, C)
  PROVE  /\ Size \in Nat /\ Size # 0 /\ C \subseteq Nat /\ C \subseteq 0..Size+1
         /\ 0 \in C
         /\ \A c \in C : c < Size =>
              /\ m[c].size \in 0..Size /\ m[c].free \in BOOLEAN
              /\ Following(m, c) = c + m[c].size + 1
              /\ Following(m, c) \in C /\ c < Following(m, c)
              /\ \A d \in C : c < d => Following(m, c) <= d
         /\ \A d \in C : d # 0 => \E c \in C : c < Size /\ Following(m, c) = d
<1>1. C \subseteq Nat /\ C \subseteq 0..Size+1 /\ Size \in Nat /\ 0 \in C /\ Size # 0
  BY HeapAssumption DEF IsChain
<1>2. ASSUME NEW c \in C, c < Size
      PROVE  /\ m[c].size \in 0..Size /\ m[c].free \in BOOLEAN
             /\ Following(m, c) = c + m[c].size + 1
             /\ Following(m, c) \in C /\ c < Following(m, c)
             /\ \A d \in C : c < d => Following(m, c) <= d
  <2>1. Following(m, c) \in C
    BY <1>2 DEF IsChain
  <2> QED  BY <1>1, <1>2, <2>1, FollowingIs, NoOverlap
<1>3. \A d \in C : d # 0 => \E c \in C : c < Size /\ Following(m, c) = d
  BY DEF IsChain
<1> QED  BY <1>1, <1>2, <1>3

(* InitHeap makes one chunk of it all.                                     *)
LEMMA FreshKeeps ==
  ASSUME NEW m \in Memories, NEW bs, DOMAIN bs = {}
  PROVE  Fresh(m) \in Memories /\ Keeps(Fresh(m), {0, Size + 1}, bs)
<1> DEFINE f == Fresh(m)
           C == {0, Size + 1}
<1>1. Size \in Nat /\ Size # 0
  BY HeapAssumption
<1>2. 0 \in 0..Size+1 /\ Header(Size, TRUE) \in [size : 0..Size, free : BOOLEAN]
  BY <1>1 DEF Header
<1>3. f \in Memories /\ f[0] = Header(Size, TRUE)
  BY <1>2 DEF Fresh, Memories
<1>4. f[0].size = Size /\ f[0].free
  BY <1>3 DEF Header
<1> HIDE DEF f
<1>5. Following(f, 0) = Size + 1
  BY <1>1, <1>4 DEF Following
<1>6. IsChain(f, C)
  BY <1>1, <1>5 DEF IsChain
<1>7. \A c \in C : c < Size => f[c].free
  BY <1>1, <1>4
<1>8. Keeps(f, C, bs)
  <2> HIDE DEF C
  <2> QED  BY <1>6, <1>7 DEF Keeps
<1> QED  BY <1>3, <1>8 DEF f

(* free clears a chunk's mark and no more.                                 *)
LEMMA FreeKeeps ==
  ASSUME NEW m \in Memories, NEW C, NEW bs, Keeps(m, C, bs), NEW a \in DOMAIN bs
  PROVE  LET f == [m EXCEPT ![a-1].free = TRUE]
         IN  /\ f \in Memories
             /\ Keeps(f, C, Restrict(bs, DOMAIN bs \ {a}))
<1> DEFINE f == [m EXCEPT ![a-1].free = TRUE]
           rest == Restrict(bs, DOMAIN bs \ {a})
<1>1. IsChain(m, C) /\ a \in 1..Size /\ a - 1 \in C
  BY DEF Keeps
<1>2. C \subseteq 0..Size+1 /\ C \subseteq Nat /\ Size \in Nat
  BY <1>1, ChainFacts
<1>3. \A w \in 0..Size+1 : m[w] \in [size : 0..Size, free : BOOLEAN]
  BY DEF Memories
<1>4. /\ f \in Memories
      /\ \A w \in 0..Size+1 :
           /\ f[w].size = m[w].size
           /\ f[w].free = IF w = a - 1 THEN TRUE ELSE m[w].free
  BY <1>3 DEF Memories
<1> HIDE DEF f
<1>5. \A c \in C : Following(f, c) = Following(m, c)
  BY <1>2, <1>4 DEF Following
<1>6. IsChain(f, C)
  BY <1>1, <1>5 DEF IsChain
<1>7. DOMAIN rest = DOMAIN bs \ {a} /\ \A b \in DOMAIN bs \ {a} : rest[b] = bs[b]
  BY DEF Restrict
<1> HIDE DEF rest
<1>8. ASSUME NEW c \in C, c < Size, ~f[c].free
      PROVE  c + 1 \in DOMAIN rest /\ rest[c+1] = f[c].size
  <2>1. c \in 0..Size+1
    BY <1>2
  <2>2. c # a - 1 /\ ~m[c].free /\ f[c].size = m[c].size
    BY <1>4, <1>8, <2>1
  <2>3. c + 1 \in DOMAIN bs /\ bs[c+1] = m[c].size
    BY <1>8, <2>2 DEF Keeps
  <2>4. c + 1 # a
    BY <1>1, <2>1, <2>2
  <2> QED  BY <1>7, <2>2, <2>3, <2>4
<1>9. ASSUME NEW b \in DOMAIN rest
      PROVE  b \in 1..Size /\ b - 1 \in C /\ ~f[b-1].free
  <2>1. b \in DOMAIN bs /\ b # a
    BY <1>7
  <2>2. b \in 1..Size /\ b - 1 \in C /\ ~m[b-1].free
    BY <2>1 DEF Keeps
  <2>3. b - 1 # a - 1 /\ b - 1 \in 0..Size+1
    BY <1>1, <1>2, <2>1, <2>2
  <2> QED  BY <1>4, <2>2, <2>3
<1>10. Keeps(f, C, rest)
  BY <1>6, <1>8, <1>9 DEF Keeps
<1> QED  BY <1>4, <1>10 DEF f, rest

(* No two chunks next to each other are free.                              *)
NoRuns(m, C) ==
  \A c \in C : c < Size /\ m[c].free => ~IsFree(m, Following(m, c))

(* The first loop of malloc leaves the chunks in use as they are, and of   *)
(* every run of free ones its first, with all its room.                    *)
LEMMA CombinedKeeps ==
  ASSUME NEW m \in Memories, NEW C, NEW bs, Keeps(m, C, bs)
  PROVE  /\ Combined(m) \in Memories
         /\ \E K : Keeps(Combined(m), K, bs) /\ NoRuns(Combined(m), K)
<1> DEFINE j == Combined(m)
           Ends(c) == {d \in C : d > c /\ ~IsFree(m, d)}
           Starts(c) == \/ c = 0 \/ ~IsFree(m, c)
                        \/ \E p \in C : p < Size /\ ~m[p].free /\ Following(m, p) = c
           K == {c \in C : Starts(c)}
<1>0. IsChain(m, C)
  BY DEF Keeps
<1>1. /\ Size \in Nat /\ Size # 0 /\ C \subseteq Nat /\ C \subseteq 0..Size+1
      /\ 0 \in C
  BY <1>0, ChainFacts
<1>2. \A c \in C : c < Size =>
         /\ m[c].size \in 0..Size /\ m[c].free \in BOOLEAN
         /\ Following(m, c) = c + m[c].size + 1
         /\ Following(m, c) \in C /\ c < Following(m, c)
         /\ \A d \in C : c < d => Following(m, c) <= d
  BY <1>0, ChainFacts
<1>3. \A d \in C : d # 0 => \E c \in C : c < Size /\ Following(m, c) = d
  BY <1>0, ChainFacts
<1>4. \A c \in C : IsFree(m, c) <=> c < Size /\ m[c].free
  BY DEF IsFree
<1>5. ASSUME NEW c \in C, c < Size
      PROVE  Min(Ends(c)) \in Ends(c) /\ \A d \in Ends(c) : Min(Ends(c)) <= d
  <2>1. PICK d \in C : Size <= d
    BY <1>0, ChainEnds
  <2>2. d \in Ends(c)
    BY <1>1, <1>4, <1>5, <2>1
  <2>3. Ends(c) \subseteq Nat
    BY <1>1
  <2> HIDE DEF Ends
  <2> QED  BY <2>2, <2>3, LeastOfNats
<1>6. \A w \in 0..Size+1 :
        j[w] = IF w \in C /\ IsFree(m, w)
               THEN Header(Min(Ends(w)) - w - 1, TRUE) ELSE m[w]
  <2>1. Chunks(m) = C
    BY <1>0, ChunksAre
  <2>2. DOMAIN m = 0..Size+1
    BY DEF Memories
  <2> QED  BY <2>1, <2>2 DEF Combined, RunSize
<1>d. j = [w \in 0..Size+1 |-> j[w]]
  <2>2. DOMAIN m = 0..Size+1
    BY DEF Memories
  <2> QED  BY <2>2 DEF Combined
<1> HIDE DEF j, Ends
<1>7. ASSUME NEW c \in C, IsFree(m, c)
      PROVE  /\ j[c].size = Min(Ends(c)) - c - 1 /\ j[c].free
             /\ j[c].size \in 0..Size /\ c < Size
             /\ Following(j, c) = Min(Ends(c))
             /\ Min(Ends(c)) \in C /\ c < Min(Ends(c)) /\ ~IsFree(m, Min(Ends(c)))
             /\ \A d \in C : d > c /\ ~IsFree(m, d) => Min(Ends(c)) <= d
  <2>1. c < Size /\ c \in 0..Size+1
    BY <1>1, <1>4, <1>7
  <2>2. /\ Min(Ends(c)) \in C /\ c < Min(Ends(c)) /\ ~IsFree(m, Min(Ends(c)))
        /\ \A d \in C : d > c /\ ~IsFree(m, d) => Min(Ends(c)) <= d
    BY <1>5, <2>1 DEF Ends
  <2>3. j[c] = Header(Min(Ends(c)) - c - 1, TRUE)
    BY <1>6, <1>7, <2>1
  <2>4. j[c].size = Min(Ends(c)) - c - 1 /\ j[c].free
    BY <2>3 DEF Header
  <2>5. Min(Ends(c)) \in 0..Size+1
    BY <1>1, <2>2
  <2>6. Following(j, c) = c + j[c].size + 1
    BY <2>1 DEF Following
  <2>7. Following(j, c) = Min(Ends(c)) /\ j[c].size \in 0..Size
    BY <1>1, <2>1, <2>2, <2>4, <2>5, <2>6
  <2> QED  BY <2>1, <2>2, <2>4, <2>7
<1>8. \A w \in 0..Size+1 : ~(w \in C /\ IsFree(m, w)) => j[w] = m[w]
  BY <1>6
<1>9. j \in Memories
  <2>1. ASSUME NEW w \in 0..Size+1
        PROVE  j[w] \in [size : 0..Size, free : BOOLEAN]
    <3>1. CASE w \in C /\ IsFree(m, w)
      <4>1. j[w] = Header(Min(Ends(w)) - w - 1, TRUE)
        BY <1>6, <3>1
      <4>2. Min(Ends(w)) - w - 1 \in 0..Size
        BY <1>7, <3>1
      <4> QED  BY <4>1, <4>2 DEF Header
    <3>2. CASE ~(w \in C /\ IsFree(m, w))
      BY <1>8, <3>2 DEF Memories
    <3> QED  BY <3>1, <3>2
  <2> QED  BY <1>d, <2>1 DEF Memories
<1>10. \A c \in C : ~IsFree(m, c) => j[c] = m[c] /\ Following(j, c) = Following(m, c)
  BY <1>1, <1>8 DEF Following
<1>11. \A c \in C : IsFree(j, c) <=> IsFree(m, c)
  <2>1. TAKE c \in C
  <2>2. CASE IsFree(m, c)
    BY <1>7, <2>2 DEF IsFree
  <2>3. CASE ~IsFree(m, c)
    BY <1>10, <2>3 DEF IsFree
  <2> QED  BY <2>2, <2>3
<1>12. K \subseteq C /\ 0 \in K
  BY <1>1
<1>13. ASSUME NEW c \in K, c < Size PROVE Following(j, c) \in K
  <2>1. CASE IsFree(m, c)
    BY <1>7, <1>12, <2>1
  <2>2. CASE ~IsFree(m, c)
    <3>1. Following(j, c) = Following(m, c) /\ Following(m, c) \in C /\ ~m[c].free
      BY <1>2, <1>4, <1>10, <1>12, <1>13, <2>2
    <3> QED  BY <1>12, <1>13, <3>1
  <2> QED  BY <2>1, <2>2
<1>14. ASSUME NEW d \in K, d # 0
       PROVE  \E c \in K : c < Size /\ Following(j, c) = d
  <2>1. PICK p \in C : p < Size /\ Following(m, p) = d
    BY <1>3, <1>12, <1>14
  <2>2. CASE ~m[p].free
    <3>1. ~IsFree(m, p)
      BY <1>4, <2>2
    <3>2. p \in K
      BY <3>1
    <3> QED  BY <1>10, <2>1, <3>1, <3>2
  <2>3. CASE m[p].free
    <3>1. \A b \in C : b < Size /\ Following(m, b) = d => b = p
      <4>1. TAKE b \in C
      <4>2. HAVE b < Size /\ Following(m, b) = d
      <4>3. b < d /\ p < d /\ b \in Nat /\ p \in Nat /\ d \in Nat
        BY <1>1, <1>2, <1>12, <2>1, <4>2
      <4>4. (b < p => d <= p) /\ (p < b => d <= b)
        BY <1>2, <2>1, <4>2
      <4> QED  BY <4>3, <4>4
    <3>2. ~IsFree(m, d)
      BY <1>14, <2>1, <2>3, <3>1
    <3> HIDE DEF K
    <3>3. K \subseteq Nat /\ 0 \in K /\ p \in Nat /\ 0 <= p
      <4>1. p \in Nat
        BY <1>1, <2>1
      <4> QED  BY <1>1, <1>12, <4>1
    <3>4. PICK q \in K : q <= p /\ \A y \in K : y <= p => y <= q
      BY <3>3, GreatestUpTo
    <3>5. q \in C /\ q \in Nat /\ q < Size
      BY <1>1, <1>12, <2>1, <3>3, <3>4
    <3>6. Following(j, q) \in K /\ Following(j, q) \in C
      BY <1>12, <1>13, <3>5
    <3>7. IsFree(m, q)
      <4>1. SUFFICES ASSUME ~IsFree(m, q) PROVE FALSE
        OBVIOUS
      <4>2. q # p
        BY <1>4, <2>1, <2>3, <4>1
      <4>3. q < p
        BY <3>3, <3>4, <3>5, <4>2
      <4>4. Following(j, q) = Following(m, q)
        BY <1>10, <3>5, <4>1
      <4>5. Following(m, q) <= p /\ q < Following(m, q)
        BY <1>2, <3>5, <4>3
      <4>6. Following(m, q) <= q
        BY <3>4, <3>6, <4>4, <4>5
      <4>7. Following(m, q) \in Nat
        BY <1>1, <3>6, <4>4
      <4> QED  BY <3>5, <4>5, <4>6, <4>7
    <3>8. /\ Following(j, q) = Min(Ends(q)) /\ q < Min(Ends(q))
          /\ \A e \in C : e > q /\ ~IsFree(m, e) => Min(Ends(q)) <= e
      BY <1>7, <3>5, <3>7
    <3>9. Following(j, q) \in Nat /\ d \in C /\ d \in Nat
      BY <1>1, <1>12, <3>6
    <3>10. ~(Following(j, q) <= p)
      <4>1. SUFFICES ASSUME Following(j, q) <= p PROVE FALSE
        OBVIOUS
      <4>2. Following(j, q) <= q
        BY <3>4, <3>6, <4>1
      <4> QED  BY <3>5, <3>8, <3>9, <4>2
    <3>11. d <= Following(j, q)
      <4>1. p < Following(j, q)
        BY <3>3, <3>9, <3>10
      <4> QED  BY <1>2, <2>1, <3>6, <4>1
    <3>12. Following(j, q) <= d
      <4>1. p < d
        BY <1>2, <2>1
      <4>2. d > q
        BY <3>3, <3>4, <3>5, <3>9, <4>1
      <4> QED  BY <3>2, <3>8, <3>9, <4>2
    <3> QED  BY <3>5, <3>9, <3>11, <3>12
  <2> QED  BY <2>2, <2>3
<1>15. IsChain(j, K)
  <2> HIDE DEF K
  <2>1. K \subseteq 0..Size+1
    BY <1>1, <1>12
  <2> QED  BY <1>12, <1>13, <1>14, <2>1 DEF IsChain
<1>16. ASSUME NEW c \in K, c < Size, ~j[c].free
       PROVE  c + 1 \in DOMAIN bs /\ bs[c+1] = j[c].size
  <2>1. c \in C /\ ~IsFree(m, c)
    BY <1>7, <1>12, <1>16
  <2>2. j[c] = m[c] /\ ~m[c].free
    BY <1>4, <1>10, <1>16, <2>1
  <2> QED  BY <1>16, <2>1, <2>2 DEF Keeps
<1>17. ASSUME NEW b \in DOMAIN bs
       PROVE  b \in 1..Size /\ b - 1 \in K /\ ~j[b-1].free
  <2>1. b \in 1..Size /\ b - 1 \in C /\ ~m[b-1].free
    BY DEF Keeps
  <2>2. ~IsFree(m, b-1)
    BY <1>4, <2>1
  <2> QED  BY <1>10, <2>1, <2>2
<1>18. Keeps(j, K, bs)
  <2> HIDE DEF K
  <2> QED  BY <1>15, <1>16, <1>17 DEF Keeps
<1>19. NoRuns(j, K)
  <2>1. SUFFICES ASSUME NEW c \in K, c < Size, j[c].free
                 PROVE  ~IsFree(j, Following(j, c))
    BY DEF NoRuns
  <2>2. c \in C /\ IsFree(m, c)
    BY <1>11, <1>12, <2>1 DEF IsFree
  <2>3. Following(j, c) \in C /\ ~IsFree(m, Following(j, c))
    BY <1>7, <2>2
  <2> QED  BY <1>11, <2>3
<1> HIDE DEF K
<1> QED  BY <1>9, <1>18, <1>19 DEF j

(* A chunk that is taken leaves its rest as a chunk, unless that rest is   *)
(* the last word of the heap: a header there is never looked at.           *)
LEMMA TakenKeeps ==
  ASSUME NEW m \in Memories, NEW C, NEW bs, Keeps(m, C, bs),
         NEW n \in Nat, NEW c \in C, IsFree(m, c), m[c].size >= n,
         NEW given,
         given = [b \in DOMAIN bs \union {c+1} |-> IF b = c+1 THEN n ELSE bs[b]]
  PROVE  /\ Taken(m, c, n) \in Memories
         /\ \E K : Keeps(Taken(m, c, n), K, given)
<1> DEFINE t == Taken(m, c, n)
           s == m[c].size
           r == c + n + 1
           e == Following(m, c)
           Lost == s # n /\ r = Size
           K == {x \in C : Lost => x # e} \union {r}
<1>0. IsChain(m, C)
  BY DEF Keeps
<1>1. /\ Size \in Nat /\ Size # 0 /\ C \subseteq Nat /\ C \subseteq 0..Size+1
      /\ 0 \in C
  BY <1>0, ChainFacts
<1>2. \A x \in C : x < Size =>
         /\ m[x].size \in 0..Size /\ m[x].free \in BOOLEAN
         /\ Following(m, x) = x + m[x].size + 1
         /\ Following(m, x) \in C /\ x < Following(m, x)
         /\ \A d \in C : x < d => Following(m, x) <= d
  BY <1>0, ChainFacts
<1>3. \A d \in C : d # 0 => \E x \in C : x < Size /\ Following(m, x) = d
  BY <1>0, ChainFacts
<1>4. c < Size /\ m[c].free /\ s \in 0..Size /\ n <= s
  BY <1>2 DEF IsFree
<1>5. /\ e = c + s + 1 /\ e \in C /\ c < e
      /\ \A d \in C : c < d => e <= d
  BY <1>2, <1>4
<1>6. /\ c \in Nat /\ e \in Nat /\ r \in Nat /\ s \in Nat
      /\ c < r /\ r <= e /\ e <= Size + 1 /\ (r = e <=> s = n)
  <2>1. c \in Nat /\ e \in 0..Size+1 /\ s \in Nat
    BY <1>1, <1>4, <1>5
  <2> QED  BY <1>4, <1>5, <2>1
<1>7. Lost => e = Size + 1
  BY <1>1, <1>6
<1>8. \A w \in 0..Size+1 :
        t[w] = CASE w = c -> Header(n, FALSE)
                 [] w \in c+1..c+n -> Data
                 [] w = r /\ s # n -> Header(s - n - 1, TRUE)
                 [] OTHER -> m[w]
  <2>1. DOMAIN m = 0..Size+1
    BY DEF Memories
  <2> QED  BY <2>1 DEF Taken
<1>d. t = [w \in 0..Size+1 |-> t[w]]
  <2>1. DOMAIN m = 0..Size+1
    BY DEF Memories
  <2> QED  BY <2>1 DEF Taken
<1>g. /\ DOMAIN given = DOMAIN bs \union {c+1} /\ given[c+1] = n
      /\ \A b \in DOMAIN bs : b # c+1 => given[b] = bs[b]
  OBVIOUS
<1> HIDE DEF t, s, r, e
<1>9. t[c].size = n /\ ~t[c].free /\ t[c] = Header(n, FALSE)
  <2>1. c \in 0..Size+1 /\ c # r /\ c \notin c+1..c+n
    BY <1>1, <1>6
  <2>2. t[c] = Header(n, FALSE)
    BY <1>8, <2>1
  <2> QED  BY <2>2 DEF Header
<1>10. s # n => t[r] = Header(s - n - 1, TRUE) /\ t[r].size = s - n - 1 /\ t[r].free
  <2>1. r \in 0..Size+1 /\ r # c /\ r \notin c+1..c+n
    BY <1>1, <1>6 DEF r
  <2>2. s # n => t[r] = Header(s - n - 1, TRUE)
    BY <1>8, <2>1
  <2> QED  BY <2>2 DEF Header
<1>11. \A w \in 0..Size+1 : w < c \/ e <= w => t[w] = m[w]
  <2>1. ASSUME NEW w \in 0..Size+1, w < c \/ e <= w PROVE t[w] = m[w]
    <3>1. w # c /\ w \notin c+1..c+n /\ ~(w = r /\ s # n)
      BY <1>6, <2>1 DEF r
    <3> QED  BY <1>8, <3>1
  <2> QED  BY <2>1
<1>12. \A x \in C : x # c => t[x] = m[x]
  <2>1. ASSUME NEW x \in C, x # c PROVE t[x] = m[x]
    <3>1. x \in 0..Size+1 /\ (x < c \/ c < x)
      BY <1>1, <1>6, <2>1
    <3>2. x < c \/ e <= x
      BY <1>5, <3>1
    <3> QED  BY <1>11, <3>1, <3>2
  <2> QED  BY <2>1
<1>13. t \in Memories
  <2>1. ASSUME NEW w \in 0..Size+1
        PROVE  t[w] \in [size : 0..Size, free : BOOLEAN]
    <3>1. n \in 0..Size /\ 0 \in 0..Size /\ (s # n => s - n - 1 \in 0..Size)
      BY <1>1, <1>4, <1>6
    <3>2. Header(n, FALSE) \in [size : 0..Size, free : BOOLEAN]
      BY <3>1 DEF Header
    <3>3. Data \in [size : 0..Size, free : BOOLEAN]
      BY <3>1 DEF Header, Data
    <3>4. s # n => Header(s - n - 1, TRUE) \in [size : 0..Size, free : BOOLEAN]
      BY <3>1 DEF Header
    <3>5. m[w] \in [size : 0..Size, free : BOOLEAN]
      BY DEF Memories
    <3> QED  BY <1>8, <3>2, <3>3, <3>4, <3>5
  <2> QED  BY <1>d, <2>1 DEF Memories
(* The chunks after c, and the one that goes, in the new chain             *)
<1>14. r \in K /\ c \in K /\ 0 \in K /\ K \subseteq 0..Size+1
  <2>1. c # e /\ 0 # e /\ r \in 0..Size+1
    BY <1>1, <1>6
  <2> QED  BY <1>1, <2>1
<1>15. \A x \in C : x < Size => x \in K
  <2>1. \A x \in C : x < Size => (Lost => x # e)
    BY <1>1, <1>7
  <2> QED  BY <2>1
<1>16. \A x \in C : x < Size /\ Following(m, x) = e => x = c
  <2>1. TAKE x \in C
  <2>2. HAVE x < Size /\ Following(m, x) = e
  <2>3. x < e /\ x \in Nat
    BY <1>1, <1>2, <2>2
  <2>4. (x < c => e <= c) /\ (c < x => e <= x)
    BY <1>2, <1>5, <2>2
  <2> QED  BY <1>6, <2>3, <2>4
<1>17. Following(t, c) = r
  BY <1>4, <1>9 DEF Following, r
<1>18. s # n /\ r < Size => Following(t, r) = e
  <2>1. ASSUME s # n, r < Size PROVE Following(t, r) = e
    <3>1. Following(t, r) = r + (s - n - 1) + 1
      BY <1>10, <2>1 DEF Following
    <3> QED  BY <1>5, <1>6, <3>1 DEF r
  <2> QED  BY <2>1
<1>19. \A x \in C : x # c => Following(t, x) = Following(m, x)
  BY <1>12 DEF Following
<1>20. ASSUME NEW x \in K, x < Size PROVE Following(t, x) \in K
  <2>1. CASE x = c
    BY <1>14, <1>17, <2>1
  <2>2. CASE x \in C /\ x # c
    <3>1. Following(m, x) \in C /\ Following(m, x) # e
      BY <1>2, <1>16, <1>20, <2>2
    <3> QED  BY <1>19, <2>2, <3>1
  <2>3. CASE x \notin C
    <3>1. x = r
      BY <2>3
    <3>2. s # n /\ Following(t, x) = e
      BY <1>5, <1>6, <1>18, <1>20, <2>3, <3>1
    <3>3. ~Lost
      BY <1>1, <1>6, <1>20, <3>1
    <3> QED  BY <1>5, <3>2, <3>3
  <2> QED  BY <2>1, <2>2, <2>3
<1>21. ASSUME NEW d \in K, d # 0
       PROVE  \E x \in K : x < Size /\ Following(t, x) = d
  <2>1. CASE d = r
    BY <1>4, <1>14, <1>17, <2>1
  <2>2. CASE d = e /\ d # r
    <3>1. s # n /\ ~Lost
      BY <1>6, <2>2
    <3>2. r < Size
      BY <1>1, <1>6, <3>1
    <3> QED  BY <1>14, <1>18, <2>2, <3>1, <3>2
  <2>3. CASE d # e /\ d # r
    <3>1. d \in C
      BY <2>3
    <3>2. PICK x \in C : x < Size /\ Following(m, x) = d
      BY <1>3, <1>21, <3>1
    <3>3. x # c
      BY <2>3, <3>2 DEF e
    <3>4. x \in K /\ Following(t, x) = d
      BY <1>15, <1>19, <3>2, <3>3
    <3> QED  BY <3>2, <3>4
  <2> QED  BY <2>1, <2>2, <2>3
<1>22. IsChain(t, K)
  <2> HIDE DEF K
  <2> QED  BY <1>14, <1>20, <1>21 DEF IsChain
<1>23. ASSUME NEW x \in K, x < Size, ~t[x].free
       PROVE  x + 1 \in DOMAIN given /\ given[x+1] = t[x].size
  <2>1. CASE x = c
    BY <1>9, <1>g, <2>1
  <2>2. CASE x # c
    <3>1. x \in C
      <4>1. SUFFICES ASSUME x \notin C PROVE FALSE
        OBVIOUS
      <4>2. x = r /\ s # n
        BY <1>5, <1>6, <4>1
      <4> QED  BY <1>10, <1>23, <4>2
    <3>2. t[x] = m[x]
      BY <1>12, <2>2, <3>1
    <3>3. x + 1 \in DOMAIN bs /\ bs[x+1] = m[x].size
      BY <1>23, <3>1, <3>2 DEF Keeps
    <3>4. x + 1 # c + 1
      BY <1>1, <1>6, <2>2, <3>1
    <3> QED  BY <1>g, <3>2, <3>3, <3>4
  <2> QED  BY <2>1, <2>2
<1>24. ASSUME NEW b \in DOMAIN given
       PROVE  b \in 1..Size /\ b - 1 \in K /\ ~t[b-1].free
  <2>1. CASE b = c + 1
    <3>1. b \in 1..Size /\ b - 1 = c
      BY <1>1, <1>4, <1>6, <2>1
    <3> QED  BY <1>9, <1>14, <3>1
  <2>2. CASE b # c + 1
    <3>1. b \in DOMAIN bs
      BY <1>g, <2>2
    <3>2. b \in 1..Size /\ b - 1 \in C /\ ~m[b-1].free
      BY <3>1 DEF Keeps
    <3>3. b - 1 # c /\ b - 1 < Size
      BY <1>1, <1>4, <3>2
    <3> QED  BY <1>12, <1>15, <3>2, <3>3
  <2> QED  BY <2>1, <2>2
<1>25. Keeps(t, K, given)
  <2> HIDE DEF K
  <2> QED  BY <1>22, <1>23, <1>24 DEF Keeps
<1> HIDE DEF K
<1> QED  BY <1>13, <1>25 DEF t

(* A used chunk and its block are the same words.                          *)
LEMMA BlockIsChunk ==
  ASSUME NEW m \in Memories, NEW C, NEW bs, Keeps(m, C, bs), NEW b \in DOMAIN bs
  PROVE  /\ b - 1 \in C /\ b - 1 \in 0..Size-1 /\ ~m[b-1].free /\ b \in 1..Size
         /\ bs[b] = m[b-1].size
         /\ HeapPromise!Span(b, bs[b]) = (b-1)..(Following(m, b-1) - 1)
<1>1. b \in 1..Size /\ b - 1 \in C /\ ~m[b-1].free
  BY DEF Keeps
<1>2. Size \in Nat /\ b - 1 \in 0..Size-1 /\ b - 1 < Size /\ (b - 1) + 1 = b
  BY <1>1, HeapAssumption
<1>3. bs[b] = m[b-1].size
  BY <1>1, <1>2 DEF Keeps
<1>4. m[b-1].size \in 0..Size /\ Following(m, b-1) = (b - 1) + m[b-1].size + 1
  <2>1. IsChain(m, C)
    BY DEF Keeps
  <2> QED  BY <1>1, <1>2, <2>1, ChainFacts
<1>5. Following(m, b-1) - 1 = b + bs[b] - 1
  BY <1>1, <1>2, <1>3, <1>4
<1> QED  BY <1>1, <1>2, <1>3, <1>5 DEF HeapPromise!Span

(* What malloc gives lies apart from every block in use.                   *)
LEMMA TakenFits ==
  ASSUME NEW m \in Memories, NEW C, NEW bs, Keeps(m, C, bs),
         NEW n \in Nat, NEW c \in C, IsFree(m, c), m[c].size >= n
  PROVE  c + 1 \in 1..Size /\ HeapPromise!Fits(bs, c + 1, n, Size)
<1> DEFINE e == Following(m, c)
<1>0. IsChain(m, C)
  BY DEF Keeps
<1>1. /\ Size \in Nat /\ C \subseteq Nat /\ C \subseteq 0..Size+1
  BY <1>0, ChainFacts
<1>2. c < Size /\ m[c].free /\ c \in Nat
  BY <1>1 DEF IsFree
<1>3. /\ m[c].size \in 0..Size /\ e = c + m[c].size + 1 /\ e \in C /\ c < e
      /\ \A d \in C : c < d => e <= d
  BY <1>0, <1>2, ChainFacts
<1>4. e \in Nat /\ e <= Size + 1 /\ c + n <= e - 1 /\ (c + 1) + n - 1 = c + n
      /\ (c + 1) - 1 = c
  BY <1>1, <1>2, <1>3
<1> HIDE DEF e
<1>5. HeapPromise!Span(c + 1, n) = c..(c+n)
  BY <1>4 DEF HeapPromise!Span
<1>6. c..(c+n) \subseteq 0..Size
  BY <1>1, <1>2, <1>4
<1>7. ASSUME NEW b \in DOMAIN bs
      PROVE  HeapPromise!Span(c + 1, n) \cap HeapPromise!Span(b, bs[b]) = {}
  <2>1. /\ b - 1 \in C /\ b - 1 \in 0..Size-1 /\ ~m[b-1].free
        /\ HeapPromise!Span(b, bs[b]) = (b-1)..(Following(m, b-1) - 1)
    BY BlockIsChunk
  <2>2. PICK x \in C : x = b - 1
    BY <2>1
  <2>3. /\ Following(m, x) \in C /\ x < Following(m, x)
        /\ \A d \in C : x < d => Following(m, x) <= d
    BY <1>0, <1>1, <2>1, <2>2, ChainFacts
  <2>4. x \in Nat /\ Following(m, x) \in Nat /\ x # c
    BY <1>1, <1>2, <2>1, <2>2, <2>3
  <2>5. x < c => Following(m, x) <= c
    BY <2>3
  <2>6. c < x => e <= x
    BY <1>3
  <2>7. (c..(c+n)) \cap (x..(Following(m, x) - 1)) = {}
    BY <1>2, <1>4, <2>4, <2>5, <2>6
  <2> QED  BY <1>5, <2>1, <2>2, <2>7
<1>8. c + 1 \in 1..Size
  BY <1>1, <1>2
<1> QED  BY <1>5, <1>6, <1>7, <1>8 DEF HeapPromise!Fits

(* Where no two free chunks are neighbours, what no chunk has room for     *)
(* has no room at all.                                                     *)
LEMMA NoneFits ==
  ASSUME NEW m \in Memories, NEW C, NEW bs, Keeps(m, C, bs), NoRuns(m, C),
         NEW n \in Nat, \A c \in C : IsFree(m, c) => ~(m[c].size >= n)
  PROVE  \A a \in 1..Size : ~HeapPromise!Fits(bs, a, n, Size - 1)
<1>0. IsChain(m, C)
  BY DEF Keeps
<1>1. /\ Size \in Nat /\ C \subseteq Nat /\ C \subseteq 0..Size+1 /\ 0 \in C
  BY <1>0, ChainFacts
<1>2. SUFFICES ASSUME NEW a \in 1..Size, HeapPromise!Fits(bs, a, n, Size - 1)
               PROVE  FALSE
  OBVIOUS
<1>3. /\ (a-1)..(a+n-1) \subseteq 0..(Size-1)
      /\ \A b \in DOMAIN bs : ((a-1)..(a+n-1)) \cap HeapPromise!Span(b, bs[b]) = {}
  BY <1>2 DEF HeapPromise!Fits, HeapPromise!Span
<1>4. a + n - 1 <= Size - 1 /\ a - 1 \in Nat /\ a \in Nat /\ a + n - 1 \in Nat
  <2>0. a \in Nat /\ a - 1 \in Nat
    BY <1>1
  <2>1. a + n - 1 \in (a-1)..(a+n-1)
    BY <2>0
  <2>2. a + n - 1 \in 0..(Size-1)
    <3> DEFINE W == (a-1)..(a+n-1)
    <3>1. W \subseteq 0..(Size-1) /\ a + n - 1 \in W
      BY <1>3, <2>1
    <3> HIDE DEF W
    <3> QED  BY <3>1
  <2> QED  BY <1>1, <2>0, <2>2
<1>5. PICK c \in C : c <= a - 1 /\ \A y \in C : y <= a - 1 => y <= c
  <2>1. 0 <= a - 1
    BY <1>4
  <2>2. \E c \in C : c <= a - 1 /\ \A y \in C : y <= a - 1 => y <= c
    BY <1>1, <1>4, <2>1, GreatestUpTo
  <2> QED  BY <2>2, Zenon
<1>6. c \in Nat /\ c < Size
  BY <1>1, <1>4, <1>5
<1>7. /\ m[c].size \in 0..Size /\ m[c].free \in BOOLEAN
      /\ Following(m, c) = c + m[c].size + 1
      /\ Following(m, c) \in C /\ c < Following(m, c)
  BY <1>0, <1>6, ChainFacts
<1>8. PICK f \in C : f = Following(m, c)
  BY <1>7
<1>9. f \in Nat /\ a - 1 < f
  <2>1. f \in Nat /\ ~(f <= c)
    BY <1>1, <1>6, <1>7, <1>8
  <2> QED  BY <1>4, <1>5, <2>1
<1>10. \A x \in C : x < Size /\ ~m[x].free =>
         /\ x + 1 \in DOMAIN bs
         /\ HeapPromise!Span(x + 1, bs[x+1]) = x..(Following(m, x) - 1)
  <2>1. TAKE x \in C
  <2>2. HAVE x < Size /\ ~m[x].free
  <2>3. x + 1 \in DOMAIN bs /\ (x + 1) - 1 = x
    BY <1>1, <2>2 DEF Keeps
  <2>4. HeapPromise!Span(x + 1, bs[x+1]) = ((x+1)-1)..(Following(m, (x+1)-1) - 1)
    BY <2>3, BlockIsChunk
  <2> QED  BY <2>3, <2>4
<1>11. m[c].free
  <2>1. SUFFICES ASSUME ~m[c].free PROVE FALSE
    OBVIOUS
  <2>2. c + 1 \in DOMAIN bs /\ HeapPromise!Span(c + 1, bs[c+1]) = c..(f - 1)
    BY <1>6, <1>8, <1>10, <2>1
  <2>3. a - 1 \in (a-1)..(a+n-1) /\ a - 1 \in c..(f-1)
    BY <1>4, <1>5, <1>6, <1>9
  <2> QED  BY <1>3, <2>2, <2>3
<1>12. IsFree(m, c) /\ m[c].size < n
  <2>1. IsFree(m, c)
    BY <1>6, <1>11 DEF IsFree
  <2> QED  BY <1>1, <1>7, <2>1
<1>13. f <= a + n - 1 /\ f < Size
  BY <1>1, <1>4, <1>5, <1>6, <1>7, <1>8, <1>9, <1>12
<1>14. ~m[f].free
  <2>1. ~IsFree(m, f)
    BY <1>6, <1>8, <1>11 DEF NoRuns
  <2> QED  BY <1>13, <2>1 DEF IsFree
<1>15. /\ f + 1 \in DOMAIN bs
       /\ HeapPromise!Span(f + 1, bs[f+1]) = f..(Following(m, f) - 1)
  BY <1>10, <1>13, <1>14
<1>16. Following(m, f) \in Nat /\ f < Following(m, f)
  <2>1. Following(m, f) \in C /\ f < Following(m, f)
    BY <1>0, <1>13, ChainFacts
  <2> QED  BY <1>1, <2>1
<1>17. f \in (a-1)..(a+n-1) /\ f \in f..(Following(m, f) - 1)
  BY <1>4, <1>9, <1>13, <1>16
<1> QED  BY <1>3, <1>15, <1>17

(* What holds of the heap between two calls: its chain leads from word 0   *)
(* out of the heap without a chunk beginning inside another, and the       *)
(* chunks in use are the guest's blocks.  Neither half is kept alone:      *)
(* free trusts that a block has a header before it, malloc that the chain  *)
(* is whole.                                                               *)
HeapKept == HeapTypeOK /\ Keeps(ram, Chunks(ram), blocks)

LEMMA KeptByAnyChain ==
  ASSUME NEW m \in Memories, NEW K, NEW bs, Keeps(m, K, bs)
  PROVE  Keeps(m, Chunks(m), bs)
<1>1. Chunks(m) = K
  BY ChunksAre DEF Keeps
<1> QED  BY <1>1

LEMMA AllocateStep ==
  ASSUME NEW m \in Memories, NEW C, NEW bs, Keeps(m, C, bs),
         NEW n \in Nat, Allocate(m, bs, n)
  PROVE  /\ HeapPromise!Allocate(bs, n)
         /\ ram' \in Memories /\ Keeps(ram', Chunks(ram'), blocks')
         /\ v0' \in 0..Size
<1> DEFINE joined == Combined(m)
           fits   == Fitting(joined, n)
           c      == Min(fits)
           given  == [b \in DOMAIN bs \union {c+1} |-> IF b = c+1 THEN n ELSE bs[b]]
<1>1. joined \in Memories
  BY CombinedKeeps
<1>2. PICK K : Keeps(joined, K, bs) /\ NoRuns(joined, K)
  BY CombinedKeeps
<1>3. IsChain(joined, K)
  BY <1>2 DEF Keeps
<1>4. Chunks(joined) = K
  BY <1>1, <1>3, ChunksAre
<1>5. Size \in Nat /\ K \subseteq Nat
  BY <1>1, <1>3, ChainFacts
<1>6. fits = {x \in K : IsFree(joined, x) /\ joined[x].size >= n}
  BY <1>4 DEF Fitting
<1>7. /\ fits = {} => ram' = joined /\ blocks' = bs /\ v0' = Refused
      /\ fits # {} => ram' = Taken(joined, c, n) /\ blocks' = given /\ v0' = c + 1
  BY DEF Allocate
<1> HIDE DEF joined, fits, given
<1>8. CASE fits = {}
  <2>1. \A x \in K : IsFree(joined, x) => ~(joined[x].size >= n)
    BY <1>6, <1>8
  <2>2. \A a \in 1..Size : ~HeapPromise!Fits(bs, a, n, Size - 1)
    BY <1>1, <1>2, <2>1, NoneFits
  <2>3. HeapPromise!Allocate(bs, n)
    BY <1>7, <1>8, <2>2 DEF HeapPromise!Allocate
  <2>4. Keeps(ram', Chunks(ram'), blocks')
    BY <1>1, <1>2, <1>4, <1>7, <1>8
  <2>5. v0' \in 0..Size
    BY <1>5, <1>7, <1>8 DEF Refused
  <2> QED  BY <1>1, <1>7, <1>8, <2>3, <2>4, <2>5
<1>9. CASE fits # {}
  <2>1. c \in fits
    <3>1. fits \subseteq Nat
      BY <1>5, <1>6
    <3> QED  BY <1>9, <3>1, LeastOfNats
  <2> HIDE DEF c
  <2>2. PICK k \in K : k = c /\ IsFree(joined, k) /\ joined[k].size >= n
    BY <1>6, <2>1
  <2>3. k + 1 \in 1..Size /\ HeapPromise!Fits(bs, k + 1, n, Size)
    BY <1>1, <1>2, <2>2, TakenFits
  <2>g. PICK gave : gave = [b \in DOMAIN bs \union {k+1} |-> IF b = k+1 THEN n ELSE bs[b]]
    OBVIOUS
  <2>4. /\ Taken(joined, k, n) \in Memories
        /\ \E T : Keeps(Taken(joined, k, n), T, gave)
    BY <1>1, <1>2, <2>2, <2>g, TakenKeeps
  <2>5. gave = given
    BY <2>2, <2>g DEF given
  <2>6. ram' = Taken(joined, k, n) /\ blocks' = gave /\ v0' = k + 1
    BY <1>7, <1>9, <2>2, <2>5
  <2>7. HeapPromise!Allocate(bs, n)
    <3>1. k + 1 \in 1..Size+1
      BY <1>5, <2>3
    <3> QED  BY <2>3, <2>6, <2>g, <3>1 DEF HeapPromise!Allocate
  <2>8. Keeps(ram', Chunks(ram'), blocks')
    <3>1. PICK t \in Memories : t = Taken(joined, k, n)
      BY <2>4
    <3>2. Keeps(t, Chunks(t), gave)
      BY <2>4, <3>1, KeptByAnyChain
    <3> QED  BY <2>6, <3>1, <3>2
  <2>9. v0' \in 0..Size
    BY <1>5, <2>3, <2>6
  <2> QED  BY <2>4, <2>6, <2>7, <2>8, <2>9
<1> QED  BY <1>8, <1>9

LEMMA HeapStarts == HeapInit => HeapKept /\ HeapPromise!Init
<1> SUFFICES ASSUME HeapInit PROVE HeapKept /\ HeapPromise!Init
  OBVIOUS
<1> DEFINE z == [w \in 0..Size+1 |-> Data]
<1>1. Size \in Nat
  BY HeapAssumption
<1>2. z \in Memories
  <2>1. Data \in [size : 0..Size, free : BOOLEAN]
    BY <1>1 DEF Data, Header
  <2> QED  BY <2>1 DEF Memories
<1>3. /\ ram = Fresh(z) /\ low = TRUE /\ blocks = <<>> /\ v0 = 0
  BY DEF HeapInit, Refused
<1>4. DOMAIN blocks = {}
  BY <1>3
<1> HIDE DEF z
<1>5. Fresh(z) \in Memories /\ Keeps(Fresh(z), {0, Size+1}, blocks)
  BY <1>2, <1>4, FreshKeeps
<1>6. Keeps(ram, Chunks(ram), blocks)
  BY <1>3, <1>5, KeptByAnyChain
<1>7. ram \in Memories /\ v0 \in 0..Size+1
  BY <1>1, <1>3, <1>5
<1> QED  BY <1>3, <1>4, <1>6, <1>7 DEF HeapKept, HeapTypeOK, Memories, HeapPromise!Init, Refused

LEMMA HeapMoves ==
  ASSUME HeapKept, [HeapNext]_heapVars
  PROVE  HeapKept' /\ [HeapPromise!Next]_HeapPromise!vars
<1> DEFINE Kept(m, bs) == m \in Memories /\ Keeps(m, Chunks(m), bs)
<1>1. /\ Size \in Nat /\ Requests \subseteq Nat
      /\ Kept(ram, blocks) /\ low \in BOOLEAN /\ v0 \in 0..Size+1
  BY HeapAssumption DEF HeapKept, HeapTypeOK, Memories
<1>2. SUFFICES /\ Kept(ram', blocks') /\ low' \in BOOLEAN /\ v0' \in 0..Size+1
               /\ [HeapPromise!Next]_HeapPromise!vars
  <2>1. ASSUME Kept(ram', blocks') PROVE DOMAIN blocks' \subseteq 1..Size+1
    <3>1. \A b \in DOMAIN blocks' : b \in 1..Size
      BY <2>1 DEF Keeps
    <3> QED  BY <1>1, <3>1
  <2> QED  BY <2>1 DEF HeapKept, HeapTypeOK, Memories
<1>3. CASE UNCHANGED heapVars
  BY <1>1, <1>3 DEF heapVars, HeapPromise!vars
<1>4. CASE InitHeap
  <2>1. ram' = Fresh(ram) /\ blocks' = <<>> /\ low' = low /\ v0' = v0
    BY <1>4 DEF InitHeap
  <2>2. PICK bs : bs = blocks' /\ DOMAIN bs = {}
    BY <2>1
  <2>3. Fresh(ram) \in Memories /\ Keeps(Fresh(ram), {0, Size+1}, bs)
    BY <1>1, <2>2, FreshKeeps
  <2>4. Keeps(Fresh(ram), Chunks(Fresh(ram)), bs)
    BY <2>3, KeptByAnyChain
  <2>5. HeapPromise!Next
    BY <2>1 DEF HeapPromise!Next, HeapPromise!Reset
  <2> QED  BY <1>1, <2>1, <2>2, <2>3, <2>4, <2>5
<1>5. ASSUME NEW n \in Requests, malloc(n) \/ calloc(n)
      PROVE  /\ Kept(ram', blocks') /\ low' \in BOOLEAN /\ v0' \in 0..Size+1
             /\ HeapPromise!Next
  <2>1. Allocate(ram, blocks, n) /\ low' \in BOOLEAN
    BY <1>1, <1>5 DEF malloc, calloc
  <2>2. /\ HeapPromise!Allocate(blocks, n) /\ Kept(ram', blocks') /\ v0' \in 0..Size
    BY <1>1, <2>1, AllocateStep
  <2>3. v0' \in 0..Size+1
    BY <1>1, <2>2
  <2> QED  BY <2>1, <2>2, <2>3 DEF HeapPromise!Next
<1>6. ASSUME NEW a \in DOMAIN blocks
      PROVE  Kept(Marked(a), Without(a)) /\ HeapPromise!Without(a) = Without(a)
  <2>1. PICK m \in Memories : m = ram
    BY <1>1
  <2>2. PICK bs : bs = blocks
    OBVIOUS
  <2>3. PICK f : f = [m EXCEPT ![a-1].free = TRUE]
    OBVIOUS
  <2>4. PICK r : r = Restrict(bs, DOMAIN bs \ {a})
    OBVIOUS
  <2>5. Keeps(m, Chunks(m), bs) /\ a \in DOMAIN bs
    BY <1>1, <2>1, <2>2
  <2>6. f \in Memories /\ Keeps(f, Chunks(m), r)
    BY <2>3, <2>4, <2>5, FreeKeeps
  <2>7. Keeps(f, Chunks(f), r)
    BY <2>6, KeptByAnyChain
  <2>8. f = Marked(a) /\ r = Without(a) /\ r = HeapPromise!Without(a)
    BY <2>1, <2>2, <2>3, <2>4 
      DEF Marked, Without, HeapPromise!Without, Restrict, HeapPromise!Restrict
  <2> QED  BY <2>6, <2>7, <2>8
<1>7. ASSUME NEW a \in DOMAIN blocks, free(a)
      PROVE  /\ Kept(ram', blocks') /\ low' \in BOOLEAN /\ v0' \in 0..Size+1
             /\ HeapPromise!Next
  <2>1. ram' = Marked(a) /\ blocks' = Without(a) /\ low' = low /\ v0' = v0
    BY <1>7 DEF free
  <2>2. HeapPromise!Free(a)
    BY <1>6, <2>1 DEF HeapPromise!Free
  <2>3. HeapPromise!Next
    BY <2>2 DEF HeapPromise!Next
  <2> QED  BY <1>1, <1>6, <2>1, <2>3
<1>8. ASSUME NEW a \in DOMAIN blocks, NEW n \in Requests, realloc(a, n)
      PROVE  /\ Kept(ram', blocks') /\ low' \in BOOLEAN /\ v0' \in 0..Size+1
             /\ HeapPromise!Next
  <2>1. Allocate(Marked(a), Without(a), n) /\ low' = low
    BY <1>8 DEF realloc
  <2>2. PICK m \in Memories : m = Marked(a)
    BY <1>6
  <2>3. PICK bs : bs = Without(a)
    OBVIOUS
  <2>4. Allocate(m, bs, n) /\ Keeps(m, Chunks(m), bs) /\ n \in Nat
    BY <1>1, <1>6, <2>1, <2>2, <2>3
  <2>5. HeapPromise!Allocate(bs, n) /\ Kept(ram', blocks') /\ v0' \in 0..Size
    BY <2>4, AllocateStep
  <2>6. HeapPromise!Allocate(HeapPromise!Without(a), n)
    BY <1>6, <2>3, <2>5
  <2>7. HeapPromise!Next
    BY <2>6 DEF HeapPromise!Next
  <2>8. v0' \in 0..Size+1
    BY <1>1, <2>5
  <2> QED  BY <1>1, <2>1, <2>5, <2>7, <2>8
<1> HIDE DEF Kept
<1> QED  BY <1>3, <1>4, <1>5, <1>7, <1>8 DEF HeapNext

(* Over any sequence of calls the chain of chunks stays whole and its used *)
(* chunks stay the blocks the guest holds (InitHeap, malloc, free, calloc  *)
(* and realloc of psxbios.cpp).                                            *)
THEOREM HeapStaysWhole == HeapSpec => []HeapKept
<1>1. HeapInit => HeapKept
  BY HeapStarts
<1>2. HeapKept /\ [HeapNext]_heapVars => HeapKept'
  BY HeapMoves
<1> QED  BY <1>1, <1>2, PTL DEF HeapSpec

(* Whatever is called, the heap's state is what the code's types allow,    *)
(* and no block begins outside of the heap.                                *)
THEOREM HeapTypeCorrect == HeapSpec => []HeapTypeOK
<1>1. HeapKept => HeapTypeOK
  BY DEF HeapKept
<1> QED  BY <1>1, HeapStaysWhole, PTL

(* The heap of psxbios.cpp allocates as Allocator promises: what it hands  *)
(* out is apart from all blocks in use, and it refuses only where there is *)
(* no room.                                                                *)
THEOREM HeapRefinesAllocator == HeapSpec => RefinesAllocator
<1>1. HeapInit => HeapPromise!Init
  BY HeapStarts
<1>2. HeapKept /\ [HeapNext]_heapVars => [HeapPromise!Next]_HeapPromise!vars
  BY HeapMoves
<1> QED
  BY <1>1, <1>2, HeapStaysWhole, PTL DEF HeapSpec, RefinesAllocator, HeapPromise!Spec

(* So two blocks of the guest never share a word, their headers included,  *)
(* and none leaves the heap.                                               *)
BlocksApart ==
  \A a \in DOMAIN blocks :
    /\ HeapPromise!Span(a, blocks[a]) \subseteq 0..Size
    /\ \A b \in DOMAIN blocks :
         a # b => HeapPromise!Span(a, blocks[a]) \cap HeapPromise!Span(b, blocks[b]) = {}

THEOREM BlocksStayApart == HeapSpec => []BlocksApart
<1>1. ASSUME HeapKept PROVE BlocksApart
  <2>1. PICK m \in Memories : m = ram
    BY <1>1 DEF HeapKept, HeapTypeOK, Memories
  <2>2. PICK C : C = Chunks(m)
    OBVIOUS
  <2>3. PICK bs : bs = blocks
    OBVIOUS
  <2>4. Keeps(m, C, bs) /\ IsChain(m, C)
    BY <1>1, <2>1, <2>2, <2>3 DEF HeapKept, Keeps
  <2>5. Size \in Nat /\ C \subseteq Nat /\ C \subseteq 0..Size+1
    BY <2>4, ChainFacts
  <2>6. ASSUME NEW a \in DOMAIN bs
        PROVE  /\ a - 1 \in C /\ a - 1 \in Nat /\ Following(m, a-1) \in 0..Size+1
               /\ HeapPromise!Span(a, bs[a]) = (a-1)..(Following(m, a-1) - 1)
               /\ \A d \in C : a - 1 < d => Following(m, a-1) <= d
    <3>1. /\ a - 1 \in C /\ a - 1 \in 0..Size-1
          /\ HeapPromise!Span(a, bs[a]) = (a-1)..(Following(m, a-1) - 1)
      BY <2>4, BlockIsChunk
    <3>2. a - 1 < Size /\ a - 1 \in Nat
      BY <2>5, <3>1
    <3>3. Following(m, a-1) \in C /\ \A d \in C : a - 1 < d => Following(m, a-1) <= d
      BY <2>4, <3>1, <3>2, ChainFacts
    <3> QED  BY <2>5, <3>1, <3>2, <3>3
  <2>7. ASSUME NEW a \in DOMAIN bs
        PROVE  HeapPromise!Span(a, bs[a]) \subseteq 0..Size
    <3>1. PICK x \in Nat, y \in 0..Size+1 : x = a - 1 /\ y = Following(m, a-1)
      BY <2>6
    <3>2. x..(y - 1) \subseteq 0..Size
      BY <2>5
    <3> QED  BY <2>6, <3>1, <3>2
  <2>8. ASSUME NEW a \in DOMAIN bs, NEW b \in DOMAIN bs, a # b
        PROVE  HeapPromise!Span(a, bs[a]) \cap HeapPromise!Span(b, bs[b]) = {}
    <3>1. PICK x \in C, y \in C : x = a - 1 /\ y = b - 1
      BY <2>6
    <3>2. a \in 1..Size /\ b \in 1..Size
      BY <2>4, BlockIsChunk
    <3>3. x # y /\ x \in Nat /\ y \in Nat
      BY <2>5, <2>8, <3>1, <3>2
    <3>4. PICK u \in Nat, v \in Nat : u = Following(m, x) /\ v = Following(m, y)
      BY <2>5, <2>6, <3>1
    <3>5. (x < y => u <= y) /\ (y < x => v <= x)
      BY <2>6, <3>1, <3>4
    <3>6. (x..(u-1)) \cap (y..(v-1)) = {}
      BY <3>3, <3>5
    <3> QED  BY <2>6, <3>1, <3>4, <3>6
  <2> QED  BY <2>3, <2>7, <2>8 DEF BlocksApart
<1> QED  BY <1>1, HeapStaysWhole, PTL
=============================================================================
