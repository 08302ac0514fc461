------------------------------ MODULE BiosCard ------------------------------
(***************************************************************************)
(* The files of a memory card in the emulated BIOS                         *)
(* (src/libpcsxcore/psxbios.cpp): open, lseek, read, write, close,         *)
(* firstfile, nextfile, rename and delete.  McdData is the card in memory, *)
(* McdFile the file SaveMcd (sio.cpp) keeps of it: a call changes some     *)
(* bytes of the one and saves a range of bytes to the other.               *)
(*                                                                         *)
(* One card of the two.  There is one descriptor for it, FDesc, so a       *)
(* program has one file open at a time here, the last one it opened with   *)
(* success.  It stays inside that file's block, does not go on with a      *)
(* descriptor that it closed or whose file it deleted, and does not rename *)
(* a file to a name that is taken: nothing in the code looks.  Saving does *)
(* not fail.                                                               *)
(***************************************************************************)
EXTENDS Integers, FiniteSetsExt, Sequences

CONSTANTS
  Names,
  Slots,   \* 15: the frames of the directory, each with a block of data
  Words,   \* of a block
  Values   \* of a word

ASSUME CardAssumption == Slots \in Nat \ {0} /\ Words \in Nat \ {0}
                         /\ "none" \notin Names /\ 0 \in Values

NULL == [name |-> "none", at |-> 0, async |-> FALSE]

VARIABLES
  McdData, McdFile,
  FDesc,   \* mcfile, the slot, offset, and of mode the bit 0x8000
  ffile,   \* the names firstfile was asked for
  nfile,   \* where nextfile goes on
  ended,   \* nextfile has returned 0
  held,    \* history: the file the program has open, where it is in it and
           \* in which mode, or NULL
  got,     \* what this call has read, if it was one of read
  due      \* history: the files firstfile and nextfile have still to return

walk     == <<ffile, nfile, ended, due>>
cardVars == <<McdData, McdFile, FDesc, held, got, walk>>

(* A frame of the directory: its first byte, the name, and the checksum,   *)
(* which stands for what it was computed from.                             *)
Sum(state, name)   == <<state, name>>
Frame(state, name) == [state |-> state, name |-> name, sum |-> Sum(state, name)]
IsUsed(frame) == frame.state = "used"
IsSound(frame) == frame.sum = Sum(frame.state, frame.name)

Frames == [state : {"free", "used", "deleted"}, name : Names \union {"none"},
           sum : {"free", "used", "deleted"} \X (Names \union {"none"})]
Images == [dir : [1..Slots -> Frames], data : [1..Slots -> [1..Words -> Values]]]

Descriptors == [mcfile : 0..Slots, offset : 1..Words+1, async : BOOLEAN]
Places      == [name : Names, at : 1..Words+1, async : BOOLEAN]

CardTypeOK ==
  /\ McdData \in Images /\ McdFile \in Images
  /\ FDesc \in Descriptors
  /\ ffile \subseteq Names /\ nfile \in 1..Slots+1 /\ ended \in BOOLEAN
  /\ held = NULL \/ held \in Places
  /\ got \in UNION {[1..n -> Values] : n \in 0..Words}
  /\ due \subseteq Names

(* A card that was just formatted.                                         *)
CardInit ==
  /\ McdData = [dir  |-> [s \in 1..Slots |-> Frame("free", "none")],
                 data |-> [s \in 1..Slots |-> [w \in 1..Words |-> 0]]]
  /\ McdFile = McdData
  /\ FDesc = [mcfile |-> 0, offset |-> 1, async |-> FALSE]
  /\ ffile = {} /\ nfile = 1 /\ ended = FALSE
  /\ held = NULL /\ got = <<>> /\ due = {}

NameOf(s) == McdData.dir[s].name
Of(name)  == {s \in 1..Slots : IsUsed(McdData.dir[s]) /\ NameOf(s) = name}
Unused    == {s \in 1..Slots : ~IsUsed(McdData.dir[s])}
Listed    == {NameOf(s) : s \in {t \in 1..Slots : IsUsed(McdData.dir[t])}}

-----------------------------------------------------------------------------
(* buopen sets the descriptor's offset and mode whether it finds a file or *)
(* not.  When it does not, the file that was open stays open, rewound and  *)
(* in the new mode.                                                        *)
Hold(name, s, async) ==
  /\ FDesc' = [mcfile |-> s, offset |-> 1, async |-> async]
  /\ held' = [name |-> name, at |-> 1, async |-> async]

Rewind(async) ==
  /\ FDesc' = [mcfile |-> FDesc.mcfile, offset |-> 1, async |-> async]
  /\ held' = IF held = NULL THEN NULL
             ELSE [name |-> held.name, at |-> 1, async |-> async]

open(name, async) ==
  /\ IF Of(name) # {} THEN Hold(name, Min(Of(name)), async) ELSE Rewind(async)
  /\ got' = <<>>
  /\ UNCHANGED <<McdData, McdFile, walk>>

(* open with FCREAT, when there is no such file.                           *)
create(name, async) ==
  /\ Of(name) = {}
  /\ IF Unused # {}
     THEN LET s == Min(Unused) IN
          /\ McdData' = [McdData EXCEPT !.dir[s] = Frame("used", name)]
          /\ McdFile' = [McdFile EXCEPT !.dir[s] = McdData'.dir[s]]
          /\ Hold(name, s, async)
     ELSE Rewind(async) /\ UNCHANGED <<McdData, McdFile>>
  /\ got' = <<>>
  /\ UNCHANGED <<walk>>

Moved(n) ==
  /\ FDesc' = [FDesc EXCEPT !.offset = @ + n]
  /\ held' = [held EXCEPT !.at = @ + n]

InBlock(n) == held # NULL /\ FDesc.offset + n <= Words + 1

(* buwrite.                                                                *)
Touched(n) == FDesc.offset..(FDesc.offset + n - 1)

write(values) ==
  /\ InBlock(Len(values))
  /\ McdData' = [McdData EXCEPT !.data[FDesc.mcfile] =
       [w \in 1..Words |-> IF w \in Touched(Len(values))
                           THEN values[w - FDesc.offset + 1] ELSE @[w]]]
  /\ McdFile' = [McdFile EXCEPT !.data[FDesc.mcfile] =
       [w \in 1..Words |-> IF w \in Touched(Len(values))
                           THEN McdData'.data[FDesc.mcfile][w] ELSE @[w]]]
  /\ Moved(Len(values))
  /\ got' = <<>>
  /\ UNCHANGED <<walk>>

(* buread.  v0, which is added to the offset, is 0 for a file that was     *)
(* opened for asynchronous reading.                                        *)
read(n) ==
  /\ InBlock(n)
  /\ got' = [i \in 1..n |-> McdData.data[FDesc.mcfile][FDesc.offset + i - 1]]
  /\ Moved(IF FDesc.async THEN 0 ELSE n)
  /\ UNCHANGED <<McdData, McdFile, walk>>

lseek(at) ==
  /\ held # NULL
  /\ FDesc' = [FDesc EXCEPT !.offset = at] /\ held' = [held EXCEPT !.at = at]
  /\ got' = <<>>
  /\ UNCHANGED <<McdData, McdFile, walk>>

(* close does nothing.                                                     *)
close ==
  /\ held # NULL /\ held' = NULL
  /\ got' = <<>>
  /\ UNCHANGED <<McdData, McdFile, FDesc, walk>>

(* Variant: the checksum is left as it was.                                *)
renameWithoutSum(old, new) ==
  /\ Of(new) = {} /\ Of(old) # {}
  /\ McdData' = [McdData EXCEPT !.dir[Min(Of(old))].name = new]
  /\ McdFile' = [McdFile EXCEPT !.dir[Min(Of(old))].name = new]
  /\ held' = IF held # NULL /\ held.name = old THEN [held EXCEPT !.name = new] ELSE held
  /\ due' = due \ {old}
  /\ got' = <<>>
  /\ UNCHANGED <<FDesc, ffile, nfile, ended>>

(* burename: the name and the checksum are saved.                          *)
rename(old, new) ==
  /\ Of(new) = {} /\ Of(old) # {}
  /\ LET s == Min(Of(old)) IN
       /\ McdData' = [McdData EXCEPT !.dir[s] = Frame("used", new)]
       /\ McdFile' = [McdFile EXCEPT !.dir[s].name = new,
                                     !.dir[s].sum = McdData'.dir[s].sum]
  /\ held' = IF held # NULL /\ held.name = old THEN [held EXCEPT !.name = new] ELSE held
  /\ due' = due \ {old}
  /\ got' = <<>>
  /\ UNCHANGED <<FDesc, ffile, nfile, ended>>

(* budelete: the first byte alone, so the checksum of a deleted frame is   *)
(* wrong until the frame is used again.                                    *)
delete(name) ==
  /\ Of(name) # {}
  /\ LET s == Min(Of(name)) IN
       /\ McdData' = [McdData EXCEPT !.dir[s].state = "deleted"]
       /\ McdFile' = [McdFile EXCEPT !.dir[s].state = "deleted"]
  /\ held' = IF held # NULL /\ held.name = name THEN NULL ELSE held
  /\ due' = due \ {name}
  /\ got' = <<>>
  /\ UNCHANGED <<FDesc, ffile, nfile, ended>>

-----------------------------------------------------------------------------
(* Variant: a frame that is not in use ends the search.                    *)
MatchesBeforeAGap(names, from) ==
  {s \in from..Slots : IsUsed(McdData.dir[s]) /\ NameOf(s) \in names
                         /\ \A t \in from..s : IsUsed(McdData.dir[t])}

(* bufile, from a slot on: the next file of those that are asked for.      *)
Matches(names, from) ==
  {s \in from..Slots : IsUsed(McdData.dir[s]) /\ NameOf(s) \in names}

Search(names, from, ds) ==
  LET found == Matches(names, from)
  IN  IF found = {} THEN nfile' = Slots + 1 /\ due' = ds
      ELSE nfile' = Min(found) + 1 /\ due' = ds \ {NameOf(Min(found))}

(* firstfile returns its directory entry even if it has found nothing.     *)
firstfile(names) ==
  /\ ffile' = names
  /\ Search(names, 1, Listed \cap names)
  /\ ended' = FALSE
  /\ got' = <<>>
  /\ UNCHANGED <<McdData, McdFile, FDesc, held>>

nextfile ==
  /\ ended' = (Matches(ffile, nfile) = {})
  /\ Search(ffile, nfile, due)
  /\ got' = <<>>
  /\ UNCHANGED <<McdData, McdFile, FDesc, held, ffile>>

CardNext ==
  \/ \E name \in Names, async \in BOOLEAN : open(name, async) \/ create(name, async)
  \/ \E name \in Names : delete(name)
  \/ \E values \in UNION {[1..n -> Values] : n \in 1..Words} : write(values)
  \/ \E n \in 1..Words : read(n)
  \/ \E at \in 1..Words+1 : lseek(at)
  \/ close
  \/ \E old, new \in Names : rename(old, new)
  \/ \E names \in SUBSET Names \ {{}} : firstfile(names)
  \/ nextfile

CardSpec == CardInit /\ [][CardNext]_cardVars

-----------------------------------------------------------------------------
(* The file of the card shows the files the calls were about, with the     *)
(* contents that were written to them: the frames whose checksum is right. *)
Shown == {s \in 1..Slots : IsUsed(McdFile.dir[s]) /\ IsSound(McdFile.dir[s])}

Contents ==
  [name \in {McdFile.dir[s].name : s \in Shown} |->
     McdFile.data[CHOOSE s \in Shown : McdFile.dir[s].name = name]]

(* Through creating, deleting and renaming, with slots used again and the  *)
(* descriptor rewound and its mode changed by failed calls, every call     *)
(* changes the file it is about and no other, where its program is in it,  *)
(* in memory and in the card's file alike.                                 *)
CardPromise == INSTANCE CardFiles WITH files <- Contents, Room <- Slots
RefinesFiles == CardPromise!Spec

(* A walk with firstfile and nextfile comes to every file that was there   *)
(* when it began and kept its name, whatever is created, deleted or        *)
(* renamed on the way.                                                     *)
WalkIsComplete == ended => due = {}
=============================================================================
