-------------------------------- MODULE Cdda --------------------------------
(***************************************************************************)
(* The playing of audio tracks from a disc image                           *)
(* (src/libpcsxcore/cdriso.cpp): startCDDA opens the image and starts a    *)
(* thread, playthread, that reads it and feeds the SPU plugin; stopCDDA    *)
(* waits for the thread.  They share cddaHandle, initial_offset,           *)
(* cddaCurOffset and playing, without a lock: every access of one of them  *)
(* is a step here.                                                         *)
(*                                                                         *)
(* Positions in the image count bytes; sndbuffer holds one sector here,    *)
(* and the image ends with a whole one.  Samples, sleeping, and the files  *)
(* ISOopen keeps open for data are left out.                               *)
(***************************************************************************)
EXTENDS Integers

CONSTANTS
  Offsets,    \* the sectors where the guest starts to play
  Length,     \* of the image: its last sector
  MaxStarts   \* bound: how often the image is opened to be played

ASSUME CddaAssumption ==
  /\ Length \in Nat \ {0} /\ Offsets \subseteq 1..Length
  /\ MaxStarts \in Nat

NULL    == 0
Players == 1..MaxStarts    \* the threads, and the files they are made for

CD_FRAMESIZE_RAW == 2352   \* what sounds of a sector
SUB_FRAMESIZE    == 96     \* its subchannel data

VARIABLES
  playing, cddaHandle, initial_offset, cddaCurOffset,
  subChanInterleaved,  \* of the image: subchannel data follows each sector
  isOpen,     \* the files that are open
  position,   \* of each file
  pc,         \* of each thread
  chunk,      \* of each thread: the position of what it has read, NULL if nothing
  opened,     \* how many files were opened: the last one, and threadid's thread
  main,       \* where the emulator's thread is in startCDDA or stopCDDA
  asked,      \* the offset startCDDA was called with, NULL in a call of stopCDDA
  raced       \* history: the image was opened while a thread was ending

shared == <<playing, cddaHandle, initial_offset, cddaCurOffset>>
files  == <<isOpen, position>>
thread == <<pc, chunk>>
call   == <<main, asked>>
vars   == <<shared, files, thread, opened, call, raced, subChanInterleaved>>

SectorSize ==
  IF subChanInterleaved THEN CD_FRAMESIZE_RAW + SUB_FRAMESIZE ELSE CD_FRAMESIZE_RAW

(* A thread that has met the end of the file closes it.                    *)
Ending == {"close", "forget", "rewind"}

TypeOK ==
  /\ playing \in BOOLEAN /\ cddaHandle \in Players \union {NULL}
  /\ initial_offset \in Nat /\ cddaCurOffset \in Nat
  /\ isOpen \subseteq Players /\ position \in [Players -> Nat]
  /\ pc \in [Players -> {"none", "test", "read", "end", "mute", "send", "add", "exit"} \union Ending]
  /\ chunk \in [Players -> Nat]
  /\ opened \in 0..MaxStarts
  /\ main \in {"idle", "started?", "same?", "open", "offset", "seek", "play", "create",
               "playing?", "stop", "join", "closed?", "forget", "rewind"}
  /\ asked \in Nat /\ raced \in BOOLEAN /\ subChanInterleaved \in BOOLEAN

Init ==
  /\ playing = FALSE /\ cddaHandle = NULL /\ initial_offset = 0 /\ cddaCurOffset = 0
  /\ isOpen = {} /\ position = [p \in Players |-> 0]
  /\ pc = [p \in Players |-> "none"] /\ chunk = [p \in Players |-> NULL]
  /\ opened = 0 /\ main = "idle" /\ asked = NULL /\ raced = FALSE
  /\ subChanInterleaved \in BOOLEAN

-----------------------------------------------------------------------------
(* The emulator's thread.                                                  *)

Goto(from, to) == main = from /\ main' = to /\ UNCHANGED <<asked, subChanInterleaved>>

(* ISOplay, and ISOstop, ISOclose and ISOshutdown.                         *)
ISOplay(sector) ==
  /\ main = "idle" /\ opened < MaxStarts
  /\ main' = "started?" /\ asked' = SectorSize * sector
  /\ UNCHANGED <<shared, files, thread, opened, raced, subChanInterleaved>>

ISOstop ==
  /\ main = "idle"
  /\ main' = "playing?" /\ asked' = NULL
  /\ UNCHANGED <<shared, files, thread, opened, raced, subChanInterleaved>>

(* stopCDDA goes back to startCDDA or to its other callers.                *)
Back == IF asked # NULL THEN "open" ELSE "idle"

(* Variant: a track that plays is not stopped.                             *)
TestNothing ==
  /\ Goto("started?", "open")
  /\ UNCHANGED <<shared, files, thread, opened, raced>>

(* startCDDA up to its call of stopCDDA.                                   *)
TestStarted ==
  /\ Goto("started?", IF playing THEN "same?" ELSE "open")
  /\ UNCHANGED <<shared, files, thread, opened, raced>>

TestSame ==
  /\ Goto("same?", IF initial_offset = asked THEN "idle" ELSE "playing?")
  /\ UNCHANGED <<shared, files, thread, opened, raced>>

(* stopCDDA.                                                               *)
TestPlaying ==
  /\ Goto("playing?", IF playing THEN "stop" ELSE Back)
  /\ UNCHANGED <<shared, files, thread, opened, raced>>

StopPlaying ==
  /\ Goto("stop", "join")
  /\ playing' = FALSE
  /\ UNCHANGED <<cddaHandle, initial_offset, cddaCurOffset, files, thread, opened, raced>>

(* Variant: the thread is not waited for.                                  *)
JoinNothing ==
  /\ Goto("join", "closed?")
  /\ UNCHANGED <<shared, files, thread, opened, raced>>

Join ==
  /\ Goto("join", "closed?")
  /\ pc[opened] = "exit"
  /\ UNCHANGED <<shared, files, thread, opened, raced>>

CloseHandle ==
  /\ Goto("closed?", IF cddaHandle # NULL THEN "forget" ELSE "rewind")
  /\ isOpen' = isOpen \ {cddaHandle}
  /\ UNCHANGED <<shared, position, thread, opened, raced>>

ForgetHandle ==
  /\ Goto("forget", "rewind")
  /\ cddaHandle' = NULL
  /\ UNCHANGED <<playing, initial_offset, cddaCurOffset, files, thread, opened, raced>>

Rewind ==
  /\ Goto("rewind", Back)
  /\ initial_offset' = 0
  /\ UNCHANGED <<playing, cddaHandle, cddaCurOffset, files, thread, opened, raced>>

(* startCDDA from fopen on, which may fail.                                *)
Raced == raced' = (raced \/ \E t \in Players : pc[t] \in Ending)

OpenFails ==
  /\ Goto("open", "idle")
  /\ cddaHandle' = NULL
  /\ Raced
  /\ UNCHANGED <<playing, initial_offset, cddaCurOffset, files, thread, opened>>

OpenImage ==
  /\ Goto("open", "offset")
  /\ opened < MaxStarts /\ opened' = opened + 1
  /\ cddaHandle' = opened'
  /\ isOpen' = isOpen \union {opened'}
  /\ Raced
  /\ UNCHANGED <<playing, initial_offset, cddaCurOffset, position, thread>>

SetOffset ==
  /\ Goto("offset", "seek")
  /\ initial_offset' = asked
  /\ UNCHANGED <<playing, cddaHandle, cddaCurOffset, files, thread, opened, raced>>

(* Variant: cddaCurOffset is left as it is.                                *)
SeekOnly ==
  /\ Goto("seek", "play")
  /\ position' = IF cddaHandle = NULL THEN position
                 ELSE [position EXCEPT ![cddaHandle] = initial_offset]
  /\ UNCHANGED <<shared, isOpen, thread, opened, raced>>

(* cddaCurOffset and the position of the file are taken from               *)
(* initial_offset.                                                         *)
Seek ==
  /\ Goto("seek", "play")
  /\ cddaCurOffset' = initial_offset
  /\ position' = IF cddaHandle = NULL THEN position
                 ELSE [position EXCEPT ![cddaHandle] = initial_offset]
  /\ UNCHANGED <<playing, cddaHandle, initial_offset, isOpen, thread, opened, raced>>

Play ==
  /\ Goto("play", "create")
  /\ playing' = TRUE
  /\ UNCHANGED <<cddaHandle, initial_offset, cddaCurOffset, files, thread, opened, raced>>

CreateThread ==
  /\ Goto("create", "idle")
  /\ pc' = [pc EXCEPT ![opened] = "test"]
  /\ UNCHANGED <<shared, files, chunk, opened, raced>>

(* What the emulator's thread does once it is in startCDDA or stopCDDA.    *)
InCall ==
  \/ TestStarted \/ TestSame \/ TestPlaying \/ StopPlaying \/ Join
  \/ CloseHandle \/ ForgetHandle \/ Rewind
  \/ OpenFails \/ OpenImage \/ SetOffset \/ Seek \/ Play \/ CreateThread

-----------------------------------------------------------------------------
(* playthread.                                                             *)

Step(t, from, to) ==
  pc[t] = from /\ pc' = [pc EXCEPT ![t] = to] /\ UNCHANGED subChanInterleaved

TestLoop(t) ==
  /\ Step(t, "test", IF playing THEN "read" ELSE "exit")
  /\ UNCHANGED <<shared, files, chunk, opened, call, raced>>

(* fread.  Of a file that has been closed under the thread's feet it may   *)
(* still get what there is, or not.                                        *)
Remains ==
  IF cddaHandle = NULL THEN FALSE ELSE position[cddaHandle] <= SectorSize * Length

(* A sector, and over the subchannel data that may follow it.              *)
ReadChunk(t) ==
  /\ Step(t, "read", "mute")
  /\ Remains
  /\ chunk' = [chunk EXCEPT ![t] = position[cddaHandle]]
  /\ position' = [position EXCEPT ![cddaHandle] = @ + SectorSize]
  /\ UNCHANGED <<shared, isOpen, opened, call, raced>>

(* Variant: at the end of the file the thread waits for more of it.        *)
ReadNothingYet(t) ==
  /\ Step(t, "read", "read")
  /\ cddaHandle \in isOpen => ~Remains
  /\ UNCHANGED <<shared, files, chunk, opened, call, raced>>

ReadNothing(t) ==
  /\ Step(t, "read", "end")
  /\ cddaHandle \in isOpen => ~Remains
  /\ UNCHANGED <<shared, files, chunk, opened, call, raced>>

End(t) ==
  /\ Step(t, "end", "close")
  /\ playing' = FALSE
  /\ UNCHANGED <<cddaHandle, initial_offset, cddaCurOffset, files, chunk, opened, call, raced>>

Close(t) ==
  /\ Step(t, "close", "forget")
  /\ isOpen' = isOpen \ {cddaHandle}
  /\ UNCHANGED <<shared, position, chunk, opened, call, raced>>

Forget(t) ==
  /\ Step(t, "forget", "rewind")
  /\ cddaHandle' = NULL
  /\ UNCHANGED <<playing, initial_offset, cddaCurOffset, files, chunk, opened, call, raced>>

RewindAtEnd(t) ==
  /\ Step(t, "rewind", "exit")
  /\ initial_offset' = 0
  /\ UNCHANGED <<playing, cddaHandle, cddaCurOffset, files, chunk, opened, call, raced>>

(* Nothing is sent while cdr.Muted, or once playing is reset.              *)
TestMute(t) ==
  /\ \E to \in {"send", "add"} : (to = "send" => playing) /\ Step(t, "mute", to)
  /\ UNCHANGED <<shared, files, chunk, opened, call, raced>>

(* SPU_playCDDAchannel.                                                    *)
Send(t) ==
  /\ Step(t, "send", "add")
  /\ UNCHANGED <<shared, files, chunk, opened, call, raced>>

Add(t) ==
  /\ Step(t, "add", "test")
  /\ cddaCurOffset' = cddaCurOffset + CD_FRAMESIZE_RAW
  /\ chunk' = [chunk EXCEPT ![t] = NULL]
  /\ UNCHANGED <<playing, cddaHandle, initial_offset, files, opened, call, raced>>

PlayThread(t) ==
  \/ TestLoop(t) \/ ReadChunk(t) \/ ReadNothing(t) \/ TestMute(t) \/ Send(t) \/ Add(t)
  \/ End(t) \/ Close(t) \/ Forget(t) \/ RewindAtEnd(t)

-----------------------------------------------------------------------------
Next ==
  \/ \E sector \in Offsets : ISOplay(sector)
  \/ ISOstop \/ InCall
  \/ \E t \in Players : PlayThread(t)

Spec == Init /\ [][Next]_vars

(* Both threads run.                                                       *)
FairSpec == Spec /\ WF_vars(InCall) /\ \A t \in Players : WF_vars(PlayThread(t))

-----------------------------------------------------------------------------
(* No file is left behind, and a thread reads from one that is open -- as  *)
(* long as the image is never opened while a thread that has met the end   *)
(* of it is about to close it: stopCDDA does not wait for such a thread.   *)
OneFile ==
  ~raced => /\ isOpen \subseteq {cddaHandle}
            /\ \A t \in Players : pc[t] = "read" => cddaHandle \in isOpen

(* cddaCurOffset, from which ISOgetStatus tells the guest where the disc   *)
(* is, follows what the SPU gets: as many sectors from the start of the    *)
(* track on, and without interleaved subchannel data the very same place   *)
(* -- with the same exception.  On an interleaved image the start counts   *)
(* with the subchannel data, so that the status is off by a constant.      *)
Follows(at, place) ==
  (at - initial_offset) * SectorSize = (place - initial_offset) * CD_FRAMESIZE_RAW

SoundMatchesStatus ==
  \A t \in Players : pc[t] = "send" /\ ~raced =>
    /\ Follows(cddaCurOffset, chunk[t])
    /\ ~subChanInterleaved => cddaCurOffset = chunk[t]

(* When stopCDDA has returned nothing more is sent, whatever raced; while  *)
(* one track plays the thread of another sends nothing.                    *)
QuietAfterStop ==
  \A t \in Players : pc[t] \in {"mute", "send"} =>
    /\ t = opened
    /\ main = "idle" => playing

(* Every call returns: whatever the thread is doing when stopCDDA resets   *)
(* playing, it ends.                                                       *)
CallsReturn == main # "idle" ~> main = "idle"
=============================================================================
