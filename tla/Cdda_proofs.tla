----------------------------- MODULE Cdda_proofs -----------------------------
(***************************************************************************)
(* Proofs about the playing of audio tracks, for any offsets, any length   *)
(* of the image and any number of starts.                                  *)
(***************************************************************************)
EXTENDS Cdda, TLAPS

(* A thread that has not met the end of the file.                          *)
Active(t) == pc[t] \in {"test", "read", "end", "mute", "send", "add"}

(* The image is open, its thread not yet created.                          *)
Opening == main \in {"offset", "seek", "play", "create"}

(* The thread has ended, after stopCDDA waited for it.                     *)
Stopped == main \in {"closed?", "forget", "rewind"}

(* Where the threads may be: one that is active is the last one created,   *)
(* and unless it is being waited for, playing is set.                      *)
CallOK ==
  /\ main \in {"join", "open", "offset", "seek", "play"} \/ Stopped => ~playing
  /\ main = "create" => playing
  /\ playing \/ main \in {"stop", "join"} \/ Stopped \/ Opening => opened # 0
  /\ Opening => pc[opened] = "none"
  /\ Stopped => pc[opened] = "exit"

ThreadOK ==
  /\ \A t \in Players : Active(t) => t = opened /\ (playing \/ main = "join")
  /\ \A t \in Players : t > opened => pc[t] = "none"

(* Without the race: who may close the file, and whether it is open.       *)
FileOK ==
  ~raced =>
    /\ isOpen \subseteq {cddaHandle}
    /\ \A t \in Players : pc[t] \in Ending => t = opened
    /\ \A t \in Players : Active(t) \/ pc[t] = "close" => cddaHandle \in isOpen
    /\ \A t \in Players : pc[t] = "forget" => isOpen = {}
    /\ Opening => cddaHandle \in isOpen
    /\ \/ isOpen = {} \/ Opening \/ main \in {"join", "closed?"}
       \/ \E t \in Players : Active(t) \/ pc[t] = "close"

(* Without the race: the file's position against cddaCurOffset.            *)
SoundOK ==
  ~raced =>
    /\ \A t \in Players :
         /\ pc[t] \in {"test", "read"} => Follows(cddaCurOffset, position[cddaHandle])
         /\ pc[t] \in {"mute", "send", "add"} =>
              /\ Follows(cddaCurOffset, chunk[t])
              /\ position[cddaHandle] = chunk[t] + SectorSize
    /\ main \in {"play", "create"} =>
         position[cddaHandle] = initial_offset /\ cddaCurOffset = initial_offset

PlayOK == CallOK /\ ThreadOK /\ FileOK /\ SoundOK

(* The size of a sector, which stays.                                      *)
LEMMA Sizes ==
  /\ SectorSize = IF subChanInterleaved THEN 2448 ELSE 2352
  /\ [Next]_vars => SectorSize' = SectorSize
<1>1. SectorSize = IF subChanInterleaved THEN 2448 ELSE 2352
  BY DEF SectorSize, CD_FRAMESIZE_RAW, SUB_FRAMESIZE
<1>2. ASSUME [Next]_vars PROVE subChanInterleaved' = subChanInterleaved
  BY <1>2, Zenon DEF Next, vars, ISOplay, ISOstop, InCall, Goto, TestStarted, TestSame,
     TestPlaying, StopPlaying, Join, CloseHandle, ForgetHandle, Rewind, OpenFails,
     OpenImage, SetOffset, Seek, Play, CreateThread, PlayThread, Step, TestLoop,
     ReadChunk, ReadNothing, TestMute, Send, Add, End, Close, Forget, RewindAtEnd
<1>. QED  BY <1>1, <1>2 DEF SectorSize

(* Types.                                                                  *)
LEMMA TypeStep ==
  ASSUME TypeOK, [Next]_vars
  PROVE  TypeOK'
<1>. USE CddaAssumption DEF TypeOK, Players, Ending, NULL, shared, files, thread, call
<1>0. SectorSize \in Nat
  BY Sizes
<1>1. CASE UNCHANGED vars
  BY <1>1 DEF vars
<1>2. ASSUME NEW sector \in Offsets, ISOplay(sector) PROVE TypeOK'
  <2>1. SectorSize * sector \in Nat
    BY <1>0
  <2>. QED  BY <1>2, <2>1 DEF ISOplay
<1>3. CASE ISOstop
  BY <1>3 DEF ISOstop
<1>4. CASE TestStarted
  BY <1>4 DEF TestStarted, Goto
<1>5. CASE TestSame
  BY <1>5 DEF TestSame, Goto
<1>6. CASE TestPlaying
  BY <1>6 DEF TestPlaying, Goto, Back
<1>7. CASE StopPlaying
  BY <1>7 DEF StopPlaying, Goto
<1>8. CASE Join
  BY <1>8 DEF Join, Goto
<1>9. CASE CloseHandle
  BY <1>9 DEF CloseHandle, Goto
<1>10. CASE ForgetHandle
  BY <1>10 DEF ForgetHandle, Goto
<1>11. CASE Rewind
  BY <1>11 DEF Rewind, Goto, Back
<1>12. CASE OpenFails
  BY <1>12 DEF OpenFails, Goto, Raced
<1>13. CASE OpenImage
  BY <1>13 DEF OpenImage, Goto, Raced
<1>14. CASE SetOffset
  BY <1>14 DEF SetOffset, Goto
<1>15. CASE Seek
  BY <1>15 DEF Seek, Goto
<1>16. CASE Play
  BY <1>16 DEF Play, Goto
<1>17. CASE CreateThread
  BY <1>17 DEF CreateThread, Goto
<1>18. ASSUME NEW t \in Players, PlayThread(t) PROVE TypeOK'
  <2>1. CASE TestLoop(t)
    BY <2>1 DEF TestLoop, Step
  <2>2. CASE ReadChunk(t)
    <3>1. cddaHandle \in Players /\ position[cddaHandle] \in Nat
      BY <2>2 DEF ReadChunk, Remains
    <3>2. position' = [position EXCEPT ![cddaHandle] = @ + SectorSize] /\ position[cddaHandle] + SectorSize \in Nat
      BY <1>0, <2>2, <3>1 DEF ReadChunk
    <3>3. position' \in [Players -> Nat]
      BY <3>1, <3>2
    <3>4. chunk' \in [Players -> Nat]
      BY <2>2, <3>1 DEF ReadChunk
    <3>. QED  BY <2>2, <3>3, <3>4 DEF ReadChunk, Step
  <2>3. CASE ReadNothing(t)
    BY <2>3 DEF ReadNothing, Step, Remains
  <2>4. CASE TestMute(t)
    BY <2>4 DEF TestMute, Step
  <2>5. CASE Send(t)
    BY <2>5 DEF Send, Step
  <2>6. CASE Add(t)
    BY <2>6 DEF Add, Step, CD_FRAMESIZE_RAW
  <2>7. CASE End(t)
    BY <2>7 DEF End, Step
  <2>8. CASE Close(t)
    BY <2>8 DEF Close, Step
  <2>9. CASE Forget(t)
    BY <2>9 DEF Forget, Step
  <2>10. CASE RewindAtEnd(t)
    BY <2>10 DEF RewindAtEnd, Step
  <2>. QED  BY <1>18, <2>1, <2>2, <2>3, <2>4, <2>5, <2>6, <2>7, <2>8, <2>9, <2>10 DEF PlayThread
<1>. QED  BY <1>1, <1>2, <1>3, <1>4, <1>5, <1>6, <1>7, <1>8, <1>9, <1>10, <1>11, <1>12, <1>13, <1>14, <1>15, <1>16, <1>17, <1>18 DEF Next, InCall

(* Where the emulator's thread is, against playing and the threads.        *)
LEMMA CallStep ==
  ASSUME TypeOK, CallOK, ThreadOK, [Next]_vars
  PROVE  CallOK'
<1>. USE CddaAssumption DEF TypeOK, Players, Ending, NULL, CallOK, ThreadOK, Active, Opening, Stopped, shared, files, thread, call
<1>1. CASE UNCHANGED vars
  BY <1>1 DEF vars
<1>2. ASSUME NEW sector \in Offsets, ISOplay(sector) PROVE CallOK'
  BY <1>2 DEF ISOplay
<1>3. CASE ISOstop
  BY <1>3 DEF ISOstop
<1>4. CASE TestStarted
  BY <1>4 DEF TestStarted, Goto
<1>5. CASE TestSame
  BY <1>5 DEF TestSame, Goto
<1>6. CASE TestPlaying
  BY <1>6 DEF TestPlaying, Goto, Back
<1>7. CASE StopPlaying
  BY <1>7 DEF StopPlaying, Goto
<1>8. CASE Join
  BY <1>8 DEF Join, Goto
<1>9. CASE CloseHandle
  BY <1>9 DEF CloseHandle, Goto
<1>10. CASE ForgetHandle
  BY <1>10 DEF ForgetHandle, Goto
<1>11. CASE Rewind
  BY <1>11 DEF Rewind, Goto, Back
<1>12. CASE OpenFails
  BY <1>12 DEF OpenFails, Goto, Raced
<1>13. CASE OpenImage
  BY <1>13 DEF OpenImage, Goto, Raced
<1>14. CASE SetOffset
  BY <1>14 DEF SetOffset, Goto
<1>15. CASE Seek
  BY <1>15 DEF Seek, Goto
<1>16. CASE Play
  BY <1>16 DEF Play, Goto
<1>17. CASE CreateThread
  BY <1>17 DEF CreateThread, Goto
<1>18. ASSUME NEW t \in Players, PlayThread(t) PROVE CallOK'
  <2>1. CASE TestLoop(t)
    BY <2>1 DEF TestLoop, Step
  <2>2. CASE ReadChunk(t)
    BY <2>2 DEF ReadChunk, Step, Remains
  <2>3. CASE ReadNothing(t)
    BY <2>3 DEF ReadNothing, Step, Remains
  <2>4. CASE TestMute(t)
    BY <2>4 DEF TestMute, Step
  <2>5. CASE Send(t)
    BY <2>5 DEF Send, Step
  <2>6. CASE Add(t)
    BY <2>6 DEF Add, Step
  <2>7. CASE End(t)
    BY <2>7 DEF End, Step
  <2>8. CASE Close(t)
    BY <2>8 DEF Close, Step
  <2>9. CASE Forget(t)
    BY <2>9 DEF Forget, Step
  <2>10. CASE RewindAtEnd(t)
    BY <2>10 DEF RewindAtEnd, Step
  <2>. QED  BY <1>18, <2>1, <2>2, <2>3, <2>4, <2>5, <2>6, <2>7, <2>8, <2>9, <2>10 DEF PlayThread
<1>. QED  BY <1>1, <1>2, <1>3, <1>4, <1>5, <1>6, <1>7, <1>8, <1>9, <1>10, <1>11, <1>12, <1>13, <1>14, <1>15, <1>16, <1>17, <1>18 DEF Next, InCall

(* Where the threads are.                                                  *)
LEMMA ThreadStep ==
  ASSUME TypeOK, CallOK, ThreadOK, [Next]_vars
  PROVE  ThreadOK'
<1>. USE CddaAssumption DEF TypeOK, Players, Ending, NULL, CallOK, ThreadOK, Active, Opening, Stopped, shared, files, thread, call
<1>1. CASE UNCHANGED vars
  BY <1>1 DEF vars
<1>2. ASSUME NEW sector \in Offsets, ISOplay(sector) PROVE ThreadOK'
  BY <1>2 DEF ISOplay
<1>3. CASE ISOstop
  BY <1>3 DEF ISOstop
<1>4. CASE TestStarted
  BY <1>4 DEF TestStarted, Goto
<1>5. CASE TestSame
  BY <1>5 DEF TestSame, Goto
<1>6. CASE TestPlaying
  BY <1>6 DEF TestPlaying, Goto, Back
<1>7. CASE StopPlaying
  BY <1>7 DEF StopPlaying, Goto
<1>8. CASE Join
  BY <1>8 DEF Join, Goto
<1>9. CASE CloseHandle
  BY <1>9 DEF CloseHandle, Goto
<1>10. CASE ForgetHandle
  BY <1>10 DEF ForgetHandle, Goto
<1>11. CASE Rewind
  BY <1>11 DEF Rewind, Goto, Back
<1>12. CASE OpenFails
  BY <1>12 DEF OpenFails, Goto, Raced
<1>13. CASE OpenImage
  BY <1>13 DEF OpenImage, Goto, Raced
<1>14. CASE SetOffset
  BY <1>14 DEF SetOffset, Goto
<1>15. CASE Seek
  BY <1>15 DEF Seek, Goto
<1>16. CASE Play
  BY <1>16 DEF Play, Goto
<1>17. CASE CreateThread
  BY <1>17 DEF CreateThread, Goto
<1>18. ASSUME NEW t \in Players, PlayThread(t) PROVE ThreadOK'
  <2>1. CASE TestLoop(t)
    BY <2>1 DEF TestLoop, Step
  <2>2. CASE ReadChunk(t)
    BY <2>2 DEF ReadChunk, Step, Remains
  <2>3. CASE ReadNothing(t)
    BY <2>3 DEF ReadNothing, Step, Remains
  <2>4. CASE TestMute(t)
    BY <2>4 DEF TestMute, Step
  <2>5. CASE Send(t)
    BY <2>5 DEF Send, Step
  <2>6. CASE Add(t)
    BY <2>6 DEF Add, Step
  <2>7. CASE End(t)
    BY <2>7 DEF End, Step
  <2>8. CASE Close(t)
    BY <2>8 DEF Close, Step
  <2>9. CASE Forget(t)
    BY <2>9 DEF Forget, Step
  <2>10. CASE RewindAtEnd(t)
    BY <2>10 DEF RewindAtEnd, Step
  <2>. QED  BY <1>18, <2>1, <2>2, <2>3, <2>4, <2>5, <2>6, <2>7, <2>8, <2>9, <2>10 DEF PlayThread
<1>. QED  BY <1>1, <1>2, <1>3, <1>4, <1>5, <1>6, <1>7, <1>8, <1>9, <1>10, <1>11, <1>12, <1>13, <1>14, <1>15, <1>16, <1>17, <1>18 DEF Next, InCall

(* Which file is open.                                                     *)
LEMMA FileStep ==
  ASSUME TypeOK, CallOK, ThreadOK, FileOK, [Next]_vars
  PROVE  FileOK'
<1>. USE CddaAssumption DEF TypeOK, Players, Ending, NULL, CallOK, ThreadOK, FileOK, Active, Opening, Stopped, shared, files, thread, call
<1>1. CASE UNCHANGED vars
  BY <1>1 DEF vars
<1>2. ASSUME NEW sector \in Offsets, ISOplay(sector) PROVE FileOK'
  BY <1>2 DEF ISOplay
<1>3. CASE ISOstop
  BY <1>3 DEF ISOstop
<1>4. CASE TestStarted
  BY <1>4 DEF TestStarted, Goto
<1>5. CASE TestSame
  BY <1>5 DEF TestSame, Goto
<1>6. CASE TestPlaying
  BY <1>6 DEF TestPlaying, Goto, Back
<1>7. CASE StopPlaying
  BY <1>7 DEF StopPlaying, Goto
<1>8. CASE Join
  BY <1>8 DEF Join, Goto
<1>9. CASE CloseHandle
  BY <1>9 DEF CloseHandle, Goto
<1>10. CASE ForgetHandle
  BY <1>10 DEF ForgetHandle, Goto
<1>11. CASE Rewind
  BY <1>11 DEF Rewind, Goto, Back
<1>12. CASE OpenFails
  BY <1>12 DEF OpenFails, Goto, Raced
<1>13. CASE OpenImage
  BY <1>13 DEF OpenImage, Goto, Raced
<1>14. CASE SetOffset
  BY <1>14 DEF SetOffset, Goto
<1>15. CASE Seek
  BY <1>15 DEF Seek, Goto
<1>16. CASE Play
  BY <1>16 DEF Play, Goto
<1>17. CASE CreateThread
  BY <1>17 DEF CreateThread, Goto
<1>18. ASSUME NEW t \in Players, PlayThread(t) PROVE FileOK'
  <2>1. CASE TestLoop(t)
    BY <2>1 DEF TestLoop, Step
  <2>2. CASE ReadChunk(t)
    BY <2>2 DEF ReadChunk, Step, Remains
  <2>3. CASE ReadNothing(t)
    BY <2>3 DEF ReadNothing, Step, Remains
  <2>4. CASE TestMute(t)
    BY <2>4 DEF TestMute, Step
  <2>5. CASE Send(t)
    BY <2>5 DEF Send, Step
  <2>6. CASE Add(t)
    BY <2>6 DEF Add, Step
  <2>7. CASE End(t)
    BY <2>7 DEF End, Step
  <2>8. CASE Close(t)
    BY <2>8 DEF Close, Step
  <2>9. CASE Forget(t)
    BY <2>9 DEF Forget, Step
  <2>10. CASE RewindAtEnd(t)
    BY <2>10 DEF RewindAtEnd, Step
  <2>. QED  BY <1>18, <2>1, <2>2, <2>3, <2>4, <2>5, <2>6, <2>7, <2>8, <2>9, <2>10 DEF PlayThread
<1>. QED  BY <1>1, <1>2, <1>3, <1>4, <1>5, <1>6, <1>7, <1>8, <1>9, <1>10, <1>11, <1>12, <1>13, <1>14, <1>15, <1>16, <1>17, <1>18 DEF Next, InCall

(* A sector further on.                                                    *)
LEMMA Onward ==
  ASSUME NEW a \in Int, NEW b \in Int, NEW c \in Int, NEW S, S = 2352 \/ S = 2448,
         (a - c) * S = (b - c) * 2352
  PROVE  (a + 2352 - c) * S = (b + S - c) * 2352
<1>1. CASE S = 2352
  BY <1>1
<1>2. CASE S = 2448
  BY <1>2
<1>. QED  BY <1>1, <1>2

(* What has been read, against the status.                                 *)
LEMMA SoundStep ==
  ASSUME TypeOK, CallOK, ThreadOK, FileOK, SoundOK, [Next]_vars
  PROVE  SoundOK'
<1>. USE CddaAssumption DEF TypeOK, Players, Ending, NULL, CallOK, ThreadOK, FileOK, SoundOK, Follows, Active, Opening, Stopped, shared, files, thread, call
<1>0. SectorSize' = SectorSize /\ SectorSize = IF subChanInterleaved THEN 2448 ELSE 2352
  BY Sizes
<1>. USE <1>0 DEF CD_FRAMESIZE_RAW
<1>1. CASE UNCHANGED vars
  BY <1>1 DEF vars
<1>2. ASSUME NEW sector \in Offsets, ISOplay(sector) PROVE SoundOK'
  BY <1>2 DEF ISOplay
<1>3. CASE ISOstop
  BY <1>3 DEF ISOstop
<1>4. CASE TestStarted
  BY <1>4 DEF TestStarted, Goto
<1>5. CASE TestSame
  BY <1>5 DEF TestSame, Goto
<1>6. CASE TestPlaying
  BY <1>6 DEF TestPlaying, Goto, Back
<1>7. CASE StopPlaying
  BY <1>7 DEF StopPlaying, Goto
<1>8. CASE Join
  BY <1>8 DEF Join, Goto
<1>9. CASE CloseHandle
  BY <1>9 DEF CloseHandle, Goto
<1>10. CASE ForgetHandle
  BY <1>10 DEF ForgetHandle, Goto
<1>11. CASE Rewind
  BY <1>11 DEF Rewind, Goto, Back
<1>12. CASE OpenFails
  BY <1>12 DEF OpenFails, Goto, Raced
<1>13. CASE OpenImage
  BY <1>13 DEF OpenImage, Goto, Raced
<1>14. CASE SetOffset
  BY <1>14 DEF SetOffset, Goto
<1>15. CASE Seek
  BY <1>15 DEF Seek, Goto
<1>16. CASE Play
  BY <1>16 DEF Play, Goto
<1>17. CASE CreateThread
  BY <1>17 DEF CreateThread, Goto
<1>18. ASSUME NEW t \in Players, PlayThread(t) PROVE SoundOK'
  <2>1. CASE TestLoop(t)
    BY <2>1 DEF TestLoop, Step
  <2>2. CASE ReadChunk(t)
    <3>1. cddaHandle \in Players /\ position[cddaHandle] \in Nat
      BY <2>2 DEF ReadChunk, Remains
    <3>2. /\ chunk'[t] = position[cddaHandle]
          /\ position'[cddaHandle] = position[cddaHandle] + SectorSize
      BY <2>2, <3>1 DEF ReadChunk
    <3>3. /\ pc[t] = "read" /\ pc' = [pc EXCEPT ![t] = "mute"] /\ UNCHANGED <<shared, raced, main>>
      BY <2>2 DEF ReadChunk, Step
    <3>4. t = opened /\ main \notin {"play", "create"}
      BY <3>3
    <3>5. \A u \in Players : u # t => pc'[u] \notin {"test", "read", "mute", "send", "add"}
      BY <3>3, <3>4
    <3>. QED  BY <1>0, <3>2, <3>3, <3>4, <3>5
  <2>3. CASE ReadNothing(t)
    BY <2>3 DEF ReadNothing, Step, Remains
  <2>4. CASE TestMute(t)
    BY <2>4 DEF TestMute, Step
  <2>5. CASE Send(t)
    BY <2>5 DEF Send, Step
  <2>6. CASE Add(t)
    <3>1. /\ pc[t] = "add" /\ pc' = [pc EXCEPT ![t] = "test"] /\ UNCHANGED <<cddaHandle, initial_offset, position, raced, main>>
          /\ cddaCurOffset' = cddaCurOffset + 2352
      BY <2>6 DEF Add, Step
    <3>2. t = opened /\ main \notin {"play", "create"}
      BY <3>1
    <3>3. \A u \in Players : u # t => pc'[u] \notin {"test", "read", "mute", "send", "add"}
      BY <3>1, <3>2
    <3>4. CASE ~raced
      <4>1. /\ cddaCurOffset \in Int /\ initial_offset \in Int /\ chunk[t] \in Int
            /\ position[cddaHandle] = chunk[t] + SectorSize
            /\ (cddaCurOffset - initial_offset) * SectorSize = (chunk[t] - initial_offset) * 2352
        BY <3>1, <3>4
      <4>. HIDE DEF TypeOK, CallOK, ThreadOK, FileOK, SoundOK
      <4>2. (cddaCurOffset + 2352 - initial_offset) * SectorSize
              = (chunk[t] + SectorSize - initial_offset) * 2352
        BY <1>0, <4>1, Onward
      <4>3. (cddaCurOffset' - initial_offset') * SectorSize'
              = (position'[cddaHandle'] - initial_offset') * 2352
        BY <1>0, <3>1, <4>1, <4>2
      <4>4. Follows(cddaCurOffset, position[cddaHandle])'
        BY <4>3
      <4>5. position' = position /\ cddaHandle' = cddaHandle /\ raced' = raced /\ pc'[t] = "test"
            /\ main' = main
        BY <3>1 DEF TypeOK
      <4>. HIDE DEF Follows
      <4>. QED  BY <3>2, <3>3, <4>4, <4>5 DEF SoundOK
    <3>. QED  BY <3>1, <3>4
  <2>7. CASE End(t)
    BY <2>7 DEF End, Step
  <2>8. CASE Close(t)
    BY <2>8 DEF Close, Step
  <2>9. CASE Forget(t)
    BY <2>9 DEF Forget, Step
  <2>10. CASE RewindAtEnd(t)
    BY <2>10 DEF RewindAtEnd, Step
  <2>. QED  BY <1>18, <2>1, <2>2, <2>3, <2>4, <2>5, <2>6, <2>7, <2>8, <2>9, <2>10 DEF PlayThread
<1>. QED  BY <1>1, <1>2, <1>3, <1>4, <1>5, <1>6, <1>7, <1>8, <1>9, <1>10, <1>11, <1>12, <1>13, <1>14, <1>15, <1>16, <1>17, <1>18 DEF Next, InCall

(* Every value the variables take is of the type the code gives it.        *)
THEOREM TypeInvariance == Spec => []TypeOK
<1>1. ASSUME Init PROVE TypeOK
  <2>1. position \in [Players -> Nat] /\ chunk \in [Players -> Nat]
    BY <1>1 DEF Init, NULL
  <2>2. playing \in BOOLEAN /\ raced \in BOOLEAN /\ isOpen \subseteq Players
    BY <1>1 DEF Init
  <2>. QED  BY <1>1, <2>1, <2>2, CddaAssumption DEF Init, TypeOK, Players, NULL, Ending
<1>2. TypeOK /\ [Next]_vars => TypeOK'
  BY TypeStep
<1>. QED  BY <1>1, <1>2, PTL DEF Spec

(* The inductive invariant.                                                *)
THEOREM PlayInvariance == Spec => []PlayOK
<1>1. Init => PlayOK
  BY CddaAssumption DEF Init, PlayOK, CallOK, ThreadOK, FileOK, SoundOK, Active,
     Opening, Stopped, Players, NULL, Ending
<1>2. TypeOK /\ PlayOK /\ [Next]_vars => PlayOK'
  BY CallStep, ThreadStep, FileStep, SoundStep DEF PlayOK
<1>. QED  BY <1>1, <1>2, TypeInvariance, PTL DEF Spec

(* When stopCDDA has returned no thread sends anything any more, also      *)
(* when a start of a track raced with the end of another.                  *)
THEOREM Quiet == Spec => []QuietAfterStop
<1>1. PlayOK => QuietAfterStop
  BY DEF PlayOK, ThreadOK, Active, QuietAfterStop
<1>. QED  BY <1>1, PlayInvariance, PTL

(* At most one file is open, the one that is read, unless a start raced.   *)
THEOREM NoFileLeft == Spec => []OneFile
<1>1. PlayOK => OneFile
  BY DEF PlayOK, FileOK, Active, OneFile
<1>. QED  BY <1>1, PlayInvariance, PTL

(* The status follows what is sent, as far into the track, and without     *)
(* interleaved subchannel data names the very same place, with the same    *)
(* exception.                                                              *)
THEOREM StatusIsHeard == Spec => []SoundMatchesStatus
<1>1. ASSUME TypeOK, PlayOK, NEW t \in Players, pc[t] = "send", ~raced
      PROVE  /\ Follows(cddaCurOffset, chunk[t])
             /\ ~subChanInterleaved => cddaCurOffset = chunk[t]
  <2>1. Follows(cddaCurOffset, chunk[t])
    BY <1>1 DEF PlayOK, SoundOK
  <2>2. initial_offset \in Nat /\ cddaCurOffset \in Nat /\ chunk[t] \in Nat
    BY <1>1 DEF TypeOK
  <2>. QED  BY <2>1, <2>2, Sizes DEF Follows, CD_FRAMESIZE_RAW
<1>2. TypeOK /\ PlayOK => SoundMatchesStatus
  BY <1>1 DEF SoundMatchesStatus
<1>. QED  BY <1>2, TypeInvariance, PlayInvariance, PTL
=============================================================================
