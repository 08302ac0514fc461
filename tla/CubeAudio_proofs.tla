------------------------- MODULE CubeAudio_proofs -------------------------
(***************************************************************************)
(* Proofs about the audio output, for any number of buffers, any sizes of  *)
(* buffer and of chunk.                                                    *)
(***************************************************************************)
EXTENDS CubeAudio, SequenceTheorems, TLAPS

-----------------------------------------------------------------------------
(* The inductive invariant of a session that began in silence.  Every      *)
(* buffer is in one place: empty, being filled, handed out or playing;     *)
(* audio_free says whether the DMA is idle; the two indices are as far     *)
(* apart as there are buffers handed out.                                  *)
Copying == IF emu = "copy" THEN 1 ELSE 0
Sounding == IF playing = None THEN 0 ELSE 1

Conserved ==
  /\ count["empty"] + Held + Copying + Sounding = N
  /\ count["free"] = 1 - Sounding

Indices ==
  /\ playing # None => thread_buffer = NEXT(playing)
  /\ thread = "free" => dmaAddr = thread_buffer
  /\ \/ which_buffer = thread_buffer + Held
     \/ which_buffer = thread_buffer + Held - N

InSession == alive = Sems /\ ~again /\ emu \in {"idle", "wait", "copy"}

CleanInv == clean => InSession /\ Conserved /\ Indices

(* In any session: a second start is remembered only while a buffer plays. *)
AgainInv == again => playing # None

IInv == TypeOK /\ CleanInv /\ AgainInv

-----------------------------------------------------------------------------
(* The semaphores and the ring's indices.                                  *)

LEMMA PostTypes ==
  ASSUME count \in [Sems -> 0 .. N], NEW S, SemPost(S)
  PROVE  count' \in [Sems -> 0 .. N]
<1> SUFFICES ASSUME NEW s \in Sems
             PROVE  (IF s \in S \cap alive /\ count[s] < MaxCount(s)
                       THEN count[s] + 1 ELSE count[s]) \in 0 .. N
  BY DEF SemPost, Posted
<1>1. N \in Nat \ {0} /\ count[s] \in 0 .. N
  BY AudioAssumption
<1>2. MaxCount(s) <= N /\ MaxCount(s) \in Nat
  BY <1>1 DEF MaxCount
<1> QED
  BY <1>1, <1>2

LEMMA WaitTypes ==
  ASSUME count \in [Sems -> 0 .. N], NEW s \in Sems, SemWait(s)
  PROVE  count' \in [Sems -> 0 .. N]
<1>1. N \in Nat
  BY AudioAssumption
<1>2. CASE UNCHANGED count
  BY <1>2
<1>3. CASE count[s] > 0 /\ count' = [count EXCEPT ![s] = @ - 1]
  <2>1. count[s] - 1 \in 0 .. N
    BY <1>1, <1>3
  <2> QED
    BY <1>3, <2>1
<1> QED
  BY <1>2, <1>3 DEF SemWait

LEMMA NextIndex ==
  ASSUME NEW x \in Buffers
  PROVE  /\ NEXT(x) \in Buffers
         /\ NEXT(x) = x + 1 \/ NEXT(x) = x + 1 - N
  BY AudioAssumption DEF Buffers, NEXT

(* Type correctness.                                                       *)
LEMMA TypeInit == Init => TypeOK
<1> SUFFICES ASSUME Init PROVE TypeOK
  OBVIOUS
<1>1. N \in Nat \ {0} /\ 0 \in Buffers /\ 0 \in 0 .. N /\ 0 \in 0 .. N + 1
  BY AudioAssumption DEF Buffers
<1>2. count \in [Sems -> 0 .. N] /\ content \in [Buffers -> 0 .. N + 1 \union {None}]
  BY <1>1 DEF Init
<1>3. playing \in Buffers \union {None} /\ dmaAddr \in Buffers
  BY <1>1 DEF Init
<1> QED
  BY <1>1, <1>2, <1>3 DEF Init, TypeOK

LEMMA TypeStep == TypeOK /\ [Next]_vars => TypeOK'
<1> SUFFICES ASSUME TypeOK, [Next]_vars PROVE TypeOK'
  OBVIOUS
<1> USE DEF producer, ring, consumer, dma
<1>1. CASE EndDMA
  <2>1. count' \in [Sems -> 0 .. N]
    BY <1>1, PostTypes DEF EndDMA, done_playing, TypeOK
  <2>2. playing' \in Buffers \union {None} /\ again' \in BOOLEAN
    BY <1>1 DEF EndDMA, TypeOK
  <2> QED
    BY <1>1, <2>1, <2>2 DEF EndDMA, TypeOK
<1>2. CASE LoopTest
  BY <1>2 DEF LoopTest, TypeOK
<1>3. CASE TakeFull
  <2>1. count' \in [Sems -> 0 .. N]
    BY <1>3, WaitTypes DEF TakeFull, Sems, TypeOK
  <2> QED
    BY <1>3, <2>1 DEF TakeFull, TypeOK
<1>4. CASE Play
  <2>1. count' \in [Sems -> 0 .. N]
    BY <1>4, WaitTypes DEF Play, Sems, TypeOK
  <2>2. playing' \in Buffers \union {None} /\ again' \in BOOLEAN
    BY <1>4 DEF Play, StartDMA, TypeOK
  <2>3. thread_buffer' \in Buffers
    BY <1>4, NextIndex DEF Play, TypeOK
  <2> QED
    BY <1>4, <2>1, <2>2, <2>3 DEF Play, TypeOK
<1>5. CASE SoundFeedStreamData
  BY <1>5, AudioAssumption DEF SoundFeedStreamData, TypeOK
<1>6. CASE BeginCopy
  <2>1. count' \in [Sems -> 0 .. N]
    BY <1>6, WaitTypes DEF BeginCopy, Sems, TypeOK
  <2>2. content' \in [Buffers -> 0 .. N + 1 \union {None}]
    BY <1>6 DEF BeginCopy, TypeOK
  <2> QED
    BY <1>6, <2>1, <2>2 DEF BeginCopy, TypeOK
<1>7. CASE EndCopy
  <2>1. count' \in [Sems -> 0 .. N]
    BY <1>7, PostTypes DEF EndCopy, PartlyFilled, Filled, TypeOK
  <2>2. rlengthi \in Nat
    BY AudioAssumption DEF TypeOK, rlengthi
  <2>3. CASE PartlyFilled
    <3>1. buffer_offset' \in Nat
      BY <2>2, <2>3, AudioAssumption DEF PartlyFilled, TypeOK
    <3> QED
      BY <1>7, <2>1, <2>3, <3>1 DEF EndCopy, PartlyFilled, TypeOK
  <2>4. CASE Filled
    <3>1. which_buffer' \in Buffers
      BY <2>4, NextIndex DEF Filled, TypeOK
    <3>2. content' \in [Buffers -> 0 .. N + 1 \union {None}]
      BY <2>4 DEF Filled, TypeOK
    <3>3. serial' \in 0 .. N + 1
      BY <2>4, AudioAssumption DEF Filled, TypeOK
    <3>4. rlengthLeft' \in Nat
      BY <2>2, <2>4, AudioAssumption DEF Filled, TypeOK
    <3>5. emu' \in {"wait", "idle"} /\ buffer_offset' = 0
      BY <2>4 DEF Filled
    <3> QED
      BY <1>7, <2>1, <3>1, <3>2, <3>3, <3>4, <3>5 DEF EndCopy, TypeOK
  <2> QED
    BY <1>7, <2>3, <2>4 DEF EndCopy
<1>8. CASE SetupSound
  <2>1. N \in Nat \ {0} /\ 0 \in Buffers /\ 0 \in 0 .. N + 1
    BY AudioAssumption DEF Buffers
  <2>2. count' \in [Sems -> 0 .. N]
    BY <1>8, <2>1 DEF SetupSound, MaxCount
  <2>3. clean' \in BOOLEAN
    BY <1>8 DEF SetupSound
  <2> QED
    BY <1>8, <2>1, <2>2, <2>3 DEF SetupSound, TypeOK
<1>9. CASE RemoveSound
  BY <1>9 DEF RemoveSound, TypeOK
<1>10. CASE StopThread
  BY <1>10 DEF StopThread, TypeOK
<1>11. CASE SemDestroy
  <2>1. alive' \subseteq Sems /\ emu' \in {"join", "remove"}
    BY <1>11 DEF SemDestroy, Sems
  <2> QED
    BY <1>11, <2>1 DEF SemDestroy, TypeOK
<1>12. CASE JoinThread
  BY <1>12 DEF JoinThread, TypeOK
<1>13. CASE UNCHANGED vars
  BY <1>13 DEF vars, TypeOK
<1> QED
  BY <1>1, <1>2, <1>3, <1>4, <1>5, <1>6, <1>7, <1>8, <1>9, <1>10, <1>11, <1>12,
     <1>13 DEF Next

(* Every variable keeps its type, whatever the interleaving.               *)
THEOREM TypeCorrect == Spec => []TypeOK
<1> QED
  BY TypeInit, TypeStep, PTL DEF Spec

-----------------------------------------------------------------------------
(* In a session that began in silence.                                     *)

(* What a post does while no semaphore is destroyed or at its maximum.     *)
LEMMA PostAdds ==
  ASSUME count \in [Sems -> 0 .. N], alive = Sems, NEW S, SemPost(S), NEW s \in Sems
  PROVE  /\ s \notin S => count'[s] = count[s]
         /\ s \in S /\ count[s] < MaxCount(s) => count'[s] = count[s] + 1
  BY DEF SemPost, Posted

(* What getting past a wait does.                                          *)
LEMMA WaitTakes ==
  ASSUME count \in [Sems -> 0 .. N], alive = Sems, NEW s \in Sems, SemWait(s)
  PROVE  /\ count[s] > 0 /\ count'[s] = count[s] - 1
         /\ \A r \in Sems \ {s} : count'[r] = count[r]
  BY DEF SemWait

(* The invariant in numbers, as the provers need it.                       *)
LEMMA Numbers ==
  ASSUME TypeOK
  PROVE  /\ N \in Nat \ {0}
         /\ count["full"] \in 0 .. N /\ count["empty"] \in 0 .. N
         /\ count["free"] \in 0 .. N
         /\ which_buffer \in 0 .. N - 1 /\ thread_buffer \in 0 .. N - 1
  BY AudioAssumption DEF TypeOK, Sems, Buffers

LEMMA AgainStep == IInv /\ [Next]_vars => AgainInv'
<1> SUFFICES ASSUME IInv, [Next]_vars PROVE AgainInv'
  OBVIOUS
<1>1. dmaAddr # None /\ (again => playing # None)
  BY AudioAssumption DEF IInv, TypeOK, AgainInv, Buffers
<1>2. CASE EndDMA
  BY <1>2 DEF EndDMA, AgainInv
<1>3. CASE Play
  BY <1>1, <1>3 DEF Play, StartDMA, AgainInv
<1>4. CASE RemoveSound
  BY <1>4 DEF RemoveSound, AgainInv
<1>5. CASE UNCHANGED dma
  BY <1>1, <1>5 DEF dma, AgainInv
<1>6. ~EndDMA /\ ~Play /\ ~RemoveSound => UNCHANGED dma
  <2> SUFFICES ASSUME ~EndDMA, ~Play, ~RemoveSound PROVE UNCHANGED dma
    OBVIOUS
  <2>1. CASE Next
    BY <2>1 DEF Next, LoopTest, TakeFull, SoundFeedStreamData, BeginCopy, EndCopy,
                SetupSound, StopThread, SemDestroy, JoinThread
  <2>2. CASE UNCHANGED vars
    BY <2>2 DEF vars
  <2> QED
    BY <2>1, <2>2
<1> QED
  BY <1>2, <1>3, <1>4, <1>5, <1>6

LEMMA CleanStep == IInv /\ [Next]_vars => CleanInv'
<1> SUFFICES ASSUME IInv, [Next]_vars, clean' PROVE (InSession /\ Conserved /\ Indices)'
  BY DEF CleanInv
<1>0. TypeOK /\ CleanInv /\ AgainInv /\ N \in Nat \ {0} /\ "full" \in Sems /\ "empty" \in Sems /\ "free" \in Sems
  BY AudioAssumption DEF IInv, Sems
<1>n. /\ count["full"] \in 0 .. N /\ count["empty"] \in 0 .. N
      /\ count["free"] \in 0 .. N /\ count \in [Sems -> 0 .. N]
      /\ which_buffer \in 0 .. N - 1 /\ thread_buffer \in 0 .. N - 1
  BY <1>0, Numbers DEF TypeOK
<1> USE DEF producer, ring, consumer, dma
<1>1. CASE EndDMA
  <2>1. clean /\ InSession /\ Conserved /\ Indices
    BY <1>0, <1>1 DEF EndDMA, CleanInv
  <2>2. playing # None /\ playing' = None /\ again' = FALSE
    BY <1>1, <2>1 DEF EndDMA, InSession
  <2>3. count["empty"] < N /\ count["free"] = 0
    BY <1>n, <2>1, <2>2, <1>0 DEF Conserved, Sounding, Copying, Held
  <2>4. count'["empty"] = count["empty"] + 1 /\ count'["free"] = 1 /\ count'["full"] = count["full"]
    BY <1>0, <1>1, <1>n, <2>1, <2>3, PostAdds DEF EndDMA, done_playing, InSession, MaxCount
  <2>5. Held' = Held /\ Copying' = Copying /\ Sounding' = 0 /\ Sounding = 1
    BY <1>1, <2>2, <2>4 DEF EndDMA, Held, Copying, Sounding
  <2>6. Conserved'
    BY <1>0, <1>n, <2>1, <2>3, <2>4, <2>5 DEF Conserved, Held, Copying
  <2>7. Indices'
    BY <1>1, <2>1, <2>2, <2>5 DEF EndDMA, Indices
  <2>8. InSession'
    BY <1>1, <2>1, <2>2 DEF EndDMA, InSession
  <2> QED
    BY <2>6, <2>7, <2>8
<1>2. CASE LoopTest
  <2>1. clean /\ InSession /\ Conserved /\ Indices
    BY <1>0, <1>2 DEF LoopTest, CleanInv
  <2>2. Held' = Held /\ Copying' = Copying /\ Sounding' = Sounding /\ thread' # "free"
    BY <1>2 DEF LoopTest, Held, Copying, Sounding
  <2> QED
    BY <1>2, <2>1, <2>2 DEF LoopTest, InSession, Conserved, Indices
<1>3. CASE TakeFull
  <2>1. clean /\ InSession /\ Conserved /\ Indices
    BY <1>0, <1>3 DEF TakeFull, CleanInv
  <2>2. /\ count'["full"] = count["full"] - 1
        /\ count'["empty"] = count["empty"] /\ count'["free"] = count["free"]
    BY <1>0, <1>3, <1>n, <2>1, WaitTakes DEF TakeFull, InSession
  <2>3. Held' = Held /\ Copying' = Copying /\ Sounding' = Sounding
    BY <1>3, <1>n, <2>2 DEF TakeFull, Held, Copying, Sounding
  <2>4. Conserved'
    BY <2>1, <2>2, <2>3 DEF Conserved
  <2>5. Indices' /\ InSession'
    BY <1>3, <2>1, <2>3 DEF TakeFull, Indices, InSession
  <2> QED
    BY <2>4, <2>5
<1>4. CASE Play
  <2>1. clean /\ InSession /\ Conserved /\ Indices
    BY <1>0, <1>4 DEF Play, CleanInv
  <2>2. /\ count["free"] > 0 /\ count'["free"] = count["free"] - 1
        /\ count'["empty"] = count["empty"] /\ count'["full"] = count["full"]
    BY <1>0, <1>4, <1>n, <2>1, WaitTakes DEF Play, InSession
  <2>3. playing = None
    BY <1>n, <2>1, <2>2 DEF Conserved, Sounding
  <2>4. playing' = thread_buffer /\ again' = again
    BY <1>4, <2>1, <2>3 DEF Play, StartDMA, Indices
  <2>5. playing' # None
    BY <1>n, <2>4, AudioAssumption
  <2>6. Sounding' = 1 /\ Sounding = 0 /\ Held' = Held - 1 /\ Copying' = Copying
    BY <1>4, <1>n, <2>2, <2>3, <2>5 DEF Play, Held, Copying, Sounding
  <2>7. Conserved'
    BY <1>0, <1>n, <2>1, <2>2, <2>6 DEF Conserved, Held, Copying
  <2>8. thread_buffer' = NEXT(thread_buffer) /\ which_buffer' = which_buffer /\ thread' = "loop"
    BY <1>4 DEF Play
  <2>9. NEXT(thread_buffer) = thread_buffer + 1 \/ NEXT(thread_buffer) = thread_buffer + 1 - N
    BY <1>n, NextIndex DEF Buffers
  <2>10. Held \in 1 .. N
    BY <1>0, <1>4, <1>n, <2>1 DEF Play, Held, Conserved, Copying, Sounding
  <2>11. NEXT(thread_buffer) \in 0 .. N - 1
    BY <1>n, NextIndex DEF Buffers
  <2>12. \/ which_buffer' = thread_buffer' + Held'
         \/ which_buffer' = thread_buffer' + Held' - N
    BY <1>0, <1>n, <2>1, <2>6, <2>8, <2>9, <2>10, <2>11 DEF Indices
  <2>13. Indices'
    BY <2>4, <2>8, <2>12 DEF Indices
  <2>14. InSession'
    BY <1>4, <2>1, <2>4 DEF Play, InSession
  <2> QED
    BY <2>7, <2>13, <2>14
<1>5. CASE SoundFeedStreamData
  <2>1. clean /\ InSession /\ Conserved /\ Indices
    BY <1>0, <1>5 DEF SoundFeedStreamData, CleanInv
  <2>2. Held' = Held /\ Copying' = Copying /\ Sounding' = Sounding
    BY <1>5 DEF SoundFeedStreamData, Held, Copying, Sounding
  <2> QED
    BY <1>5, <2>1, <2>2 DEF SoundFeedStreamData, InSession, Conserved, Indices
<1>6. CASE BeginCopy
  <2>1. clean /\ InSession /\ Conserved /\ Indices
    BY <1>0, <1>6 DEF BeginCopy, CleanInv
  <2>2. /\ count'["empty"] = count["empty"] - 1
        /\ count'["full"] = count["full"] /\ count'["free"] = count["free"]
    BY <1>0, <1>6, <1>n, <2>1, WaitTakes DEF BeginCopy, InSession
  <2>3. Held' = Held /\ Copying' = 1 /\ Copying = 0 /\ Sounding' = Sounding
    BY <1>6, <2>2 DEF BeginCopy, Held, Copying, Sounding
  <2>4. Conserved'
    BY <1>0, <1>n, <2>1, <2>2, <2>3 DEF Conserved, Held, Sounding
  <2>5. Indices' /\ InSession'
    BY <1>6, <2>1, <2>3 DEF BeginCopy, Indices, InSession
  <2> QED
    BY <2>4, <2>5
<1>7. CASE EndCopy
  <2>1. clean /\ InSession /\ Conserved /\ Indices
    BY <1>0, <1>7 DEF EndCopy, CleanInv
  <2>2. Copying = 1 /\ Copying' = 0 /\ Sounding' = Sounding
    BY <1>7 DEF EndCopy, PartlyFilled, Filled, Copying, Sounding
  <2>3. count["empty"] < N /\ count["full"] < N
    BY <1>0, <1>n, <2>1, <2>2 DEF Conserved, Held, Sounding
  <2>4. InSession'
    BY <1>7, <2>1 DEF EndCopy, PartlyFilled, Filled, InSession
  <2>5. CASE PartlyFilled
    <3>1. /\ count'["empty"] = count["empty"] + 1
          /\ count'["full"] = count["full"] /\ count'["free"] = count["free"]
      BY <1>0, <1>n, <2>1, <2>3, <2>5, PostAdds DEF PartlyFilled, InSession, MaxCount
    <3>2. Held' = Held
      BY <1>7, <3>1 DEF EndCopy, Held
    <3>3. Conserved'
      BY <1>0, <1>n, <2>1, <2>2, <3>1, <3>2 DEF Conserved, Held, Sounding
    <3>4. Indices'
      BY <1>7, <2>1, <2>5, <3>2 DEF EndCopy, PartlyFilled, Indices
    <3> QED
      BY <2>4, <3>3, <3>4
  <2>6. CASE Filled
    <3>1. /\ count'["full"] = count["full"] + 1
          /\ count'["empty"] = count["empty"] /\ count'["free"] = count["free"]
      BY <1>0, <1>n, <2>1, <2>3, <2>6, PostAdds DEF Filled, InSession, MaxCount
    <3>2. Held' = Held + 1
      BY <1>7, <1>n, <3>1 DEF EndCopy, Held
    <3>3. Conserved'
      BY <1>0, <1>n, <2>1, <2>2, <3>1, <3>2 DEF Conserved, Held, Sounding
    <3>4. Held \in 0 .. N - 1
      BY <1>0, <1>n, <2>1, <2>2 DEF Conserved, Held, Sounding
    <3>5. /\ NEXT(which_buffer) \in 0 .. N - 1
          /\ NEXT(which_buffer) = which_buffer + 1 \/ NEXT(which_buffer) = which_buffer + 1 - N
      BY <1>n, NextIndex DEF Buffers
    <3>6. which_buffer' = NEXT(which_buffer) /\ thread_buffer' = thread_buffer
      BY <1>7, <2>6 DEF EndCopy, Filled
    <3>7. \/ which_buffer' = thread_buffer' + Held'
          \/ which_buffer' = thread_buffer' + Held' - N
      BY <1>0, <1>n, <2>1, <3>2, <3>4, <3>5, <3>6 DEF Indices
    <3>8. Indices'
      BY <1>7, <2>1, <3>7 DEF EndCopy, Indices
    <3> QED
      BY <2>4, <3>3, <3>8
  <2> QED
    BY <1>7, <2>5, <2>6 DEF EndCopy
<1>8. CASE SetupSound
  <2>1. playing' = None /\ ~again' /\ emu' = "idle" /\ alive' = Sems /\ thread' = "loop"
    BY <1>0, <1>8 DEF SetupSound, AgainInv
  <2>2. count'["full"] = 0 /\ count'["empty"] = N /\ count'["free"] = 1
    BY <1>0, <1>8 DEF SetupSound, MaxCount
  <2> QED
    BY <1>0, <1>8, <2>1, <2>2
       DEF SetupSound, InSession, Conserved, Indices, Held, Copying, Sounding
<1>9. CASE RemoveSound
  BY <1>9 DEF RemoveSound
<1>10. CASE StopThread
  BY <1>0, <1>10 DEF StopThread, CleanInv, InSession
<1>11. CASE SemDestroy
  BY <1>0, <1>11 DEF SemDestroy, CleanInv, InSession
<1>12. CASE JoinThread
  BY <1>0, <1>12 DEF JoinThread, CleanInv, InSession
<1>13. CASE UNCHANGED vars
  BY <1>0, <1>13 DEF vars, CleanInv, InSession, Conserved, Indices, Held, Copying, Sounding
<1> QED
  BY <1>1, <1>2, <1>3, <1>4, <1>5, <1>6, <1>7, <1>8, <1>9, <1>10, <1>11, <1>12,
     <1>13 DEF Next

LEMMA InitInvariant == Init => IInv
<1> SUFFICES ASSUME Init PROVE IInv
  OBVIOUS
<1>1. TypeOK
  BY TypeInit
<1>2. CleanInv /\ AgainInv
  BY DEF Init, CleanInv, AgainInv
<1> QED
  BY <1>1, <1>2 DEF IInv

LEMMA Invariance == IInv /\ [Next]_vars => IInv'
  BY TypeStep, CleanStep, AgainStep DEF IInv

(* The buffers handed out are not the one to be filled, nor is the playing *)
(* one: their distance from it in the ring is less than N.                 *)
LEMMA BufferIsFree ==
  ASSUME IInv, clean, Held + Sounding <= N - 1
  PROVE  which_buffer # playing /\ \A i \in 1 .. Held : which_buffer # HandedOut(i)
<1>1. /\ Indices /\ N \in Nat \ {0}
      /\ count["full"] \in 0 .. N
      /\ which_buffer \in 0 .. N - 1 /\ thread_buffer \in 0 .. N - 1
  BY Numbers DEF IInv, CleanInv
<1>2. Held \in Nat /\ Sounding \in {0, 1}
  BY <1>1 DEF Held, Sounding
<1>3. ASSUME NEW i \in 1 .. Held PROVE which_buffer # HandedOut(i)
  BY <1>1, <1>2, <1>3 DEF HandedOut, Indices
<1>4. which_buffer # playing
  <2>1. SUFFICES ASSUME which_buffer = playing PROVE FALSE
    OBVIOUS
  <2>2. playing # None /\ Sounding = 1
    BY <1>1, <2>1, AudioAssumption DEF Sounding
  <2>3. thread_buffer = NEXT(which_buffer)
    BY <1>1, <2>1, <2>2 DEF Indices
  <2>4. thread_buffer = which_buffer + 1 \/ thread_buffer = which_buffer + 1 - N
    BY <1>1, <2>3, NextIndex DEF Buffers
  <2> QED
    BY <1>1, <1>2, <2>2, <2>4 DEF Indices
<1> QED
  BY <1>3, <1>4

LEMMA InvariantImplies == IInv => NotFilledWhilePlaying
<1> SUFFICES ASSUME IInv, clean, emu = "copy"
             PROVE  which_buffer # playing /\ \A i \in 1 .. Held : which_buffer # HandedOut(i)
  BY DEF NotFilledWhilePlaying
<1>1. Held + Sounding <= N - 1
  BY Numbers DEF IInv, CleanInv, Conserved, Copying, Held, Sounding
<1> QED
  BY <1>1, BufferIsFree

(* No buffer is filled while it plays or waits to be played.               *)
THEOREM NotFilled == Spec => []NotFilledWhilePlaying
<1> QED
  BY InitInvariant, Invariance, InvariantImplies, PTL DEF Spec

-----------------------------------------------------------------------------
(* The ring implements a queue.                                            *)

LEMMA FunctionIsSeq ==
  ASSUME NEW S, NEW n \in Nat, NEW s \in [1 .. n -> S]
  PROVE  s \in Seq(S) /\ Len(s) = n
<1>1. s \in Seq(S)
  BY SeqDef
<1>2. DOMAIN s = 1 .. n /\ DOMAIN s = 1 .. Len(s) /\ Len(s) \in Nat
  BY <1>1, LenProperties
<1> QED
  BY <1>1, <1>2

LEMMA AppendIs ==
  ASSUME NEW S, NEW n \in Nat, NEW s \in [1 .. n -> S], NEW t \in [1 .. n + 1 -> S],
         \A i \in 1 .. n : t[i] = s[i]
  PROVE  t = Append(s, t[n + 1])
<1>1. s \in Seq(S) /\ Len(s) = n /\ t \in Seq(S) /\ Len(t) = n + 1
  BY FunctionIsSeq
<1>2. t[n + 1] \in S
  OBVIOUS
<1>3. /\ Append(s, t[n + 1]) \in Seq(S)
      /\ Len(Append(s, t[n + 1])) = n + 1
      /\ \A i \in 1 .. n + 1 : Append(s, t[n + 1])[i] = IF i <= n THEN s[i] ELSE t[n + 1]
  BY <1>1, <1>2, AppendProperties
<1>4. \A i \in 1 .. n + 1 : Append(s, t[n + 1])[i] = t[i]
  BY <1>3
<1> QED
  BY <1>1, <1>3, <1>4, SeqEqual

LEMMA TailIs ==
  ASSUME NEW S, NEW n \in Nat \ {0}, NEW s \in [1 .. n -> S], NEW t \in [1 .. n - 1 -> S],
         \A i \in 1 .. n - 1 : t[i] = s[i + 1]
  PROVE  s # <<>> /\ t = Tail(s) /\ Head(s) = s[1]
<1>1. s \in Seq(S) /\ Len(s) = n /\ t \in Seq(S) /\ Len(t) = n - 1
  BY FunctionIsSeq
<1>2. s # <<>>
  BY <1>1, EmptySeq
<1>3. /\ Tail(s) \in Seq(S) /\ Len(Tail(s)) = n - 1
      /\ \A i \in 1 .. n - 1 : Tail(s)[i] = s[i + 1]
  BY <1>1, <1>2, HeadTailProperties
<1>4. t = Tail(s)
  BY <1>1, <1>3, SeqEqual
<1>5. Head(s) = s[1]
  BY <1>1, <1>2
<1> QED
  BY <1>2, <1>4, <1>5

(* The abstract queue and what it plays.                                   *)
QueueOf == [i \in 1 .. Held |-> content[HandedOut(i)]]
PlayingOf == IF playing = None THEN None ELSE content[playing]
Blocks == 0 .. N + 1 \union {None}

LEMMA QueueType ==
  ASSUME IInv, clean
  PROVE  /\ N \in Nat \ {0} /\ Held \in 0 .. N
         /\ thread_buffer \in 0 .. N - 1 /\ which_buffer \in 0 .. N - 1
         /\ \A i \in 1 .. N : HandedOut(i) \in 0 .. N - 1
         /\ content \in [0 .. N - 1 -> Blocks]
         /\ QueueOf \in [1 .. Held -> Blocks]
<1>1. /\ N \in Nat \ {0} /\ count["full"] \in 0 .. N /\ count["empty"] \in 0 .. N
      /\ which_buffer \in 0 .. N - 1 /\ thread_buffer \in 0 .. N - 1
  BY Numbers DEF IInv
<1>2. Held \in 0 .. N
  BY <1>1 DEF IInv, CleanInv, Conserved, Held, Copying, Sounding
<1>3. \A i \in 1 .. N : HandedOut(i) \in 0 .. N - 1
  BY <1>1 DEF HandedOut
<1>4. content \in [0 .. N - 1 -> Blocks]
  BY DEF IInv, TypeOK, Buffers, Blocks
<1>5. QueueOf \in [1 .. Held -> Blocks]
  BY <1>1, <1>2, <1>3, <1>4 DEF QueueOf
<1> QED
  BY <1>1, <1>2, <1>3, <1>4, <1>5

(* A step that moves no block is none of the queue.                        *)
LEMMA SameQueue ==
  ASSUME Held' = Held, thread_buffer' = thread_buffer, serial' = serial,
         PlayingOf' = PlayingOf,
         \A i \in 1 .. Held : content'[HandedOut(i)] = content[HandedOut(i)]
  PROVE  [Queue!Next]_Queue!vars
<1>1. \A i \in 1 .. Held : HandedOut(i)' = HandedOut(i)
  BY DEF HandedOut
<1>2. QueueOf' = QueueOf
  BY <1>1 DEF QueueOf
<1> QED
  BY <1>2 DEF Queue!vars, QueueOf, PlayingOf

(* A buffer that is filled is the last of the queue.                       *)
LEMMA FilledHandsOut ==
  ASSUME IInv, clean, EndCopy, Filled
  PROVE  Queue!HandOut
<1>1. /\ N \in Nat \ {0} /\ Held \in 0 .. N - 1
      /\ which_buffer \in 0 .. N - 1 /\ thread_buffer \in 0 .. N - 1
      /\ content \in [0 .. N - 1 -> Blocks]
      /\ QueueOf \in [1 .. Held -> Blocks]
      /\ \A i \in 1 .. N : HandedOut(i) \in 0 .. N - 1
  <2>1. Held # N
    BY Numbers DEF IInv, CleanInv, Conserved, Held, Copying, Sounding, EndCopy
  <2> QED
    BY <2>1, QueueType
<1>2. which_buffer # playing /\ \A i \in 1 .. Held : which_buffer # HandedOut(i)
  BY InvariantImplies DEF NotFilledWhilePlaying, EndCopy
<1>3. Held' = Held + 1
  <2>1. count \in [Sems -> 0 .. N] /\ alive = Sems /\ "full" \in Sems
    BY DEF IInv, TypeOK, CleanInv, InSession, Sems
  <2>2. count["full"] < MaxCount("full") /\ count["full"] \in 0 .. N
    BY <1>1, Numbers DEF IInv, Held, MaxCount
  <2>3. count'["full"] = count["full"] + 1
    BY <2>1, <2>2, PostAdds DEF Filled
  <2> QED
    BY <1>1, <2>2, <2>3 DEF EndCopy, consumer, Held
<1>4. HandedOut(Held + 1) = which_buffer
  BY <1>1 DEF HandedOut, IInv, CleanInv, Indices
<1>5. /\ content' = [content EXCEPT ![which_buffer] = serial]
      /\ serial \in 0 .. N + 1
  BY DEF Filled, IInv, TypeOK
<1>6. \A i \in 1 .. Held + 1 : HandedOut(i)' = HandedOut(i)
  BY DEF EndCopy, consumer, HandedOut
<1>7. QueueOf' = [i \in 1 .. Held + 1 |-> content'[HandedOut(i)]]
  BY <1>3, <1>6 DEF QueueOf
<1>8. /\ QueueOf' \in [1 .. Held + 1 -> Blocks]
      /\ QueueOf'[Held + 1] = serial
      /\ \A i \in 1 .. Held : QueueOf'[i] = QueueOf[i]
  <2>1. content' \in [0 .. N - 1 -> Blocks]
    BY <1>1, <1>5 DEF Blocks
  <2>2. QueueOf' \in [1 .. Held + 1 -> Blocks]
    BY <1>1, <1>7, <2>1
  <2>3. QueueOf'[Held + 1] = serial
    BY <1>1, <1>4, <1>5, <1>7
  <2>4. ASSUME NEW i \in 1 .. Held PROVE QueueOf'[i] = QueueOf[i]
    <3>1. i \in 1 .. N /\ i \in 1 .. Held + 1
      BY <1>1, <2>4
    <3>2. content'[HandedOut(i)] = content[HandedOut(i)]
      BY <1>1, <1>2, <1>5, <2>4, <3>1
    <3>3. QueueOf[i] = content[HandedOut(i)]
      BY <2>4 DEF QueueOf
    <3> QED
      BY <1>7, <3>1, <3>2, <3>3
  <2> QED
    BY <2>2, <2>3, <2>4
<1>9. QueueOf' = Append(QueueOf, serial)
  <2>1. Held \in Nat
    BY <1>1
  <2> QED
    BY <1>1, <1>8, <2>1, AppendIs
<1>10. PlayingOf' = PlayingOf
  <2>1. UNCHANGED playing /\ playing \in Buffers \union {None}
    BY DEF EndCopy, dma, IInv, TypeOK
  <2> QED
    BY <1>1, <1>2, <1>5, <2>1 DEF PlayingOf, Buffers
<1>11. serial' = Queue!After(serial)
  BY <1>1, <1>5 DEF Filled, Queue!After
<1> QED
  BY <1>9, <1>10, <1>11 DEF Queue!HandOut, QueueOf, PlayingOf

(* The audio thread plays the first of the queue.                          *)
LEMMA PlayStarts ==
  ASSUME IInv, clean, Play
  PROVE  Queue!Start
<1>1. /\ N \in Nat \ {0} /\ Held \in 1 .. N
      /\ thread_buffer \in 0 .. N - 1
      /\ content \in [0 .. N - 1 -> Blocks]
      /\ QueueOf \in [1 .. Held -> Blocks]
      /\ \A i \in 1 .. N : HandedOut(i) \in 0 .. N - 1
  <2>1. Held # 0
    BY Numbers DEF IInv, Held, Play
  <2> QED
    BY <2>1, QueueType
<1>2. /\ count["full"] \in 0 .. N /\ count'["full"] = count["full"]
      /\ count["free"] > 0 /\ count["free"] \in 0 .. N
  <2>1. count \in [Sems -> 0 .. N] /\ alive = Sems /\ "full" \in Sems /\ "free" \in Sems
    BY DEF IInv, TypeOK, CleanInv, InSession, Sems
  <2> QED
    BY <2>1, WaitTakes DEF Play
<1>3. playing = None /\ playing' = thread_buffer
  <2>1. playing = None
    BY <1>2 DEF IInv, CleanInv, Conserved, Sounding
  <2> QED
    BY <2>1 DEF Play, StartDMA, IInv, CleanInv, Indices
<1>4. Held' = Held - 1
  BY <1>2 DEF Play, Held
<1>5. content' = content /\ serial' = serial
  BY DEF Play, producer
<1>6. \A i \in 1 .. Held - 1 : HandedOut(i)' = HandedOut(i + 1)
  <2>1. thread_buffer' = NEXT(thread_buffer)
    BY DEF Play
  <2> QED
    BY <1>1, <2>1 DEF HandedOut, NEXT
<1>7. QueueOf' = [i \in 1 .. Held - 1 |-> content[HandedOut(i + 1)]]
  BY <1>4, <1>5, <1>6 DEF QueueOf
<1>8. /\ QueueOf' \in [1 .. Held - 1 -> Blocks]
      /\ \A i \in 1 .. Held - 1 : QueueOf'[i] = QueueOf[i + 1]
  <2>1. ASSUME NEW i \in 1 .. Held - 1
        PROVE  content[HandedOut(i + 1)] \in Blocks /\ i + 1 \in 1 .. Held
    BY <1>1, <2>1
  <2>2. QueueOf' \in [1 .. Held - 1 -> Blocks]
    BY <1>7, <2>1
  <2>3. ASSUME NEW i \in 1 .. Held - 1 PROVE QueueOf'[i] = QueueOf[i + 1]
    BY <1>7, <2>1, <2>3 DEF QueueOf
  <2> QED
    BY <2>2, <2>3
<1>9. QueueOf # <<>> /\ QueueOf' = Tail(QueueOf) /\ Head(QueueOf) = QueueOf[1]
  <2>1. Held \in Nat \ {0}
    BY <1>1
  <2> QED
    BY <1>1, <1>8, <2>1, TailIs
<1>10. HandedOut(1) = thread_buffer /\ QueueOf[1] = content[thread_buffer]
  BY <1>1 DEF HandedOut, QueueOf
<1>11. PlayingOf = None /\ PlayingOf' = Head(QueueOf)
  <2>1. thread_buffer # None
    BY <1>1, AudioAssumption
  <2> QED
    BY <1>3, <1>5, <1>9, <1>10, <2>1 DEF PlayingOf
<1> QED
  BY <1>5, <1>9, <1>11 DEF Queue!Start, QueueOf, PlayingOf

LEMMA RefinementStep == IInv /\ [Next]_vars /\ clean /\ clean' => [Queue!Next]_Queue!vars
<1> SUFFICES ASSUME IInv, [Next]_vars, clean, clean' PROVE [Queue!Next]_Queue!vars
  OBVIOUS
<1> USE DEF producer, ring, consumer, dma
<1>0. count \in [Sems -> 0 .. N] /\ alive = Sems /\ "full" \in Sems /\ "empty" \in Sems
  BY DEF IInv, TypeOK, CleanInv, InSession, Sems
<1>1. CASE EndDMA
  <2>1. playing # None /\ playing' = None
    BY <1>1 DEF EndDMA, IInv, CleanInv, InSession
  <2>2. Held' = Held
    <3>1. "full" \notin {"empty", "free"}
      OBVIOUS
    <3>2. count'["full"] = count["full"]
      BY <1>0, <1>1, <3>1, PostAdds DEF EndDMA, done_playing
    <3> QED
      BY <1>1, <3>2 DEF EndDMA, Held
  <2>3. UNCHANGED <<serial, content, thread_buffer>>
    BY <1>1 DEF EndDMA
  <2>4. \A i \in 1 .. Held : HandedOut(i)' = HandedOut(i)
    BY <2>3 DEF HandedOut
  <2>5. QueueOf' = QueueOf
    BY <2>2, <2>3, <2>4 DEF QueueOf
  <2>6. PlayingOf' = None
    BY <2>1 DEF PlayingOf
  <2>7. CASE PlayingOf = None
    BY <2>3, <2>5, <2>6, <2>7 DEF Queue!vars, QueueOf, PlayingOf
  <2>8. CASE PlayingOf # None
    BY <2>3, <2>5, <2>6, <2>8 DEF Queue!Next, Queue!End, QueueOf, PlayingOf
  <2> QED
    BY <2>7, <2>8
<1>2. CASE Play
  BY <1>2, PlayStarts DEF Queue!Next
<1>3. CASE EndCopy /\ Filled
  BY <1>3, FilledHandsOut DEF Queue!Next
<1>4. CASE EndCopy /\ PartlyFilled
  <2>1. "full" \notin {"empty"}
    OBVIOUS
  <2>2. count'["full"] = count["full"]
    BY <1>0, <1>4, <2>1, PostAdds DEF PartlyFilled
  <2>3. Held' = Held /\ PlayingOf' = PlayingOf
    BY <1>4, <2>2 DEF EndCopy, PartlyFilled, Held, PlayingOf
  <2> QED
    BY <1>4, <2>3, SameQueue DEF EndCopy, PartlyFilled
<1>5. CASE BeginCopy
  <2>1. count["empty"] > 0 /\ count'["full"] = count["full"]
    BY <1>0, <1>5, WaitTakes DEF BeginCopy
  <2>2. Held + Sounding <= N - 1
    BY <1>5, <2>1, Numbers DEF BeginCopy, IInv, CleanInv, Conserved, Copying, Held, Sounding
  <2>3. which_buffer # playing /\ \A i \in 1 .. Held : which_buffer # HandedOut(i)
    BY <2>2, BufferIsFree
  <2>4. /\ content' = [content EXCEPT ![which_buffer] = None]
        /\ UNCHANGED <<thread, thread_buffer, serial, playing>>
    BY <1>5 DEF BeginCopy
  <2>5. Held' = Held
    BY <2>1, <2>4 DEF Held
  <2>6. /\ content \in [Buffers -> Blocks] /\ playing \in Buffers \union {None}
        /\ \A i \in 1 .. Held : HandedOut(i) \in Buffers
    BY QueueType DEF IInv, TypeOK, Blocks, Buffers
  <2>7. PlayingOf' = PlayingOf
    BY <2>3, <2>4, <2>6 DEF PlayingOf
  <2>8. \A i \in 1 .. Held : content'[HandedOut(i)] = content[HandedOut(i)]
    BY <2>3, <2>4, <2>6
  <2> QED
    BY <2>4, <2>5, <2>7, <2>8, SameQueue
<1>6. CASE TakeFull
  <2>1. count["full"] > 0 /\ count'["full"] = count["full"] - 1
    BY <1>0, <1>6, WaitTakes DEF TakeFull
  <2>2. Held' = Held
    BY <1>6, <2>1, Numbers DEF TakeFull, Held, IInv
  <2>3. PlayingOf' = PlayingOf
    BY <1>6 DEF TakeFull, PlayingOf
  <2> QED
    BY <1>6, <2>2, <2>3, SameQueue DEF TakeFull
<1>7. CASE LoopTest \/ SoundFeedStreamData \/ UNCHANGED vars
  <2>1. Held' = Held /\ UNCHANGED <<thread_buffer, serial, content, playing>>
    BY <1>7 DEF LoopTest, SoundFeedStreamData, vars, Held
  <2>2. PlayingOf' = PlayingOf
    BY <2>1 DEF PlayingOf
  <2> QED
    BY <2>1, <2>2, SameQueue
<1>8. ~SetupSound /\ ~RemoveSound /\ ~StopThread /\ ~SemDestroy /\ ~JoinThread
  BY DEF IInv, CleanInv, InSession, SetupSound, RemoveSound, StopThread, SemDestroy,
         JoinThread
<1> QED
  BY <1>1, <1>2, <1>3, <1>4, <1>5, <1>6, <1>7, <1>8 DEF Next, EndCopy

(* A session begins as the queue does.                                     *)
LEMMA RefinementInit == IInv /\ [Next]_vars /\ ~clean /\ clean' => Queue!Init'
<1> SUFFICES ASSUME IInv, [Next]_vars, ~clean, clean' PROVE Queue!Init'
  OBVIOUS
<1>1. SetupSound
  BY DEF Next, vars, producer, EndDMA, LoopTest, TakeFull, Play, SoundFeedStreamData,
         BeginCopy, EndCopy, RemoveSound, StopThread, SemDestroy, JoinThread
<1>2. serial' = 0 /\ playing' = None
  BY <1>1 DEF SetupSound, dma
<1>3. Held' = 0
  BY <1>1 DEF SetupSound, Held, Sems
<1>4. QueueOf' = <<>>
  <2>1. QueueOf' = [i \in 1 .. 0 |-> content'[HandedOut(i)']]
    BY <1>3 DEF QueueOf
  <2>2. QueueOf' \in [1 .. 0 -> {}]
    BY <2>1
  <2>3. QueueOf' \in Seq({}) /\ Len(QueueOf') = 0
    BY <2>2, FunctionIsSeq
  <2> QED
    BY <2>3, EmptySeq
<1> QED
  BY <1>2, <1>4 DEF Queue!Init, QueueOf

(* Every step of the ring, the semaphores and the DMA is a step of the     *)
(* abstract queue or leaves it as it is.                                   *)
THEOREM Refinement == Spec => RefinesQueue
<1>1. IInv /\ [Next]_vars =>
        [/\ clean /\ clean' => [Queue!Next]_Queue!vars
         /\ ~clean /\ clean' => Queue!Init']_vars
  BY RefinementStep, RefinementInit
<1> QED
  BY <1>1, InitInvariant, Invariance, PTL DEF Spec, RefinesQueue

=============================================================================
