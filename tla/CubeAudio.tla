----------------------------- MODULE CubeAudio -----------------------------
(***************************************************************************)
(* The audio output of the Wii port (src/Gamecube/SPU/cube_audio.cpp, with *)
(* THREADED_AUDIO).  The emulator's thread resamples sound into a ring of  *)
(* buffers; the audio thread hands full buffers to the audio DMA; the      *)
(* DMA's interrupt calls done_playing.  Three semaphores tie them.         *)
(*                                                                         *)
(* Sizes are in samples after resampling.  The semaphores, threads and DMA *)
(* are libogc's and the console's: a semaphore saturates at its maximum,   *)
(* destroying one releases the thread that waits for it with an error the  *)
(* code ignores, and a buffer is played once for each AUDIO_StartDMA.      *)
(***************************************************************************)
EXTENDS Integers, Sequences

CONSTANTS
  N,            \* NUM_BUFFERS
  BufferSizes,  \* the values of buffer_size: PAL's and NTSC's
  Chunks,       \* the lengths SoundFeedStreamData is called with
  Width,        \* the samples that 2^32 bytes hold
  SampleSize,   \* the bytes of a sample: 2 or 4
  None          \* no buffer

ASSUME AudioAssumption ==
  /\ N \in Nat \ {0}
  /\ BufferSizes \subseteq Nat \ {0} /\ Chunks \subseteq Nat \ {0}
  /\ Width \in Nat \ {0} /\ SampleSize \in Nat \ {0} /\ None \notin Int

Buffers == 0 .. N - 1
Sems == {"full", "empty", "free"}

VARIABLES
  count,          \* of each semaphore: buffer_full, buffer_empty, audio_free
  alive,          \* the semaphores that are not destroyed
  which_buffer,   \* the buffer being filled
  buffer_offset,  \* how much of it is filled
  buffer_size,
  thread_buffer,  \* the buffer the audio thread plays next
  thread_running,
  emu,            \* the emulator's thread: where it is
  rlengthLeft,    \* and what add_to_buffer has still to copy
  thread,         \* the audio thread: where it is
  dmaAddr,        \* the DMA's address register
  playing,        \* the buffer being played
  again,          \* AUDIO_StartDMA was called while a buffer was playing
  content,        \* history: the serial number of each full buffer
  serial,         \* history: that of the buffer being filled
  clean           \* history: in a session that began with nothing playing

ring == <<which_buffer, buffer_offset, buffer_size>>
producer == <<ring, emu, rlengthLeft, content, serial, clean>>
consumer == <<thread, thread_buffer, dmaAddr>>
dma == <<playing, again>>
vars == <<count, alive, producer, consumer, thread_running, dma>>

-----------------------------------------------------------------------------
(* libogc's semaphores.  SemWait(s) is the step that gets past the call.   *)

MaxCount(s) == IF s = "free" THEN 1 ELSE N

Posted(c, S) ==
  [s \in Sems |-> IF s \in S \cap alive /\ c[s] < MaxCount(s) THEN c[s] + 1 ELSE c[s]]

SemPost(S) == count' = Posted(count, S)

SemWait(s) ==
  \/ s \notin alive /\ UNCHANGED count
  \/ s \in alive /\ count[s] > 0 /\ count' = [count EXCEPT ![s] = @ - 1]

(* #define NEXT                                                            *)
NEXT(x) == IF x = N - 1 THEN 0 ELSE x + 1

-----------------------------------------------------------------------------
(* The audio DMA.                                                          *)

StartDMA ==
  IF playing = None THEN playing' = dmaAddr /\ UNCHANGED again
                    ELSE again' = TRUE /\ UNCHANGED playing

done_playing == SemPost({"empty", "free"})

(* A buffer has been played.                                               *)
EndDMA ==
  /\ playing # None
  /\ playing' = IF again THEN dmaAddr ELSE None
  /\ again' = FALSE
  /\ done_playing
  /\ UNCHANGED <<alive, producer, consumer, thread_running>>

-----------------------------------------------------------------------------
(* play_buffer, the audio thread.                                          *)

LoopTest ==
  /\ thread = "loop"
  /\ thread' = IF thread_running THEN "full" ELSE "exited"
  /\ UNCHANGED <<count, alive, producer, thread_buffer, dmaAddr, thread_running, dma>>

(* A full buffer: its address goes to the DMA.                             *)
TakeFull ==
  /\ thread = "full" /\ SemWait("full")
  /\ dmaAddr' = thread_buffer
  /\ thread' = "free"
  /\ UNCHANGED <<alive, producer, thread_buffer, thread_running, dma>>

(* Variant: the thread does not wait for the DMA.                          *)
PlayAtOnce ==
  /\ thread = "free" /\ UNCHANGED count
  /\ StartDMA
  /\ thread_buffer' = NEXT(thread_buffer) /\ thread' = "loop"
  /\ UNCHANGED <<alive, producer, dmaAddr, thread_running>>

Play ==
  /\ thread = "free" /\ SemWait("free")
  /\ StartDMA
  /\ thread_buffer' = NEXT(thread_buffer) /\ thread' = "loop"
  /\ UNCHANGED <<alive, producer, dmaAddr, thread_running>>

PlayBuffer == LoopTest \/ TakeFull \/ Play

-----------------------------------------------------------------------------
(* add_to_buffer, on the emulator's thread.                                *)

SoundFeedStreamData ==
  /\ emu = "idle"
  /\ \E n \in Chunks : rlengthLeft' = n
  /\ emu' = "wait"
  /\ UNCHANGED <<count, alive, ring, content, serial, clean, consumer, thread_running, dma>>

(* How far the buffer would be filled.  Offsets are unsigned numbers of    *)
(* bytes, which wrap at Width samples; rlengthLeft is an unsigned number   *)
(* of samples.                                                             *)
FilledTo == (buffer_offset + rlengthLeft) % Width

(* rlengthi: what fits.                                                    *)
rlengthi ==
  IF FilledTo <= buffer_size
    THEN rlengthLeft ELSE (buffer_size - buffer_offset) % Width

(* Variant: the copy does not wait for a buffer to be empty.               *)
CopyAtOnce ==
  /\ emu = "wait" /\ UNCHANGED count
  /\ content' = [content EXCEPT ![which_buffer] = None]
  /\ emu' = "copy"
  /\ UNCHANGED <<alive, ring, rlengthLeft, serial, clean, consumer, thread_running, dma>>

(* A buffer to copy into.                                                  *)
BeginCopy ==
  /\ emu = "wait" /\ SemWait("empty")
  /\ content' = [content EXCEPT ![which_buffer] = None]
  /\ emu' = "copy"
  /\ UNCHANGED <<alive, ring, rlengthLeft, serial, clean, consumer, thread_running, dma>>

(* Variant: the buffer that was not filled is not given back.              *)
PartlyFilledKept ==
  /\ FilledTo < buffer_size
  /\ buffer_offset' = (buffer_offset + rlengthi) % Width
  /\ emu' = "idle" /\ rlengthLeft' = 0
  /\ UNCHANGED <<count, which_buffer, content, serial>>

(* The chunk ends before the buffer does.                                  *)
PartlyFilled ==
  /\ FilledTo < buffer_size
  /\ buffer_offset' = (buffer_offset + rlengthi) % Width
  /\ SemPost({"empty"})
  /\ emu' = "idle" /\ rlengthLeft' = 0
  /\ UNCHANGED <<which_buffer, content, serial>>

(* The buffer is full: the audio thread may have it.                       *)
Filled ==
  /\ ~(FilledTo < buffer_size)
  /\ rlengthLeft' = (rlengthLeft - rlengthi) % (Width * SampleSize)
  /\ emu' = IF rlengthLeft' > 0 THEN "wait" ELSE "idle"
  /\ SemPost({"full"})
  /\ which_buffer' = NEXT(which_buffer) /\ buffer_offset' = 0
  /\ content' = [content EXCEPT ![which_buffer] = serial]
  /\ serial' = IF serial = N + 1 THEN 0 ELSE serial + 1

EndCopy ==
  /\ emu = "copy"
  /\ PartlyFilled \/ Filled
  /\ UNCHANGED <<alive, buffer_size, clean, consumer, thread_running, dma>>

AddToBuffer == BeginCopy \/ EndCopy

-----------------------------------------------------------------------------
(* SPUopen and SPUclose, on the emulator's thread.                         *)

(* The thread that is created here waits until the first buffer is full.   *)
SetupSound ==
  /\ emu = "closed"
  /\ count' = [s \in Sems |-> IF s = "full" THEN 0 ELSE MaxCount(s)]
  /\ alive' = Sems
  /\ thread_running' = TRUE /\ thread' = "loop"
  /\ thread_buffer' = 0 /\ which_buffer' = 0
  /\ buffer_size' \in BufferSizes
  /\ emu' = "idle"
  /\ clean' = (playing = None) /\ serial' = 0
  /\ UNCHANGED <<buffer_offset, rlengthLeft, content, dmaAddr, dma>>

(* RemoveSound: the DMA is stopped,                                        *)
RemoveSound ==
  /\ emu = "idle"
  /\ playing' = None /\ again' = FALSE
  /\ clean' = FALSE
  /\ emu' = "remove"
  /\ UNCHANGED <<count, alive, ring, rlengthLeft, content, serial, consumer, thread_running>>

(* then the thread is told to end, and the semaphores are destroyed one by *)
(* one,                                                                    *)
StopThread ==
  /\ emu = "remove" /\ thread_running
  /\ thread_running' = FALSE
  /\ UNCHANGED <<count, alive, producer, consumer, dma>>

(* Variant: buffer_full is not destroyed.                                  *)
DestroyAllButFull ==
  /\ emu = "remove" /\ ~thread_running
  /\ \/ "empty" \in alive /\ alive' = alive \ {"empty"}
     \/ "empty" \notin alive /\ "free" \in alive /\ alive' = alive \ {"free"}
  /\ emu' = IF alive' = {"full"} THEN "join" ELSE "remove"
  /\ UNCHANGED <<count, ring, rlengthLeft, content, serial, clean, consumer, thread_running, dma>>

SemDestroy ==
  /\ emu = "remove" /\ ~thread_running
  /\ alive' = CASE alive = Sems             -> {"empty", "free"}
                [] alive = {"empty", "free"} -> {"free"}
                [] OTHER                     -> {}
  /\ emu' = IF alive' = {} THEN "join" ELSE "remove"
  /\ UNCHANGED <<count, ring, rlengthLeft, content, serial, clean, consumer, thread_running, dma>>

(* and the thread's end is awaited.                                        *)
JoinThread ==
  /\ emu = "join" /\ thread = "exited"
  /\ emu' = "closed"
  /\ UNCHANGED <<count, alive, ring, rlengthLeft, content, serial, clean, consumer, thread_running, dma>>

Remove == StopThread \/ SemDestroy \/ JoinThread

-----------------------------------------------------------------------------
Init ==
  /\ count = [s \in Sems |-> 0] /\ alive = {}
  /\ which_buffer = 0 /\ buffer_offset = 0 /\ thread_buffer = 0
  /\ buffer_size \in BufferSizes
  /\ thread_running = FALSE /\ thread = "exited"
  /\ emu = "closed" /\ rlengthLeft = 0
  /\ dmaAddr = 0 /\ playing = None /\ again = FALSE
  /\ content = [b \in Buffers |-> None] /\ serial = 0 /\ clean = FALSE

Next ==
  \/ EndDMA \/ LoopTest \/ TakeFull \/ Play
  \/ SoundFeedStreamData \/ BeginCopy \/ EndCopy
  \/ SetupSound \/ RemoveSound \/ StopThread \/ SemDestroy \/ JoinThread

Spec == Init /\ [][Next]_vars

(* The DMA plays on, and both threads are scheduled.                       *)
Fairness ==
  WF_vars(EndDMA) /\ WF_vars(PlayBuffer) /\ WF_vars(AddToBuffer) /\ WF_vars(Remove)

FairSpec == Spec /\ Fairness

-----------------------------------------------------------------------------
TypeOK ==
  /\ count \in [Sems -> 0 .. N] /\ alive \subseteq Sems
  /\ which_buffer \in Buffers /\ thread_buffer \in Buffers
  /\ buffer_offset \in Nat /\ buffer_size \in BufferSizes
  /\ thread_running \in BOOLEAN
  /\ emu \in {"closed", "idle", "wait", "copy", "remove", "join"}
  /\ rlengthLeft \in Nat
  /\ thread \in {"loop", "full", "free", "exited"}
  /\ dmaAddr \in Buffers /\ playing \in Buffers \union {None}
  /\ again \in BOOLEAN
  /\ content \in [Buffers -> 0 .. N + 1 \union {None}] /\ serial \in 0 .. N + 1
  /\ clean \in BOOLEAN

(* The buffers the audio thread has not played yet, in order.              *)
Held == count["full"] + (IF thread = "free" THEN 1 ELSE 0)
HandedOut(i) == IF thread_buffer + i - 1 < N THEN thread_buffer + i - 1
                                             ELSE thread_buffer + i - 1 - N

(* While sound is copied into a buffer, that buffer is neither playing nor *)
(* waiting to be played, in a session that began in silence.               *)
NotFilledWhilePlaying ==
  clean /\ emu = "copy" =>
    which_buffer # playing /\ \A i \in 1 .. Held : which_buffer # HandedOut(i)

(* A chunk is copied inside its buffer ("works for any size").             *)
CopyStaysInBuffer == emu = "copy" => buffer_offset + rlengthi <= buffer_size

(* In such a session the ring plays every block once, in order.            *)
Queue == INSTANCE AudioQueue WITH
  Serials <- 0 .. N + 1,
  queue   <- [i \in 1 .. Held |-> content[HandedOut(i)]],
  playing <- IF playing = None THEN None ELSE content[playing]

RefinesQueue ==
  [][/\ clean /\ clean' => [Queue!Next]_Queue!vars
     /\ ~clean /\ clean' => Queue!Init']_vars

(* Feeding sound always returns: the semaphores do not block both threads. *)
FeedReturns == emu = "wait" ~> emu = "idle"

(* Closing the sound always returns.                                       *)
RemoveReturns == emu = "remove" ~> emu = "closed"

=============================================================================
