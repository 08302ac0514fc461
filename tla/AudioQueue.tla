---------------------------- MODULE AudioQueue ----------------------------
(***************************************************************************)
(* What the sound plugin expects of the Wii's audio output: blocks of      *)
(* sound handed out one after the other are played one after the other,    *)
(* each one once, unchanged, and none is played while it is being filled.  *)
(***************************************************************************)
EXTENDS Naturals, Sequences

CONSTANTS Serials,  \* 0..k: names blocks in the order they are filled, cyclic
          None      \* not in Serials

VARIABLES serial,   \* of the next block to be handed out
          queue,    \* the blocks handed out and not yet playing
          playing   \* the block being played, or None

vars == <<serial, queue, playing>>

After(s) == IF s + 1 \in Serials THEN s + 1 ELSE 0

Init == serial = 0 /\ queue = <<>> /\ playing = None

HandOut ==
  /\ queue' = Append(queue, serial)
  /\ serial' = After(serial)
  /\ UNCHANGED playing

Start ==
  /\ playing = None /\ queue # <<>>
  /\ playing' = Head(queue) /\ queue' = Tail(queue)
  /\ UNCHANGED serial

End ==
  /\ playing # None /\ playing' = None
  /\ UNCHANGED <<serial, queue>>

Next == HandOut \/ Start \/ End

Spec == Init /\ [][Next]_vars

=============================================================================
