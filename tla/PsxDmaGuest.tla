---------------------------- MODULE PsxDmaGuest ----------------------------
(***************************************************************************)
(* The DMA controller with a guest: a wild one, which stores what it likes *)
(* when it likes; or one whose main program sets up PCR and ICR, then      *)
(* starts transfers, and whose interrupt handler acknowledges I_STAT       *)
(* first, then reads ICR and acknowledges what it has read there.          *)
(***************************************************************************)
EXTENDS PsxDma

VARIABLES step,  \* of the guest: "setup", "enable", "main", "acked", "read"; or "wild"
          seen   \* the flags the handler has read

guest == <<step, seen>>
allVars == <<vars, guest>>

GuestInit == Init /\ step \in {"setup", "wild"} /\ seen = {}

Wild == step = "wild" /\ Next /\ UNCHANGED guest

SetUpPCR ==
  /\ step = "setup" /\ step' = "enable"
  /\ WritePCR(Channels) /\ UNCHANGED seen

SetUpICR ==
  /\ step = "enable" /\ step' = "main"
  /\ WriteICR(TRUE, Channels, {}) /\ UNCHANGED seen

Start(c, mode) ==
  /\ step = "main"
  /\ c \in pcr \ busy /\ mode \in Modes(c) /\ WriteCHCR(c, mode)
  /\ UNCHANGED guest

Event == step # "wild" /\ (\E c \in Channels : EndEvent(c)) /\ UNCHANGED guest

HandlerAcks ==
  /\ step = "main" /\ dmaIrq
  /\ step' = "acked" /\ AckISTAT /\ UNCHANGED seen

HandlerReads ==
  /\ step = "acked"
  /\ step' = "read" /\ seen' = flags /\ UNCHANGED vars

HandlerWrites ==
  /\ step = "read"
  /\ step' = "main" /\ seen' = {}
  /\ WriteICR(TRUE, Channels, seen)

GuestNext ==
  \/ Wild
  \/ SetUpPCR \/ SetUpICR \/ Event
  \/ \E c \in Channels, mode \in {"now", "later"} : Start(c, mode)
  \/ HandlerAcks \/ HandlerReads \/ HandlerWrites

GuestSpec == GuestInit /\ [][GuestNext]_allVars

-----------------------------------------------------------------------------
(* The end of every transfer reaches the handler, those that fall between  *)
(* its reading and its writing ICR included -- unless the guest is wild.   *)
EveryEndIsSeen ==
  step # "wild" => \A c \in Channels : c \in flags ~> c \in seen

(* While the handler does not run, an unacknowledged end shows in I_STAT.  *)
NoEndForgotten == step = "main" /\ flags # {} => dmaIrq

=============================================================================
