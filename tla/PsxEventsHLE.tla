---------------------------- MODULE PsxEventsHLE ----------------------------
(***************************************************************************)
(* The scheduler when the BIOS is emulated (Config.HLE): psxException      *)
(* calls psxBiosException, whose biosInterrupt calls the game's own        *)
(* interrupt routines by softCall (src/libpcsxcore/psxbios.cpp), and       *)
(* softCall runs guest code -- instructions, register stores and branch    *)
(* tests -- inside the Execute() of the exception event, where both cycle  *)
(* counters are zero.                                                      *)
(***************************************************************************)
EXTENDS PsxEvents

CONSTANT MaxSoftCalls   \* routines one interrupt calls: the vertical retrace's,
                        \* the root counters' and the SysIntRP queue's

ASSUME SoftCallsAssumption == MaxSoftCalls \in Nat

VARIABLES inSoftCall,   \* guest code runs inside the exception's handler
          outerOldtime, \* oldtime of the suspended ExecutePendingEvents
          softCalls     \* routines called so far by this handler

hleVars == <<vars, SpuAsync, inSoftCall, outerOldtime, softCalls>>

HLEInit == Init /\ inSoftCall = FALSE /\ outerOldtime = 0 /\ softCalls = 0

(* softCall, from psxBiosException; interrupts are disabled in there, so   *)
(* that a nested exception event does not come this far.  MaxLate bounds   *)
(* how late the exception event itself may be.                             *)
SoftCall ==
  /\ phase = "handler" /\ exeEvt = Exception /\ ~inSoftCall
  /\ softCalls < MaxSoftCalls /\ oldtime >= -MaxLate
  /\ inSoftCall' = TRUE /\ outerOldtime' = oldtime
  /\ softCalls' = softCalls + 1
  /\ phase' = "cpu" /\ exeEvt' = Idle /\ oldtime' = 0
  /\ UNCHANGED <<timers, due, SpuAsync>>

(* The routine jumps to 0x80001000 and ExecuteBlock's loop ends.           *)
SoftReturn ==
  /\ inSoftCall /\ phase = "cpu"
  /\ inSoftCall' = FALSE /\ outerOldtime' = 0
  /\ phase' = "handler" /\ exeEvt' = Exception /\ oldtime' = outerOldtime
  /\ UNCHANGED <<timers, due, SpuAsync, softCalls>>

HLENext ==
  \/ /\ Next
     /\ softCalls' = IF phase' = "handler" \/ inSoftCall THEN softCalls ELSE 0
     /\ UNCHANGED <<inSoftCall, outerOldtime>>
  \/ SoftCall \/ SoftReturn

HLESpec == HLEInit /\ [][HLENext]_hleVars

(* Interrupt routines end.                                                 *)
HLEFairSpec == HLESpec /\ Fairness /\ SF_hleVars(SoftReturn)

=============================================================================
