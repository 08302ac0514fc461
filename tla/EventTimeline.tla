--------------------------- MODULE EventTimeline ---------------------------
(***************************************************************************)
(* What the emulator's devices expect of the event scheduler, with no list *)
(* in sight: every scheduled event has a deadline, events run in the order *)
(* of their deadlines, each at the emulated instant of its deadline, and   *)
(* the CPU does not go on while an event is due.                           *)
(*                                                                         *)
(* Time is relative to the emulated present (psxRegs.GetCycle()), so the   *)
(* specification needs no absolute clock.                                  *)
(***************************************************************************)
EXTENDS Integers

CONSTANTS Events,      \* the schedulable event types (PsxEventType)
          Idle,        \* stands for "no event"; not in Events
          Delays       \* the delays events are scheduled with, in Nat

VARIABLES armed,       \* the scheduled events
          due,         \* cycles from the emulated present to each deadline
          phase,       \* "cpu", "drain" (due events are run) or "handler"
          firing,      \* the event whose handler runs
          lag          \* in a handler: how far the CPU is past the deadline

vars == <<armed, due, phase, firing, lag>>

-----------------------------------------------------------------------------
TypeOK ==
  /\ armed \in SUBSET Events
  /\ due \in [Events -> Int]
  /\ phase \in {"cpu", "drain", "handler"}
  /\ firing \in Events \union {Idle}
  /\ lag \in Nat

Shifted(d, S, by) == [e \in Events |-> IF e \in S THEN d[e] - by ELSE 0]

DueNow(e) == e \in armed /\ due[e] <= 0

Init ==
  /\ \E e \in Events : armed = {e}
  /\ due = [e \in Events |-> 0]
  /\ phase = "cpu" /\ firing = Idle /\ lag = 0

(* The CPU executes one cycle. *)
Tick ==
  /\ phase = "cpu"
  /\ due' = Shifted(due, armed, 1)
  /\ UNCHANGED <<armed, phase, firing, lag>>

(* Guest code, in one cycle, or a handler, in none, gives e a deadline t   *)
(* cycles from then, replacing any it had; or takes its deadline away.     *)
Spent == IF phase = "cpu" THEN 1 ELSE 0

Arm(e, t) ==
  /\ phase # "drain"
  /\ armed' = armed \union {e}
  /\ due' = [Shifted(due, armed, Spent) EXCEPT ![e] = t]
  /\ UNCHANGED <<phase, firing, lag>>

Disarm(e) ==
  /\ phase # "drain"
  /\ armed' = armed \ {e}
  /\ due' = [Shifted(due, armed, Spent) EXCEPT ![e] = 0]
  /\ UNCHANGED <<phase, firing, lag>>

(* The CPU comes to a branch and an event is due.                          *)
Branch ==
  /\ phase = "cpu"
  /\ \E e \in Events : DueNow(e)
  /\ phase' = "drain"
  /\ UNCHANGED <<armed, due, firing, lag>>

(* A due event with the earliest deadline runs; time stands at that        *)
(* deadline until its handler returns.                                     *)
Fire(e) ==
  /\ phase # "handler"
  /\ DueNow(e)
  /\ \A f \in armed : due[e] <= due[f]
  /\ armed' = armed \ {e}
  /\ due' = Shifted(due, armed \ {e}, due[e])
  /\ lag' = -due[e]
  /\ phase' = "handler" /\ firing' = e

(* The handler is done: back to the CPU's present, where the CPU goes on   *)
(* only if nothing is due.                                                 *)
Return ==
  /\ phase = "handler"
  /\ due' = Shifted(due, armed, lag)
  /\ phase' = IF \E e \in armed : due'[e] <= 0 THEN "drain" ELSE "cpu"
  /\ firing' = Idle /\ lag' = 0
  /\ UNCHANGED armed

Next ==
  \/ Tick \/ Branch
  \/ \E e \in Events : \E t \in Delays : Arm(e, t)
  \/ \E e \in Events : Disarm(e) \/ Fire(e)
  \/ Return

Spec == Init /\ [][Next]_vars

=============================================================================
