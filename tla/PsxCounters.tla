---------------------------- MODULE PsxCounters ----------------------------
(***************************************************************************)
(* A root counter (src/libpcsxcore/psxcounters.cpp).  It does not count:   *)
(* its value is computed from the cycles that passed since it was last     *)
(* set, and its interrupt is an event that is scheduled for the cycle at   *)
(* which the count will be there.                                          *)
(*                                                                         *)
(* Cycles since psxRegs.cycle are pending; ExecutePendingEvents moves them *)
(* to cyclepass (RcntAdvanceCycles) when it comes to an event, at that     *)
(* event's deadline.  RCntFix is off; the vertical retrace is left out.    *)
(***************************************************************************)
EXTENDS Integers

CONSTANTS
  Wrap,         \* 0x10000: counts are 16 bits wide
  One,          \* 1 << PsxFixedBits
  Word,         \* 2^32: cycles and products are 32 bits wide
  Rates,        \* cycles per count, times One: what WriteMode computes
  Modes,        \* the modes the guest writes
  Values,       \* the counts and targets it writes
  MaxPending,   \* bound: cycles between two events
  MaxLate       \* cycles a branch may come after the deadline

Mode == [Stop : BOOLEAN, Reset : BOOLEAN, Tar : BOOLEAN,
         IRQTARGET : BOOLEAN, IRQOVF : BOOLEAN, Repeat : BOOLEAN]

ASSUME CountersAssumption ==
  /\ {Wrap, One, Word, MaxPending} \subseteq Nat \ {0}
  /\ Rates \subseteq Nat \ {0}
  /\ Word % One = 0
  /\ \A r \in Rates \union {One} : One <= r * (Wrap - 1)
  \* the exact rates: half a cycle a count, which is the system clock, or slower
  /\ \A r \in Rates \union {One} :
       Word % (r * Wrap) = 0 => r >= One \/ 2 * r = One
  /\ Modes \subseteq Mode
  /\ Values \subseteq 0..Wrap - 1
  /\ MaxLate \in Nat

VARIABLES
  Count, Target, mode, Rate, cyclepass, IsFutureTarget,
  scheduled,    \* is the counter's event in the list?
  due,          \* its deadline, in cycles from psxRegs.cycle
  pending,      \* psxRegs.GetPendingCycles()
  debt,         \* history: the cycles that were pending at the last write
  stale,        \* history: the event is older than the last write
  ran           \* history: the event has run since the last write

settings == <<Target, mode, Rate>>
event    == <<scheduled, due>>
history  == <<debt, stale, ran>>
rcntVars == <<Count, settings, cyclepass, IsFutureTarget, event, pending, history>>

RcntTypeOK ==
  /\ Count \in 0..Wrap - 1 /\ Target \in 0..Wrap - 1
  /\ mode \in Mode /\ Rate \in Rates \union {One}
  /\ cyclepass \in 0..(Word \div One) - 1
  /\ IsFutureTarget \in BOOLEAN
  /\ scheduled \in BOOLEAN /\ due \in Int /\ pending \in Nat
  /\ debt \in Nat /\ {stale, ran} \subseteq BOOLEAN

-----------------------------------------------------------------------------
(* ScaleByRate: the cycles it takes to count by delta.  The product is     *)
(* unsigned: a negative delta gives a large number.                        *)
ScaleByRate(delta, rate) == ((delta * rate) % Word) \div One

(* The count of some cycles, whose shift to the left drops high bits.      *)
Counts(cycles) == ((cycles * One) % Word) \div Rate

(* ReadCount.                                                              *)
ReadCount ==
  IF mode.Stop THEN Count ELSE (Count + Counts(cyclepass + pending)) % Wrap

(* cyclepass is a signed word of which only what survives the shift counts *)
Passed(delta) == (cyclepass + delta) % (Word \div One)

(* Variant: the pending cycles are forgotten.                              *)
ScheduleFromTheEvent(count, target, m, rate, p) ==
  LET cycles == ScaleByRate((IF m.Tar THEN target ELSE Wrap) - count, rate)
  IN  /\ cyclepass' = 0
      /\ IF ~m.Stop /\ (m.IRQTARGET \/ m.IRQOVF) /\ cycles > 0
         THEN scheduled' = TRUE /\ due' = cycles
         ELSE UNCHANGED event

(* Schedule, for a counter with this count, with p cycles pending: when    *)
(* there is nothing to schedule, an event that is in the list stays there. *)
Schedule(count, target, m, rate, p) ==
  LET cycles == ScaleByRate((IF m.Tar THEN target ELSE Wrap) - count, rate)
  IN  /\ cyclepass' = 0
      /\ IF ~m.Stop /\ (m.IRQTARGET \/ m.IRQOVF) /\ cycles > 0
         THEN scheduled' = TRUE /\ due' = p + cycles
         ELSE UNCHANGED event

(* What a write of a register leaves to say about the event.               *)
WriteRecorded ==
  /\ debt' = pending
  /\ stale' = (scheduled /\ due' = due)
  /\ ran' = FALSE
  /\ UNCHANGED pending

RcntInit ==
  /\ Count = 0 /\ Target = 0 /\ Rate = One
  /\ mode = [Stop |-> FALSE, Reset |-> FALSE, Tar |-> FALSE,
             IRQTARGET |-> FALSE, IRQOVF |-> FALSE, Repeat |-> FALSE]
  /\ cyclepass = 0 /\ IsFutureTarget = TRUE
  /\ scheduled = FALSE /\ due = 0 /\ pending = 0
  /\ debt = 0 /\ stale = FALSE /\ ran = FALSE

-----------------------------------------------------------------------------
WriteCount(value) ==
  /\ Count' = value
  /\ IsFutureTarget' = FALSE
  /\ Schedule(value, Target, mode, Rate, pending)
  /\ WriteRecorded
  /\ UNCHANGED settings

(* The rate follows from the clock source and the divisor in the mode.     *)
WriteMode(m, rate) ==
  /\ mode' = m /\ Rate' = rate
  /\ Count' = IF m.Reset THEN 0 ELSE Count
  /\ IsFutureTarget' = FALSE
  /\ Schedule(Count', Target, m, rate, pending)
  /\ WriteRecorded
  /\ UNCHANGED Target

(* WriteTargeg: the cycles that passed are counted, but only by a counter  *)
(* that has an event (_update_counted_timepass).                           *)
WriteTarget(value) ==
  /\ Target' = value
  /\ Count' = IF scheduled THEN (Count + Counts(cyclepass + pending)) % Wrap ELSE Count
  /\ IsFutureTarget' = (value <= Count')
  /\ Schedule(Count', value, mode, Rate, pending)
  /\ WriteRecorded
  /\ UNCHANGED <<mode, Rate>>

(* A cycle of the CPU.  Branches come in time to run the events.           *)
Cycle ==
  /\ pending < MaxPending
  /\ scheduled => pending < due + MaxLate
  /\ pending' = pending + 1
  /\ UNCHANGED <<Count, settings, cyclepass, IsFutureTarget, event, history>>

(* Variant: without RcntAdvanceCycles.                                     *)
OtherEventOnly(cycles) ==
  /\ cycles <= pending
  /\ scheduled => cycles <= due
  /\ pending' = pending - cycles
  /\ due' = IF scheduled THEN due - cycles ELSE due
  /\ UNCHANGED <<Count, settings, cyclepass, IsFutureTarget, scheduled, history>>

(* Another event's deadline: psxRegs.cycle moves on by the cycles to it.   *)
OtherEvent(cycles) ==
  /\ cycles <= pending
  /\ scheduled => cycles <= due
  /\ cyclepass' = Passed(cycles)
  /\ pending' = pending - cycles
  /\ due' = IF scheduled THEN due - cycles ELSE due
  /\ UNCHANGED <<Count, settings, IsFutureTarget, scheduled, history>>

(* The counter's own event, Update: no cycles are pending while it runs.   *)
AtTarget == mode.IRQTARGET \/ mode.Tar
Hit      == AtTarget /\ ~IsFutureTarget
Raises   == (Hit /\ mode.IRQTARGET) \/ mode.IRQOVF   \* psxRaiseExtInt

(* Variant: the count is not reset on target.                              *)
CountStays == IF mode.IRQOVF THEN 0 ELSE IF AtTarget THEN Target ELSE Count

CountAfter ==
  CASE mode.IRQOVF     -> 0
    [] Hit /\ mode.Tar -> 0
    [] OTHER           -> IF AtTarget THEN Target ELSE Count

Update ==
  /\ scheduled /\ pending >= due
  /\ Count' = CountAfter
  /\ IsFutureTarget' =
       (~mode.IRQOVF /\ (IsFutureTarget \/ (Hit /\ ~(mode.Tar /\ mode.Repeat))))
  /\ \E cycles \in {ScaleByRate((IF mode.Tar THEN Target ELSE Wrap) - Count', Rate)} :
       IF mode.Repeat
       THEN /\ cyclepass' = 0
            /\ scheduled' = (~mode.Stop /\ (mode.IRQTARGET \/ mode.IRQOVF) /\ cycles > 0)
            /\ due' = IF scheduled' THEN cycles ELSE 0
       ELSE cyclepass' = Passed(due) /\ scheduled' = FALSE /\ due' = 0
  /\ pending' = pending - due
  /\ debt' = 0 /\ stale' = FALSE /\ ran' = TRUE
  /\ UNCHANGED settings

GuestWrites ==
  \/ \E value \in Values : WriteCount(value) \/ WriteTarget(value)
  \/ \E m \in Modes, rate \in Rates : WriteMode(m, rate)

RcntNext ==
  \/ GuestWrites
  \/ Cycle \/ Update
  \/ \E cycles \in 1..MaxPending : OtherEvent(cycles)

RcntSpec == RcntInit /\ [][RcntNext]_rcntVars

(* The CPU runs, branches come, and other events (the SPU's, for one) come *)
(* round as long as there is time for them.                                *)
RcntFairSpec ==
  RcntSpec /\ WF_rcntVars(Cycle) /\ WF_rcntVars(Update)
       /\ WF_rcntVars(\E cycles \in 1..MaxPending : OtherEvent(cycles))

-----------------------------------------------------------------------------
(* A count of 16 bits is exact when the shifts lose only multiples of it,  *)
(* which they do for the system clock and its eighth.                      *)
Exact == Word % (Rate * Wrap) = 0

Goal == IF mode.Tar THEN Target ELSE Wrap

(* The two ways of telling the time agree: when the event comes and        *)
(* interrupts, the reading at its deadline is the target, or the overflow, *)
(* to within the one count that the division by two cycles may lose --     *)
(* however the time in between was cut up by other events, and also when   *)
(* the count was past the target.  The cycles that were pending at the     *)
(* last write are counted twice by readings (Schedule clears cyclepass     *)
(* only), and an event older than the last write is excepted.              *)
FiresWhenReadingSays ==
  [][(Update /\ Raises /\ ~stale /\ Exact) =>
       \E slack \in {0, 1} :
          (Count + Counts(cyclepass + due) + slack) % Wrap = (Goal + Counts(debt)) % Wrap]_rcntVars

(* Readings run on evenly: a cycle adds what it should, and an event of    *)
(* something else, which moves the pending cycles elsewhere, nothing.      *)
PerCycle == {One \div Rate, (One + Rate - 1) \div Rate}

Advance == (ReadCount' - ReadCount) % Wrap

ReadingRuns ==
  [][Exact => /\ Cycle => mode.Stop \/ Advance \in PerCycle
              /\ (\E cycles \in 1..MaxPending : OtherEvent(cycles)) => Advance = 0]_rcntVars

(* A repeating counter goes on interrupting for as long as its registers   *)
(* are left alone, if the overflow interrupts or the target resets it.     *)
(* Nothing is promised where it reaches its target without a reset: Update *)
(* then sets IsFutureTarget itself and never clears it, and the counter    *)
(* interrupts once.  Nor where IsFutureTarget was set by a target written  *)
(* at or below the count, or where the period is less than a cycle.        *)
Ticks ==
  /\ ran /\ mode.Repeat /\ ~mode.Stop
  /\ mode.IRQOVF \/ (mode.IRQTARGET /\ mode.Tar /\ ~IsFutureTarget)
  /\ ScaleByRate(Goal, Rate) > 0

KeepsTicking == <>[]Ticks => []<><<Update /\ Raises>>_rcntVars
=============================================================================
