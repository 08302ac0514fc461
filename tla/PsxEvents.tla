----------------------------- MODULE PsxEvents -----------------------------
(***************************************************************************)
(* The event scheduler of the emulated PlayStation                         *)
(* (src/libpcsxcore/psxevents.cpp, psxevents.h) together with the cycle    *)
(* counters of psxRegisters that drive it (R3000A/r3000a.h) and the branch *)
(* tests of the interpreter (R3000A/psxinterpreter.cpp).                   *)
(*                                                                         *)
(* Scheduled events form a delta list: each node holds the cycles between  *)
(* its predecessor's deadline and its own, the head's counted from         *)
(* psxRegs.cycle.  The linked list of events_t is a sequence of records    *)
(* here; "n.next # NULL" is "n occurs in List".  The Idle node that ends   *)
(* the list is left out: its RelativeDelta is IdleDelta again at the end   *)
(* of every operation.                                                     *)
(***************************************************************************)
EXTENDS Integers, Sequences, SequencesExt

CONSTANTS
  Events,        \* PsxEventType but for Idle
  Idle,          \* PsxEvt_Idle; also "no handler is running"
  SPU,           \* the event that only its own handler schedules
  Exception,     \* PsxEvt_Exception: always scheduled with time 0
  Times,         \* [Events -> SUBSET Nat]: the delays each event is given
  SpuRate,       \* SpuRate
  IdleDelta,     \* 0x4000
  MaxOvershoot,  \* cycles a block may run on past the countdown's zero
  MaxLate,       \* bound: nobody schedules while one is later than this,
  MaxPending     \* or more cycles than this are pending

ASSUME EventsAssumption ==
  /\ Idle \notin Events
  /\ SPU \in Events /\ Exception \in Events /\ SPU # Exception
  /\ Times \in [Events -> SUBSET Nat]
ASSUME RatesAssumption ==
  /\ SpuRate \in Nat \ {0}
  /\ MaxOvershoot \in Nat
  /\ IdleDelta \in Nat /\ IdleDelta > MaxOvershoot
  /\ MaxLate \in Nat /\ MaxPending \in Nat

VARIABLES
  List,               \* sequence of [evt, delta], delta = RelativeDelta
  evtCycleDuration,   \* psxRegs.evtCycleDuration
  evtCycleCountdown,  \* psxRegs.evtCycleCountdown
  phase,              \* "cpu", "drain" (top of the loop), "handler"
  exeEvt,             \* the event whose Execute() runs, else Idle
  oldtime,            \* ExecutePendingEvents' local of that name
  SpuAsync,           \* is the plugin's SPU_async there?
  due                 \* history: deadline of each event from psxRegs.cycle

timers == <<List, evtCycleDuration, evtCycleCountdown>>
vars == <<List, evtCycleDuration, evtCycleCountdown, phase, exeEvt, oldtime, due>>

-----------------------------------------------------------------------------
(* The list operations, on a list of [evt, delta] records.                 *)

Position(list, n) == {i \in 1..Len(list) : list[i].evt = n}

IsScheduled(list, n) == Position(list, n) # {}

(* u32 comparison of two s32 values: a negative one is the larger.         *)
UGreater(a, b) == IF (a < 0) = (b < 0) THEN a > b ELSE a < 0

(* Variant: the pending cycles are not taken into account.                 *)
RunningFromZero(list, pending) ==
  LET running[i \in 1..Len(list) + 1] ==
        IF i = 1 THEN 0 ELSE running[i-1] + list[i-1].delta
  IN  running

(* running[i]: runningDelta when the loop of Schedule reaches node i.      *)
Running(list, pending) ==
  LET running[i \in 1..Len(list) + 1] ==
        IF i = 1 THEN -pending ELSE running[i-1] + list[i-1].delta
  IN  running

(* Variant: the loop stops at the head.                                    *)
StopsAtOnce(list, running, time) == {1}

(* The nodes in front of which the loop would stop; the end of the list,   *)
(* where the Idle node is, always among them.                              *)
StopsAt(list, running, time) ==
  {i \in 1..Len(list) : UGreater(running[i] + list[i].delta, time)}
     \union {Len(list) + 1}

FirstOf(S) == CHOOSE i \in S : \A j \in S : i <= j

(* Variants: the successor keeps its delta.                                *)
InsertedUnadjusted(list, k, node) == InsertAt(list, k, node)
RemovedUnadjusted(list, k) == RemoveAt(list, k)

Delayed(node, by) == [node EXCEPT !.delta = @ + by]

Inserted(list, k, node) ==
  InsertAt([i \in 1..Len(list) |->
              IF i = k THEN Delayed(list[i], -node.delta) ELSE list[i]], k, node)

Removed(list, k) ==
  RemoveAt([i \in 1..Len(list) |->
              IF i = k + 1 THEN Delayed(list[i], list[k].delta) ELSE list[i]], k)

HeadDelta(list) == IF list = <<>> THEN IdleDelta ELSE list[1].delta

-----------------------------------------------------------------------------
(* PsxEvents::Schedule and Cancel, as functions of the scheduler's state   *)
(* t = [list, dur, cnt].                                                   *)

Timer == [list |-> List, dur |-> evtCycleDuration, cnt |-> evtCycleCountdown]

PendingCycles(t) == t.dur - t.cnt

SetTimer(t) ==
  /\ List' = t.list
  /\ evtCycleDuration' = t.dur
  /\ evtCycleCountdown' = t.cnt

CancelAt(t, k) ==
  LET list == Removed(t.list, k)
      dur  == IF list = <<>> THEN IdleDelta + t.list[1].delta
                             ELSE list[1].delta
  IN  IF k = 1 THEN [list |-> list, dur |-> dur, cnt |-> dur - PendingCycles(t)]
               ELSE [t EXCEPT !.list = list]

Cancel(t, n) ==
  IF IsScheduled(t.list, n)
  THEN CancelAt(t, CHOOSE i \in Position(t.list, n) : TRUE)
  ELSE t

ScheduleAt(t, n, time, running, k) ==
  LET node == [evt |-> n, delta |-> time - running[k]]
      list == Inserted(t.list, k, node)
  IN  IF k = 1 THEN [list |-> list, dur |-> node.delta, cnt |-> time]
               ELSE [t EXCEPT !.list = list]

Schedule(t0, n, time) ==
  LET t       == Cancel(t0, n)
      running == Running(t.list, PendingCycles(t))
  IN  ScheduleAt(t, n, time, running, FirstOf(StopsAt(t.list, running, time)))

-----------------------------------------------------------------------------
(* The program.                                                            *)

ScheduleEvt(t, n, time) ==
  /\ SetTimer(Schedule(t, n, time))
  /\ due' = [due EXCEPT ![n] = PendingCycles(t) + time]

CancelEvt(t, n) ==
  /\ IsScheduled(List, n)
  /\ SetTimer(Cancel(t, n))
  /\ due' = [due EXCEPT ![n] = 0]

(* psxReset: the counters start at 32 and ResetEvents schedules SPU with   *)
(* time 0 in the empty list.                                               *)
Init ==
  /\ \E t \in {Schedule([list |-> <<>>, dur |-> 32, cnt |-> 32], SPU, 0)} :
       /\ List = t.list
       /\ evtCycleDuration = t.dur
       /\ evtCycleCountdown = t.cnt
  /\ phase = "cpu" /\ exeEvt = Idle /\ oldtime = 0
  /\ SpuAsync \in BOOLEAN
  /\ due = [e \in Events |-> 0]

(* execI charges a cycle, then executes the instruction.  A block of       *)
(* straight-line code is at most MaxOvershoot instructions past the        *)
(* countdown's zero when it ends in a branch.                              *)
AddCycles(t, amount) == [t EXCEPT !.cnt = @ - amount]

Runs == phase = "cpu" /\ evtCycleCountdown > -MaxOvershoot

Instruction ==
  /\ Runs
  /\ SetTimer(AddCycles(Timer, 1))
  /\ UNCHANGED <<phase, exeEvt, oldtime, due>>

(* A store to a device register schedules or cancels the device's event,   *)
(* also in the cycles between the countdown's zero and the branch.         *)
WithinBounds ==
  LET present == Running(List, PendingCycles(Timer))
  IN  /\ PendingCycles(Timer) <= MaxPending
      /\ \A i \in 1..Len(List) : present[i+1] >= -MaxLate

MayAccess == Runs /\ WithinBounds

GuestSchedule(n, time) ==
  /\ MayAccess
  /\ n # SPU /\ time \in Times[n]
  /\ ScheduleEvt(AddCycles(Timer, 1), n, time)
  /\ UNCHANGED <<phase, exeEvt, oldtime>>

GuestCancel(n) ==
  /\ MayAccess
  /\ n # SPU
  /\ CancelEvt(AddCycles(Timer, 1), n)
  /\ UNCHANGED <<phase, exeEvt, oldtime>>

(* psxBranchTest: the interpreter is at a branch.                          *)
BranchTest ==
  /\ phase = "cpu"
  /\ evtCycleCountdown <= 0
  /\ phase' = "drain"
  /\ UNCHANGED <<List, evtCycleDuration, evtCycleCountdown, exeEvt, oldtime, due>>

(* The loop of ExecutePendingEvents up to the call of Execute().  due is   *)
(* rebased because psxRegs.cycle advances by evtCycleDuration.             *)
ExecuteHead ==
  /\ phase = "drain"
  /\ List # <<>>
  /\ oldtime' = evtCycleCountdown
  /\ evtCycleCountdown' = 0 /\ evtCycleDuration' = 0
  /\ exeEvt' = Head(List).evt /\ List' = Tail(List)
  /\ due' = [e \in Events |-> IF IsScheduled(List', e)
                              THEN due[e] - evtCycleDuration ELSE 0]
  /\ phase' = "handler"

(* Variant: the cycles the branch test came late are forgotten.            *)
ReloadForgetsLateness(list, late) ==
  /\ evtCycleDuration' = HeadDelta(list)
  /\ evtCycleCountdown' = HeadDelta(list)
  /\ phase' = IF evtCycleCountdown' > 0 THEN "cpu" ELSE "drain"

(* The rest of the loop: reload the counters from the new head, go on if   *)
(* that one is due as well.                                                *)
Reload(list, late) ==
  /\ evtCycleDuration' = HeadDelta(list)
  /\ evtCycleCountdown' = late + HeadDelta(list)
  /\ phase' = IF evtCycleCountdown' > 0 THEN "cpu" ELSE "drain"

(* The same iteration when the list is empty: the Idle node is popped and  *)
(* its handler makes it the head again.                                    *)
ExecuteIdle ==
  /\ phase = "drain"
  /\ List = <<>>
  /\ Reload(<<>>, evtCycleCountdown)
  /\ UNCHANGED <<List, exeEvt, oldtime, due>>

(* _evthandler_SPU: reschedules itself.                                    *)
HandleSPU ==
  /\ phase = "handler" /\ exeEvt = SPU /\ SpuAsync
  /\ ~IsScheduled(List, SPU)
  /\ ScheduleEvt(Timer, SPU, SpuRate)
  /\ UNCHANGED <<phase, exeEvt, oldtime>>

(* The other devices' handlers schedule and cancel what they like;         *)
(* _evthandler_Exception only changes the CPU's state.                     *)
InDeviceHandler ==
  phase = "handler" /\ exeEvt \notin {SPU, Exception} /\ WithinBounds

HandlerSchedule(n, time) ==
  /\ InDeviceHandler
  /\ n # SPU /\ time \in Times[n]
  /\ ScheduleEvt(Timer, n, time)
  /\ UNCHANGED <<phase, exeEvt, oldtime>>

HandlerCancel(n) ==
  /\ InDeviceHandler
  /\ n # SPU
  /\ CancelEvt(Timer, n)
  /\ UNCHANGED <<phase, exeEvt, oldtime>>

(* Variant: _evthandler_SPU may return without rescheduling itself.        *)
ReturnForgetsSPU ==
  /\ phase = "handler"
  /\ Reload(List, oldtime)
  /\ exeEvt' = Idle /\ oldtime' = 0
  /\ UNCHANGED <<List, due>>

Return ==
  /\ phase = "handler"
  /\ exeEvt = SPU /\ SpuAsync => IsScheduled(List, SPU)
  /\ Reload(List, oldtime)
  /\ exeEvt' = Idle /\ oldtime' = 0
  /\ UNCHANGED <<List, due>>

Step ==
  \/ Instruction \/ BranchTest \/ ExecuteHead \/ ExecuteIdle
  \/ HandleSPU \/ Return
  \/ \E n \in Events : \E time \in Times[n] :
        GuestSchedule(n, time) \/ HandlerSchedule(n, time)
  \/ \E n \in Events : GuestCancel(n) \/ HandlerCancel(n)

Next == Step /\ UNCHANGED SpuAsync

Spec == Init /\ [][Next]_<<vars, SpuAsync>>

(* The interpreter's loop never stops, and a branch comes.                 *)
Fairness ==
  WF_vars(Instruction \/ BranchTest) /\ WF_vars(ExecuteHead \/ ExecuteIdle)
    /\ WF_vars(HandleSPU) /\ WF_vars(Return)

FairSpec == Spec /\ Fairness

-----------------------------------------------------------------------------
Entry == [evt : Events, delta : Int]

(* The type invariant.                                                     *)
TypeOK ==
  /\ List \in Seq(Entry)
  /\ evtCycleDuration \in Int /\ evtCycleCountdown \in Int
  /\ phase \in {"cpu", "drain", "handler"}
  /\ exeEvt \in Events \union {Idle}
  /\ phase = "handler" <=> exeEvt # Idle
  /\ oldtime \in Int /\ SpuAsync \in BOOLEAN
  /\ due \in [Events -> Int]

(* The delta list encodes the deadlines: whatever was inserted or removed  *)
(* before it, each node's delta is the distance from its predecessor's     *)
(* deadline (from psxRegs.cycle for the head) to the deadline its event    *)
(* was last scheduled with.                                                *)
Encodes(list, d) ==
  \A i \in 1..Len(list) :
    list[i].delta = d[list[i].evt] - (IF i = 1 THEN 0 ELSE d[list[i-1].evt])

DeltasEncodeDeadlines == Encodes(List, due)

(* An event occurs once in the list.                                       *)
Distinct(list) ==
  \A i, j \in 1..Len(list) : list[i].evt = list[j].evt => i = j

NoDuplicates == Distinct(List)

(* The countdown runs towards the head's deadline; while a handler runs no *)
(* cycles are pending, so what it schedules counts from psxRegs.cycle.     *)
CountdownIsTheHeads ==
  IF phase = "handler" THEN evtCycleDuration = evtCycleCountdown
  ELSE List # <<>> => evtCycleDuration = List[1].delta

(* The deadlines of the list do not decrease, and none of them has been    *)
(* passed by psxRegs.cycle.                                                *)
DueAt(i) == due[List[i].evt]

Sorted ==
  /\ \A i, j \in 1..Len(List) : i <= j => DueAt(i) <= DueAt(j)
  /\ \A i \in 1..Len(List) : DueAt(i) >= 0

(* ExecutePendingEvents takes psxRegs.cycle exactly to the deadline of the *)
(* event it runs, however late the branch test came and whatever was       *)
(* scheduled and cancelled since.                                          *)
RunsAtItsDeadline ==
  [][\A e \in Events : exeEvt' = e /\ exeEvt = Idle => due[e] = evtCycleDuration]_vars

(* No handler runs before its event's deadline has passed on the CPU.      *)
NeverEarly ==
  [][\A e \in Events : exeEvt' = e /\ exeEvt = Idle =>
        due[e] <= evtCycleDuration - evtCycleCountdown]_vars

(* A step that puts the list out of order schedules an event while the     *)
(* head is overdue.                                                        *)
DisorderNeedsLateSchedule ==
  [][Sorted /\ ~Sorted' => phase = "cpu" /\ evtCycleCountdown <= 0]_vars

(* Every iteration of ExecutePendingEvents advances psxRegs.cycle by       *)
(* evtCycleDuration.  That is negative, and the clock goes back, only when *)
(* the list is out of order (an empty one: when what a cancelled head left *)
(* of it is negative), and no step puts it out of order but guest code's   *)
(* schedule, the storing instruction's own cycle charged, past the head's  *)
(* deadline -- also where softCall has guest code run with both counters   *)
(* at zero and the countdown tells nothing of the head.                    *)
InOrder ==
  /\ \A i \in 1..Len(List) : List[i].delta >= 0
  /\ List = <<>> => evtCycleDuration >= 0

HeadIsOverdue == List # <<>> /\ List[1].delta < PendingCycles(Timer) + 1

BackOnlyAfterLateStore ==
  [][/\ phase = "drain" /\ InOrder => evtCycleDuration >= 0
     /\ InOrder /\ ~InOrder' => phase = "cpu" /\ HeadIsOverdue]_vars

(* The scheduler hands out what the timeline promises: every step from a   *)
(* state whose list is in order is a step of the timeline or a stutter.    *)
Timeline == INSTANCE EventTimeline WITH
  Delays <- {SpuRate} \union UNION {Times[e] : e \in Events},
  armed  <- {e \in Events : IsScheduled(List, e)},
  due    <- [e \in Events |-> IF IsScheduled(List, e)
                              THEN due[e] - PendingCycles(Timer) ELSE 0],
  phase  <- IF phase = "drain" /\ List = <<>> THEN "cpu" ELSE phase,
  firing <- exeEvt,
  lag    <- IF phase = "handler" THEN -oldtime ELSE 0

RefinesTimeline == Timeline!Init /\ [][Sorted => Timeline!Next]_Timeline!vars

(* The SPU event comes round again and again, whatever the devices do.     *)
SpuRecurs == SpuAsync => []<>(exeEvt = SPU)

=============================================================================
