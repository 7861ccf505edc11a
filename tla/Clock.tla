------------------------------- MODULE Clock --------------------------------
(***************************************************************************)
(* The clock of the board and the main loop that lives by it               *)
(* (bsp_ticktimer.c, sys_arch.c, main.c, LWIP_Polling).                    *)
(*                                                                         *)
(* SysTick_ISR interrupts the main loop between any two of its accesses to *)
(* memory, but where interrupts are masked.  The loop is polling, which    *)
(* runs the timer of a protocol when timer_expired says so; the soft       *)
(* timer; and bsp_DelayMS.  The timers of the protocols differ only in     *)
(* their interval, so there is one.                                        *)
(***************************************************************************)
EXTENDS Integers

CONSTANTS
  TicksPer10ms,   \* interrupts between two calls of bsp_RunPer10ms
  ClockMod,       \* the values of lwip_timer (2^32)
  Interval,       \* of the protocol's timer, in steps of lwip_timer
  Period,         \* of the soft timer, in interrupts
  Delays,         \* what bsp_DelayMS is called with
  MaxStall        \* bound: the interrupts in one pass of the main loop, but
                  \* for bsp_DelayMS, where it waits for them

ASSUME ClockAssumption ==
  /\ TicksPer10ms \in Nat \ {0} /\ ClockMod \in Nat \ {0}
  /\ Interval \in 1..(ClockMod - 1) /\ Period \in Nat \ {0}
  /\ Delays \subseteq Nat /\ MaxStall \in Nat

VARIABLES
  clock,   \* what the interrupt counts: s_count, lwip_timer, and for bsp_DelayMS
           \* s_uiDelayCount and s_ucTimeOutFlag
  tmr,     \* s_tTmr[0]: Count, PreLoad, Flag, Mode
  loop,    \* the main loop: pc, last_time, what it read
  seen     \* history, cf. SeenReset

clockVars == <<clock, tmr, loop, seen>>

(* stall: interrupts in this pass; waited: since the delay began; asked: its  *)
(* length; phase: since the soft timer was started, or last due; owed: times  *)
(* it was due and not reported, at most 2; age: steps of lwip_timer since     *)
(* last_time was set; early: the protocol's timer ran before its interval.    *)
SeenReset == [stall |-> 0, waited |-> 0, asked |-> 0, phase |-> Period, owed |-> 0,
              age |-> 0, early |-> FALSE]

TimerStopped == [Count |-> 0, PreLoad |-> 0, Flag |-> 0, Mode |-> "ONCE"]

ClockInit ==
  /\ clock = [s_count |-> 0, lwip_timer |-> 0, delay |-> 0, timeout |-> 0]
  /\ tmr = TimerStopped
  /\ loop = [pc |-> "poll", last |-> 0]
  /\ seen = SeenReset

-----------------------------------------------------------------------------
(* The interrupt *)

(* bsp_SoftTimerDec *)
SoftTimerDec(t) ==
  CASE t.Count = 0 -> t
    [] t.Count = 1 -> [t EXCEPT !.Count = IF t.Mode = "AUTO" THEN t.PreLoad ELSE 0, !.Flag = 1]
    [] OTHER       -> [t EXCEPT !.Count = @ - 1]

DelayDec(c) ==
  IF c.delay = 0 THEN c
  ELSE [c EXCEPT !.delay = @ - 1, !.timeout = IF c.delay = 1 THEN 1 ELSE @]

(* Bug: off by one. *)
TenMsLate(c) == c.s_count + 1 > TicksPer10ms

TenMs(c) == c.s_count + 1 >= TicksPer10ms

Count10ms(c) ==
  IF TenMs(c) THEN [c EXCEPT !.s_count = 0, !.lwip_timer = (@ + 1) % ClockMod]
  ELSE [c EXCEPT !.s_count = @ + 1]

UpTo(n, max) == IF n > max THEN max ELSE n

Due == seen.phase + 1 = Period

Delaying == loop.pc = "wait" /\ clock.timeout = 0

SysTick_ISR ==
  /\ seen.stall < MaxStall \/ Delaying
  /\ clock' = Count10ms(DelayDec(clock))
  /\ tmr' = SoftTimerDec(tmr)
  /\ seen' = [seen EXCEPT
                !.stall = IF Delaying THEN @ ELSE @ + 1,
                !.waited = UpTo(@ + 1, seen.asked),
                !.phase = IF Due /\ tmr.Mode = "AUTO" THEN 0 ELSE UpTo(@ + 1, Period),
                !.owed = IF Due THEN UpTo(@ + 1, 2) ELSE @,
                !.age = IF TenMs(clock) THEN UpTo(@ + 1, Interval) ELSE @]
  /\ UNCHANGED loop

-----------------------------------------------------------------------------
(* The main loop, one access at a time *)

Goto(from, to) == loop.pc = from /\ loop' = [loop EXCEPT !.pc = to]

(* Bugs: the difference is signed; its sign is dropped. *)
ElapsedSigned(now, last)   == now - last
ElapsedAbsolute(now, last) == IF now < last THEN last - now ELSE now - last

(* The difference of two readings is unsigned. *)
Elapsed(now, last) == (now - last) % ClockMod

(* timer_expired reads the clock, and reads it again to remember it. *)
TimerTest ==
  /\ IF Elapsed(clock.lwip_timer, loop.last) >= Interval
     THEN Goto("poll", "expired") ELSE Goto("poll", "api")
  /\ seen' = [seen EXCEPT !.stall = 0]
  /\ UNCHANGED <<clock, tmr>>

TimerRestart ==
  /\ loop.pc = "expired"
  /\ loop' = [pc |-> "api", last |-> clock.lwip_timer]
  /\ seen' = [seen EXCEPT !.age = 0, !.early = seen.age < Interval]
  /\ UNCHANGED <<clock, tmr>>

Loaded(n, mode) == [Count |-> n, PreLoad |-> n, Flag |-> 0, Mode |-> mode]

(* bsp_StartTimer, bsp_StartAutoTimer and bsp_StopTimer mask interrupts. *)
SetTimer(n, mode) ==
  /\ tmr' = Loaded(n, mode)
  /\ seen' = [seen EXCEPT !.phase = 0, !.owed = 0]
  /\ UNCHANGED clock

bsp_StartTimer     == Goto("api", "check") /\ SetTimer(Period, "ONCE")
bsp_StartAutoTimer == Goto("api", "check") /\ SetTimer(Period, "AUTO")
bsp_StopTimer      ==
  /\ Goto("api", "check")
  /\ tmr' = [TimerStopped EXCEPT !.PreLoad = tmr.PreLoad]
  /\ seen' = [seen EXCEPT !.phase = Period, !.owed = 0]
  /\ UNCHANGED clock
NoCall == Goto("api", "check") /\ UNCHANGED <<clock, tmr, seen>>

(* bsp_CheckTimer tests the flag and then clears it. *)
CheckFlag ==
  /\ IF tmr.Flag = 1 THEN Goto("check", "clear") ELSE Goto("check", "delay")
  /\ UNCHANGED <<clock, tmr, seen>>

ClearFlag ==
  /\ Goto("clear", "delay")
  /\ tmr' = [tmr EXCEPT !.Flag = 0]
  /\ seen' = [seen EXCEPT !.owed = 0]
  /\ UNCHANGED clock

DelaySet(c, n) == [c EXCEPT !.delay = n, !.timeout = 0]

AtLeast2(n) == IF n = 1 THEN 2 ELSE n

(* bsp_DelayMS sets its two variables with interrupts masked, and waits. *)
bsp_DelayMS ==
  /\ \E n \in Delays :
       IF n = 0 THEN Goto("delay", "poll") /\ UNCHANGED <<clock, seen>>
       ELSE /\ Goto("delay", "wait")
            /\ clock' = DelaySet(clock, AtLeast2(n))
            /\ seen' = [seen EXCEPT !.waited = 0, !.asked = AtLeast2(n)]
  /\ UNCHANGED tmr

DelayOver ==
  /\ clock.timeout = 1
  /\ Goto("wait", "poll")
  /\ seen' = [seen EXCEPT !.waited = 0, !.asked = 0]
  /\ UNCHANGED <<clock, tmr>>

MainLoop ==
  \/ TimerTest \/ TimerRestart
  \/ bsp_StartTimer \/ bsp_StartAutoTimer \/ bsp_StopTimer \/ NoCall
  \/ CheckFlag \/ ClearFlag
  \/ bsp_DelayMS \/ DelayOver

ClockNext == SysTick_ISR \/ MainLoop

ClockSpec ==
  ClockInit /\ [][ClockNext]_clockVars /\ WF_clockVars(SysTick_ISR) /\ WF_clockVars(MainLoop)

-----------------------------------------------------------------------------
(* Properties *)

(* The types of the variables of bsp_ticktimer.c, bsp.c and LWIP_Polling. *)
ClockTypeOK ==
  /\ clock.s_count \in 0..(TicksPer10ms - 1) /\ clock.lwip_timer \in 0..(ClockMod - 1)
  /\ clock.delay \in Nat /\ clock.timeout \in {0, 1}
  /\ tmr \in [Count : 0..Period, PreLoad : 0..Period, Flag : {0, 1}, Mode : {"ONCE", "AUTO"}]
  /\ loop.last \in 0..(ClockMod - 1)
  /\ loop.pc \in {"poll", "expired", "api", "check", "clear", "delay", "wait"}

(* bsp_DelayMS, whose variables the interrupt shares, lets the loop go on     *)
(* after as many interrupts as were asked for, neither earlier (by a flag     *)
(* that is left from before) nor later.                                       *)
DelayExact == loop.pc = "wait" => (clock.timeout = 1 <=> seen.waited = seen.asked)

(* The flag that bsp_CheckTimer tests and clears in two accesses stands for   *)
(* the times the timer was due since the last report: none is lost, and none  *)
(* of before the timer was started or stopped is reported.                    *)
FlagMeansDue == tmr.Flag = 1 <=> seen.owed > 0

(* An automatic timer does not drift, however late its flag is looked at.     *)
AutoTimerSteady == tmr.Mode = "AUTO" => tmr.Count = Period - seen.phase

(* The timer of a protocol never runs before its interval has passed, also    *)
(* where lwip_timer wraps and where it advances between its two readings.     *)
NotBeforeInterval == ~seen.early

(* What the interrupt counts and the main loop reads is exact, wherever the   *)
(* one comes in the other.                                                    *)
TimersExact == DelayExact /\ FlagMeansDue /\ AutoTimerSteady /\ NotBeforeInterval

(* The timer of a protocol runs when its interval has passed. *)
ProtocolTimerRuns == seen.age >= Interval ~> seen.age < Interval

(* A soft timer that was due is reported, or set anew. *)
ExpiryReported == seen.owed > 0 ~> seen.owed = 0

(* bsp_DelayMS returns. *)
DelayEnds == loop.pc = "wait" ~> loop.pc = "poll"

(* What the main loop waits for comes: wraps and late looks lose nothing.     *)
ClockServes == ProtocolTimerRuns /\ ExpiryReported /\ DelayEnds
=============================================================================
