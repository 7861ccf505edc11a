---------------------------- MODULE Board_proofs ----------------------------
(***************************************************************************)
(* Proofs about the parts of Board, for every value of their constants:    *)
(* the clock, the interface, the keys, reassembly and the Ethernet         *)
(* controller, and all of them side by side at the end.                    *)
(*                                                                         *)
(* Keys: the ring holds the codes that were put and not got yet, and the   *)
(* counters of a key say for how long it was up or down.                   *)
(*                                                                         *)
(* Reassembly: the list has the datagrams with the newest first, so that   *)
(* the timers fall along it and the oldest is the last; the blocks and     *)
(* pbufs that are not free are those of the datagrams in the list.         *)
(*                                                                         *)
(* The controller: places in the ring are compared by their distance from  *)
(* the oldest frame that is still to be read, in the direction in which    *)
(* the controller writes.  The frames lie one after another in that order, *)
(* the controller writes behind the last, and the driver knows, at each of *)
(* its steps, where the first one is.                                      *)
(***************************************************************************)
EXTENDS Board, FiniteSetTheorems, SequenceTheorems, WellFoundedInduction, TLAPS

-----------------------------------------------------------------------------
(* The clock.

   The inductive invariant has one part for each of the three things that the
   interrupt and the main loop share: the delay, the soft timer and
   lwip_timer.  Each says what the history knows of it exactly, which the
   properties alone do not: that a flag is 1 when it should be says nothing of
   when it will be. *)

ClockTypes ==
  /\ clock \in [s_count : 0..(TicksPer10ms - 1), lwip_timer : 0..(ClockMod - 1),
                delay : Nat, timeout : {0, 1}]
  /\ tmr \in [Count : 0..Period, PreLoad : 0..Period, Flag : {0, 1}, Mode : {"ONCE", "AUTO"}]
  /\ loop \in [pc : {"poll", "expired", "api", "check", "clear", "delay", "wait"},
               last : 0..(ClockMod - 1)]
  /\ seen \in [stall : Nat, waited : Nat, asked : Nat, phase : 0..Period, owed : 0..2,
               age : 0..Interval, early : BOOLEAN]

(* The count of a delay is what is left of it, and 0 when nobody waits. *)
DelayInv ==
  IF loop.pc = "wait"
  THEN /\ seen.waited + clock.delay = seen.asked
       /\ clock.timeout = 1 <=> clock.delay = 0
  ELSE clock.delay = 0 /\ seen.waited = 0 /\ seen.asked = 0

(* The count of the timer is what is left of its period. *)
TimerInv ==
  /\ tmr.Count = Period - seen.phase
  /\ tmr.Mode = "AUTO" => tmr.PreLoad = Period /\ seen.phase < Period
  /\ tmr.Flag = 1 <=> seen.owed > 0

(* Until the interval has passed, what timer_expired computes is the time     *)
(* since it remembered the clock; afterwards that may wrap.                   *)
ProtocolInv ==
  /\ seen.age < Interval => Elapsed(clock.lwip_timer, loop.last) = seen.age
  /\ loop.pc = "expired" => seen.age = Interval
  /\ ~seen.early

ClockInv == ClockTypes /\ DelayInv /\ TimerInv /\ ProtocolInv

-----------------------------------------------------------------------------
(* Arithmetic of lwip_timer *)

(* The constants are numbers. *)
LEMMA Constants ==
  /\ TicksPer10ms \in Nat /\ TicksPer10ms > 0 /\ ClockMod \in Nat /\ ClockMod > 0
  /\ Interval \in Nat /\ Interval > 0 /\ Interval < ClockMod
  /\ Period \in Nat /\ Period > 0 /\ Delays \subseteq Nat
BY ClockAssumption

(* A remainder of a number below the modulus, or one modulus below it. *)
LEMMA SmallRemainder ==
  ASSUME NEW m \in Nat \ {0}, NEW x \in 0..(m - 1)
  PROVE  x % m = x
BY SMT

LEMMA NegativeRemainder ==
  ASSUME NEW m \in Nat \ {0}, NEW x \in 1..m
  PROVE  (x - m) % m = x % m
BY SMT

LEMMA FullRemainder ==
  ASSUME NEW m \in Nat \ {0}
  PROVE  m % m = 0
BY SMT

(* The unsigned difference of two readings, without the remainder. *)
LEMMA ElapsedCases ==
  ASSUME NEW now \in 0..(ClockMod - 1), NEW last \in 0..(ClockMod - 1)
  PROVE  Elapsed(now, last) = IF now >= last THEN now - last ELSE now - last + ClockMod
<1>1. ClockMod \in Nat \ {0} /\ now \in Int /\ last \in Int
  BY Constants
<1>2. CASE now >= last
  <2>1. now - last \in 0..(ClockMod - 1)
    BY <1>1, <1>2
  <2>2. QED
    BY <2>1, <1>1, <1>2, SmallRemainder DEF Elapsed
<1>3. CASE now < last
  <2>1. DEFINE x == now - last + ClockMod
  <2>2. x \in 1..ClockMod /\ x \in 0..(ClockMod - 1) /\ x - ClockMod = now - last
    BY <1>1, <1>3
  <2>3. (x - ClockMod) % ClockMod = x % ClockMod
    BY <2>2, <1>1, NegativeRemainder
  <2>4. x % ClockMod = x
    BY <2>2, <1>1, SmallRemainder
  <2>5. QED
    BY <2>2, <2>3, <2>4, <1>1, <1>3 DEF Elapsed
<1>4. QED
  BY <1>1, <1>2, <1>3

(* The clock counts on, and starts again at its largest value. *)
LEMMA CountOn ==
  ASSUME NEW now \in 0..(ClockMod - 1)
  PROVE  /\ (now + 1) % ClockMod = IF now = ClockMod - 1 THEN 0 ELSE now + 1
         /\ (now + 1) % ClockMod \in 0..(ClockMod - 1)
<1>1. ClockMod \in Nat \ {0} /\ now \in Int
  BY Constants
<1>2. CASE now = ClockMod - 1
  <2>1. now + 1 = ClockMod
    BY <1>1, <1>2
  <2>2. QED
    BY <2>1, <1>1, <1>2, FullRemainder
<1>3. CASE now # ClockMod - 1
  <2>1. now + 1 \in 0..(ClockMod - 1)
    BY <1>1, <1>3
  <2>2. QED
    BY <2>1, <1>1, <1>3, SmallRemainder
<1>4. QED
  BY <1>2, <1>3

(* A step of the clock adds one to the difference, until that would wrap. *)
LEMMA ElapsedStep ==
  ASSUME NEW now \in 0..(ClockMod - 1), NEW last \in 0..(ClockMod - 1),
         Elapsed(now, last) < ClockMod - 1
  PROVE  Elapsed((now + 1) % ClockMod, last) = Elapsed(now, last) + 1
<1>1. DEFINE next == (now + 1) % ClockMod
<1>2. /\ next = IF now = ClockMod - 1 THEN 0 ELSE now + 1
      /\ next \in 0..(ClockMod - 1)
  BY CountOn
<1>3. Elapsed(now, last) = IF now >= last THEN now - last ELSE now - last + ClockMod
  BY ElapsedCases
<1>4. Elapsed(next, last) = IF next >= last THEN next - last ELSE next - last + ClockMod
  BY <1>2, ElapsedCases
<1>5. now \in Int /\ last \in Int /\ ClockMod \in Nat
  BY Constants
<1>6. HIDE DEF next
<1>7. Elapsed(next, last) = Elapsed(now, last) + 1
  BY <1>2, <1>3, <1>4, <1>5, SMTT(20)
<1>8. QED
  BY <1>7 DEF next

-----------------------------------------------------------------------------
(* The invariant is inductive *)

(* It holds when the board is switched on. *)
LEMMA ClockInitInv == ClockInit => ClockInv
<1>1. SUFFICES ASSUME ClockInit PROVE ClockInv
  OBVIOUS
<1>2. ClockTypes
  BY <1>1, Constants DEF ClockInit, ClockTypes, SeenReset, TimerStopped
<1>3. DelayInv /\ TimerInv
  BY <1>1, Constants DEF ClockInit, DelayInv, TimerInv, SeenReset, TimerStopped
<1>4. ProtocolInv
  <2>1. 0 \in 0..(ClockMod - 1)
    BY Constants
  <2>2. Elapsed(0, 0) = 0
    BY <2>1, ElapsedCases
  <2>3. QED
    BY <1>1, <2>2 DEF ClockInit, ProtocolInv, SeenReset
<1>5. QED
  BY <1>2, <1>3, <1>4 DEF ClockInv

(* The interrupt, part by part. *)
LEMMA InterruptTypes ==
  ASSUME ClockInv, SysTick_ISR
  PROVE  ClockTypes'
<1>1. clock' \in [s_count : 0..(TicksPer10ms - 1), lwip_timer : 0..(ClockMod - 1),
                  delay : Nat, timeout : {0, 1}]
  <2>1. (clock.lwip_timer + 1) % ClockMod \in 0..(ClockMod - 1)
    BY CountOn DEF ClockInv, ClockTypes
  <2>2. clock = [s_count |-> clock.s_count, lwip_timer |-> clock.lwip_timer,
                 delay |-> clock.delay, timeout |-> clock.timeout]
    BY DEF ClockInv, ClockTypes
  <2>3. /\ clock.s_count \in 0..(TicksPer10ms - 1) /\ clock.lwip_timer \in 0..(ClockMod - 1)
        /\ clock.delay \in Nat /\ clock.timeout \in {0, 1}
    BY DEF ClockInv, ClockTypes
  <2>4. PICK d \in Nat, f \in {0, 1} :
          DelayDec(clock) = [clock EXCEPT !.delay = d, !.timeout = f]
    <3>1. CASE clock.delay = 0
      <4>1. DelayDec(clock) = [clock EXCEPT !.delay = clock.delay, !.timeout = clock.timeout]
        BY <2>2, <3>1 DEF DelayDec
      <4>2. QED
        BY <4>1, <2>3
    <3>2. CASE clock.delay # 0
      <4>1. DelayDec(clock) = [clock EXCEPT !.delay = clock.delay - 1,
                                 !.timeout = IF clock.delay = 1 THEN 1 ELSE clock.timeout]
        BY <3>2 DEF DelayDec
      <4>2. clock.delay - 1 \in Nat /\ (IF clock.delay = 1 THEN 1 ELSE clock.timeout) \in {0, 1}
        BY <2>3, <3>2
      <4>3. QED
        BY <4>1, <4>2
    <3>3. QED
      BY <3>1, <3>2
  <2>5. PICK s \in 0..(TicksPer10ms - 1), l \in 0..(ClockMod - 1) :
          clock' = [s_count |-> s, lwip_timer |-> l, delay |-> d, timeout |-> f]
    <3>1. DelayDec(clock) = [s_count |-> clock.s_count, lwip_timer |-> clock.lwip_timer,
                             delay |-> d, timeout |-> f]
      BY <2>2, <2>4
    <3>2. clock' = Count10ms(DelayDec(clock))
      BY DEF SysTick_ISR
    <3>3. CASE clock.s_count + 1 >= TicksPer10ms
      <4>1. clock' = [s_count |-> 0, lwip_timer |-> (clock.lwip_timer + 1) % ClockMod,
                      delay |-> d, timeout |-> f]
        <5>1. DEFINE c == DelayDec(clock)
                     x == (clock.lwip_timer + 1) % ClockMod
        <5>2. c.s_count = clock.s_count /\ c.lwip_timer = clock.lwip_timer
          BY <3>1
        <5>3. clock' = [c EXCEPT !.s_count = 0, !.lwip_timer = x]
          BY <3>2, <3>3, <5>2 DEF Count10ms, TenMs
        <5>4. c = [s_count |-> clock.s_count, lwip_timer |-> clock.lwip_timer,
                   delay |-> d, timeout |-> f]
          BY <3>1
        <5>5. HIDE DEF c, x
        <5>6. clock' = [s_count |-> 0, lwip_timer |-> x, delay |-> d, timeout |-> f]
          BY <5>3, <5>4
        <5>7. QED
          BY <5>6 DEF x
      <4>2. 0 \in 0..(TicksPer10ms - 1)
        BY Constants
      <4>3. QED
        BY <4>1, <4>2, <2>1
    <3>4. CASE ~(clock.s_count + 1 >= TicksPer10ms)
      <4>1. clock' = [s_count |-> clock.s_count + 1, lwip_timer |-> clock.lwip_timer,
                      delay |-> d, timeout |-> f]
        BY <3>1, <3>2, <3>4 DEF Count10ms, TenMs
      <4>2. clock.s_count + 1 \in 0..(TicksPer10ms - 1)
        BY <2>3, <3>4, Constants
      <4>3. QED
        BY <4>1, <4>2, <2>3
    <3>5. QED
      BY <3>3, <3>4
  <2>6. QED
    BY <2>5
<1>2. tmr' \in [Count : 0..Period, PreLoad : 0..Period, Flag : {0, 1}, Mode : {"ONCE", "AUTO"}]
  <2>1. /\ tmr \in [Count : 0..Period, PreLoad : 0..Period, Flag : {0, 1}, Mode : {"ONCE", "AUTO"}]
        /\ tmr.Count \in 0..Period /\ tmr.PreLoad \in 0..Period /\ Period \in Nat
        /\ tmr' = SoftTimerDec(tmr)
    BY Constants DEF ClockInv, ClockTypes, SysTick_ISR
  <2>2. CASE tmr.Count = 0
    BY <2>1, <2>2 DEF SoftTimerDec
  <2>3. CASE tmr.Count = 1
    <3>1. tmr' = [tmr EXCEPT !.Count = IF tmr.Mode = "AUTO" THEN tmr.PreLoad ELSE 0, !.Flag = 1]
      BY <2>1, <2>3 DEF SoftTimerDec
    <3>2. (IF tmr.Mode = "AUTO" THEN tmr.PreLoad ELSE 0) \in 0..Period
      BY <2>1
    <3>3. QED
      BY <2>1, <3>1, <3>2
  <2>4. CASE tmr.Count \notin {0, 1}
    <3>1. tmr' = [tmr EXCEPT !.Count = tmr.Count - 1] /\ tmr.Count - 1 \in 0..Period
      BY <2>1, <2>4 DEF SoftTimerDec
    <3>2. QED
      BY <2>1, <3>1
  <2>5. QED
    BY <2>2, <2>3, <2>4
<1>3. loop' = loop
  BY DEF SysTick_ISR
<1>4. seen' \in [stall : Nat, waited : Nat, asked : Nat, phase : 0..Period, owed : 0..2,
                 age : 0..Interval, early : BOOLEAN]
  <2>1. /\ seen.stall \in Nat /\ seen.waited \in Nat /\ seen.asked \in Nat
        /\ seen.phase \in 0..Period /\ seen.owed \in 0..2 /\ seen.age \in 0..Interval
        /\ seen \in [stall : Nat, waited : Nat, asked : Nat, phase : 0..Period, owed : 0..2,
                     age : 0..Interval, early : BOOLEAN]
    BY DEF ClockInv, ClockTypes
  <2>2. (IF Delaying THEN seen.stall ELSE seen.stall + 1) \in Nat
    BY <2>1
  <2>3. UpTo(seen.waited + 1, seen.asked) \in Nat
    BY <2>1 DEF UpTo
  <2>4. (IF Due /\ tmr.Mode = "AUTO" THEN 0 ELSE UpTo(seen.phase + 1, Period)) \in 0..Period
    BY <2>1, Constants DEF UpTo
  <2>5. (IF Due THEN UpTo(seen.owed + 1, 2) ELSE seen.owed) \in 0..2
    BY <2>1 DEF UpTo
  <2>6. (IF TenMs(clock) THEN UpTo(seen.age + 1, Interval) ELSE seen.age) \in 0..Interval
    BY <2>1, Constants DEF UpTo
  <2>7. QED
    BY <2>1, <2>2, <2>3, <2>4, <2>5, <2>6 DEF SysTick_ISR
<1>5. QED
  BY <1>1, <1>2, <1>3, <1>4 DEF ClockInv, ClockTypes

LEMMA InterruptDelay ==
  ASSUME ClockInv, SysTick_ISR
  PROVE  DelayInv'
<1>1. /\ clock'.delay = IF clock.delay = 0 THEN 0 ELSE clock.delay - 1
      /\ clock'.timeout = IF clock.delay = 1 THEN 1 ELSE clock.timeout
  BY DEF ClockInv, ClockTypes, SysTick_ISR, Count10ms, DelayDec
<1>2. /\ seen'.asked = seen.asked
      /\ seen'.waited = UpTo(seen.waited + 1, seen.asked)
      /\ loop' = loop
  BY DEF ClockInv, ClockTypes, SysTick_ISR
<1>3. clock.delay \in Nat /\ seen.waited \in Nat /\ seen.asked \in Nat
  BY DEF ClockInv, ClockTypes
<1>4. QED
  BY <1>1, <1>2, <1>3 DEF ClockInv, DelayInv, UpTo

LEMMA InterruptTimer ==
  ASSUME ClockInv, SysTick_ISR
  PROVE  TimerInv'
<1>1. tmr' = SoftTimerDec(tmr) /\ tmr.Count = Period - seen.phase
  BY DEF SysTick_ISR, ClockInv, TimerInv
<1>2. /\ seen'.phase = IF Due /\ tmr.Mode = "AUTO" THEN 0 ELSE UpTo(seen.phase + 1, Period)
      /\ seen'.owed = IF Due THEN UpTo(seen.owed + 1, 2) ELSE seen.owed
  BY DEF ClockInv, ClockTypes, SysTick_ISR
<1>3. /\ seen.phase \in 0..Period /\ seen.owed \in 0..2 /\ Period \in Nat
      /\ tmr \in [Count : 0..Period, PreLoad : 0..Period, Flag : {0, 1}, Mode : {"ONCE", "AUTO"}]
  BY Constants DEF ClockInv, ClockTypes
<1>4. /\ tmr.Mode = "AUTO" => tmr.PreLoad = Period /\ seen.phase < Period
      /\ tmr.Flag = 1 <=> seen.owed > 0
  BY DEF ClockInv, TimerInv
<1>5. CASE tmr.Count = 0
  <2>1. tmr' = tmr /\ ~Due /\ seen.phase = Period /\ tmr.Mode # "AUTO"
    BY <1>1, <1>3, <1>4, <1>5 DEF SoftTimerDec, Due
  <2>2. seen'.phase = Period /\ seen'.owed = seen.owed
    BY <2>1, <1>2, <1>3 DEF UpTo
  <2>3. QED
    BY <2>1, <2>2, <1>1, <1>4 DEF TimerInv
<1>6. CASE tmr.Count = 1
  <2>1. tmr' = [tmr EXCEPT !.Count = IF tmr.Mode = "AUTO" THEN tmr.PreLoad ELSE 0, !.Flag = 1]
    BY <1>1, <1>3, <1>6 DEF SoftTimerDec
  <2>2. Due
    BY <1>1, <1>3, <1>6 DEF Due
  <2>3. seen'.owed > 0 /\ seen'.phase = IF tmr.Mode = "AUTO" THEN 0 ELSE Period
    BY <2>2, <1>2, <1>3 DEF UpTo, Due
  <2>4. /\ tmr'.Count = IF tmr.Mode = "AUTO" THEN tmr.PreLoad ELSE 0
        /\ tmr'.Flag = 1 /\ tmr'.Mode = tmr.Mode /\ tmr'.PreLoad = tmr.PreLoad
    BY <2>1, <1>3
  <2>5. QED
    BY <2>3, <2>4, <1>3, <1>4, Constants DEF TimerInv
<1>7. CASE tmr.Count \notin {0, 1}
  <2>1. tmr' = [tmr EXCEPT !.Count = @ - 1] /\ ~Due
    BY <1>1, <1>3, <1>7 DEF SoftTimerDec, Due
  <2>2. seen'.phase = seen.phase + 1 /\ seen'.owed = seen.owed /\ seen'.phase < Period
    BY <2>1, <1>1, <1>2, <1>3, <1>7 DEF UpTo, Due
  <2>3. /\ tmr'.Count = tmr.Count - 1
        /\ tmr'.Flag = tmr.Flag /\ tmr'.Mode = tmr.Mode /\ tmr'.PreLoad = tmr.PreLoad
    BY <2>1, <1>3
  <2>4. QED
    BY <2>2, <2>3, <1>1, <1>3, <1>4 DEF TimerInv
<1>8. QED
  BY <1>5, <1>6, <1>7

LEMMA InterruptProtocol ==
  ASSUME ClockInv, SysTick_ISR
  PROVE  ProtocolInv'
<1>1. /\ clock'.lwip_timer = IF TenMs(clock) THEN (clock.lwip_timer + 1) % ClockMod
                             ELSE clock.lwip_timer
      /\ loop' = loop
  BY DEF ClockInv, ClockTypes, SysTick_ISR, Count10ms, DelayDec, TenMs
<1>2. /\ seen'.age = IF TenMs(clock) THEN UpTo(seen.age + 1, Interval) ELSE seen.age
      /\ seen'.early = seen.early
  BY DEF ClockInv, ClockTypes, SysTick_ISR
<1>3. seen.age \in 0..Interval
  BY DEF ClockInv, ClockTypes
<1>4. /\ seen.age < Interval => Elapsed(clock.lwip_timer, loop.last) = seen.age
      /\ loop.pc = "expired" => seen.age = Interval
      /\ ~seen.early
  BY DEF ClockInv, ProtocolInv
<1>5. CASE TenMs(clock)
  <2>1. seen'.age < Interval => seen.age < Interval /\ seen'.age = seen.age + 1
    BY <1>2, <1>3, <1>5, Constants DEF UpTo
  <2>2. ASSUME seen'.age < Interval
        PROVE  Elapsed(clock'.lwip_timer, loop'.last) = seen'.age
    <3>1. Elapsed(clock.lwip_timer, loop.last) = seen.age /\ seen.age < ClockMod - 1
      BY <2>1, <2>2, <1>3, <1>4, Constants
    <3>2. clock.lwip_timer \in 0..(ClockMod - 1) /\ loop.last \in 0..(ClockMod - 1)
      BY DEF ClockInv, ClockTypes
    <3>3. Elapsed((clock.lwip_timer + 1) % ClockMod, loop.last) = seen.age + 1
      BY <3>1, <3>2, ElapsedStep
    <3>4. QED
      BY <3>3, <2>1, <2>2, <1>1, <1>5
  <2>3. seen.age = Interval => seen'.age = Interval
    BY <1>2, <1>5, Constants DEF UpTo
  <2>4. QED
    BY <2>2, <2>3, <1>1, <1>2, <1>4 DEF ProtocolInv, Elapsed
<1>6. CASE ~TenMs(clock)
  BY <1>1, <1>2, <1>4, <1>6 DEF ProtocolInv, Elapsed
<1>7. QED
  BY <1>5, <1>6

(* A step of the main loop that only moves on within the loop. *)
LEMMA OnlyMoves ==
  ASSUME ClockInv, UNCHANGED clock, UNCHANGED tmr,
         NEW to \in {"poll", "api", "check", "clear", "delay"},
         loop.pc # "wait", loop' = [loop EXCEPT !.pc = to],
         NEW n \in Nat, seen' = [seen EXCEPT !.stall = n]
  PROVE  ClockInv'
<1>1. loop'.pc = to /\ loop'.last = loop.last
  BY DEF ClockInv, ClockTypes
<1>2. /\ seen'.waited = seen.waited /\ seen'.asked = seen.asked /\ seen'.phase = seen.phase
      /\ seen'.owed = seen.owed /\ seen'.age = seen.age /\ seen'.early = seen.early
  BY DEF ClockInv, ClockTypes
<1>3. ClockTypes'
  BY DEF ClockInv, ClockTypes
<1>4. DelayInv' /\ TimerInv'
  BY <1>1, <1>2 DEF ClockInv, DelayInv, TimerInv
<1>5. ProtocolInv'
  BY <1>1, <1>2 DEF ClockInv, ProtocolInv, Elapsed
<1>6. QED
  BY <1>3, <1>4, <1>5 DEF ClockInv

(* A step of the main loop that sets the soft timer, and leaves the rest. *)
LEMMA OnlySets ==
  ASSUME ClockInv, UNCHANGED clock, TimerInv',
         NEW to \in {"check", "delay"},
         loop.pc # "wait", loop' = [loop EXCEPT !.pc = to],
         tmr' \in [Count : 0..Period, PreLoad : 0..Period, Flag : {0, 1},
                   Mode : {"ONCE", "AUTO"}],
         NEW n \in 0..Period, seen' = [seen EXCEPT !.phase = n, !.owed = 0]
  PROVE  ClockInv'
<1>1. loop'.pc = to /\ loop'.last = loop.last
  BY DEF ClockInv, ClockTypes
<1>2. /\ seen'.waited = seen.waited /\ seen'.asked = seen.asked
      /\ seen'.age = seen.age /\ seen'.early = seen.early
  BY DEF ClockInv, ClockTypes
<1>3. ClockTypes'
  <2>1. 0 \in 0..2
    OBVIOUS
  <2>2. seen \in [stall : Nat, waited : Nat, asked : Nat, phase : 0..Period, owed : 0..2,
                  age : 0..Interval, early : BOOLEAN]
    BY DEF ClockInv, ClockTypes
  <2>3. seen' \in [stall : Nat, waited : Nat, asked : Nat, phase : 0..Period, owed : 0..2,
                   age : 0..Interval, early : BOOLEAN]
    BY <2>1, <2>2, Zenon
  <2>4. QED
    BY <2>3 DEF ClockInv, ClockTypes
<1>4. DelayInv'
  BY <1>1, <1>2 DEF ClockInv, DelayInv
<1>5. ProtocolInv'
  BY <1>1, <1>2 DEF ClockInv, ProtocolInv, Elapsed
<1>6. QED
  BY <1>3, <1>4, <1>5 DEF ClockInv

(* timer_expired: the test finds the interval passed only if it has, and a
   step of the clock between the two readings changes nothing of that. *)
LEMMA TestKeeps ==
  ASSUME ClockInv, TimerTest
  PROVE  ClockInv'
<1>1. seen' = [seen EXCEPT !.stall = 0] /\ UNCHANGED clock /\ UNCHANGED tmr
  BY DEF TimerTest
<1>2. CASE Elapsed(clock.lwip_timer, loop.last) >= Interval
  <2>1. loop.pc = "poll" /\ loop' = [loop EXCEPT !.pc = "expired"]
    BY <1>2 DEF TimerTest, Goto
  <2>2. loop'.pc = "expired" /\ loop'.last = loop.last
    BY <2>1 DEF ClockInv, ClockTypes
  <2>3. /\ seen'.waited = seen.waited /\ seen'.asked = seen.asked /\ seen'.phase = seen.phase
        /\ seen'.owed = seen.owed /\ seen'.age = seen.age /\ seen'.early = seen.early
    BY <1>1 DEF ClockInv, ClockTypes
  <2>4. seen.age = Interval
    <3>1. seen.age \in 0..Interval
      BY DEF ClockInv, ClockTypes
    <3>2. ~(seen.age < Interval)
      <4>1. SUFFICES ASSUME seen.age < Interval PROVE FALSE
        OBVIOUS
      <4>2. Elapsed(clock.lwip_timer, loop.last) = seen.age
        BY <4>1 DEF ClockInv, ProtocolInv
      <4>3. QED
        BY <4>1, <4>2, <3>1, <1>2, Constants
    <3>3. QED
      BY <3>1, <3>2, Constants
  <2>5. ClockTypes'
    BY <1>1, <2>1 DEF ClockInv, ClockTypes
  <2>6. DelayInv' /\ TimerInv'
    BY <1>1, <2>1, <2>2, <2>3 DEF ClockInv, DelayInv, TimerInv
  <2>7. ProtocolInv'
    BY <1>1, <2>2, <2>3, <2>4 DEF ClockInv, ProtocolInv, Elapsed
  <2>8. QED
    BY <2>5, <2>6, <2>7 DEF ClockInv
<1>3. CASE ~(Elapsed(clock.lwip_timer, loop.last) >= Interval)
  <2>1. loop.pc = "poll" /\ loop' = [loop EXCEPT !.pc = "api"]
    BY <1>3 DEF TimerTest, Goto
  <2>2. QED
    BY <1>1, <2>1, OnlyMoves
<1>4. QED
  BY <1>2, <1>3

LEMMA RestartKeeps ==
  ASSUME ClockInv, TimerRestart
  PROVE  ClockInv'
<1>1. /\ loop.pc = "expired" /\ loop' = [pc |-> "api", last |-> clock.lwip_timer]
      /\ seen' = [seen EXCEPT !.age = 0, !.early = seen.age < Interval]
      /\ UNCHANGED clock /\ UNCHANGED tmr
  BY DEF TimerRestart
<1>2. /\ seen'.waited = seen.waited /\ seen'.asked = seen.asked /\ seen'.phase = seen.phase
      /\ seen'.owed = seen.owed /\ seen'.age = 0 /\ seen'.early = (seen.age < Interval)
  BY <1>1 DEF ClockInv, ClockTypes
<1>3. ClockTypes'
  <2>1. 0 \in 0..Interval /\ (seen.age < Interval) \in BOOLEAN
    BY Constants
  <2>2. seen' \in [stall : Nat, waited : Nat, asked : Nat, phase : 0..Period, owed : 0..2,
                   age : 0..Interval, early : BOOLEAN]
    BY <2>1, <1>1 DEF ClockInv, ClockTypes
  <2>3. loop' \in [pc : {"poll", "expired", "api", "check", "clear", "delay", "wait"},
                   last : 0..(ClockMod - 1)]
    BY <1>1 DEF ClockInv, ClockTypes
  <2>4. QED
    BY <2>2, <2>3, <1>1 DEF ClockInv, ClockTypes
<1>4. DelayInv' /\ TimerInv'
  BY <1>1, <1>2 DEF ClockInv, DelayInv, TimerInv
<1>5. ProtocolInv'
  <2>1. Elapsed(clock.lwip_timer, clock.lwip_timer) = 0
    <3>1. clock.lwip_timer \in 0..(ClockMod - 1) /\ clock.lwip_timer \in Int
      BY Constants DEF ClockInv, ClockTypes
    <3>2. QED
      BY <3>1, ElapsedCases
  <2>2. ~(seen.age < Interval)
    BY <1>1, Constants DEF ClockInv, ProtocolInv
  <2>3. QED
    BY <1>1, <1>2, <2>1, <2>2 DEF ProtocolInv, Elapsed
<1>6. QED
  BY <1>3, <1>4, <1>5 DEF ClockInv

(* bsp_StartTimer, bsp_StartAutoTimer. *)
LEMMA StartKeeps ==
  ASSUME ClockInv, NEW mode \in {"ONCE", "AUTO"},
         Goto("api", "check"), SetTimer(Period, mode)
  PROVE  ClockInv'
<1>1. /\ loop.pc # "wait" /\ loop' = [loop EXCEPT !.pc = "check"]
      /\ tmr' = [Count |-> Period, PreLoad |-> Period, Flag |-> 0, Mode |-> mode]
      /\ seen' = [seen EXCEPT !.phase = 0, !.owed = 0] /\ UNCHANGED clock
  BY DEF Goto, SetTimer, Loaded
<1>2. tmr' \in [Count : 0..Period, PreLoad : 0..Period, Flag : {0, 1}, Mode : {"ONCE", "AUTO"}]
  BY <1>1, Constants
<1>3. seen'.phase = 0 /\ seen'.owed = 0
  BY <1>1 DEF ClockInv, ClockTypes
<1>4. TimerInv'
  BY <1>1, <1>3, Constants DEF TimerInv
<1>5. 0 \in 0..Period
  BY Constants
<1>6. QED
  BY <1>1, <1>2, <1>4, <1>5, OnlySets

LEMMA StopKeeps ==
  ASSUME ClockInv, bsp_StopTimer
  PROVE  ClockInv'
<1>1. /\ loop.pc # "wait" /\ loop' = [loop EXCEPT !.pc = "check"]
      /\ tmr' = [Count |-> 0, PreLoad |-> tmr.PreLoad, Flag |-> 0, Mode |-> "ONCE"]
      /\ seen' = [seen EXCEPT !.phase = Period, !.owed = 0] /\ UNCHANGED clock
  BY DEF Goto, bsp_StopTimer, TimerStopped
<1>2. tmr' \in [Count : 0..Period, PreLoad : 0..Period, Flag : {0, 1}, Mode : {"ONCE", "AUTO"}]
  BY <1>1, Constants DEF ClockInv, ClockTypes
<1>3. seen'.phase = Period /\ seen'.owed = 0
  BY <1>1 DEF ClockInv, ClockTypes
<1>4. TimerInv'
  BY <1>1, <1>3, Constants DEF TimerInv
<1>5. Period \in 0..Period
  BY Constants
<1>6. QED
  BY <1>1, <1>2, <1>4, <1>5, OnlySets

(* bsp_CheckTimer: clearing the flag clears what it stands for. *)
LEMMA ClearKeeps ==
  ASSUME ClockInv, ClearFlag
  PROVE  ClockInv'
<1>1. /\ loop.pc # "wait" /\ loop' = [loop EXCEPT !.pc = "delay"]
      /\ tmr' = [tmr EXCEPT !.Flag = 0]
      /\ seen' = [seen EXCEPT !.owed = 0] /\ UNCHANGED clock
  BY DEF Goto, ClearFlag
<1>2. seen' = [seen EXCEPT !.phase = seen.phase, !.owed = 0] /\ seen.phase \in 0..Period
  BY <1>1 DEF ClockInv, ClockTypes
<1>3. seen'.phase = seen.phase /\ seen'.owed = 0
  BY <1>1 DEF ClockInv, ClockTypes
<1>4. /\ tmr'.Count = tmr.Count /\ tmr'.PreLoad = tmr.PreLoad /\ tmr'.Mode = tmr.Mode
      /\ tmr'.Flag = 0
      /\ tmr' \in [Count : 0..Period, PreLoad : 0..Period, Flag : {0, 1},
                   Mode : {"ONCE", "AUTO"}]
  BY <1>1 DEF ClockInv, ClockTypes
<1>5. TimerInv'
  BY <1>3, <1>4 DEF ClockInv, TimerInv
<1>6. QED
  BY <1>1, <1>2, <1>4, <1>5, OnlySets

LEMMA CheckKeeps ==
  ASSUME ClockInv, CheckFlag
  PROVE  ClockInv'
<1>1. seen.stall \in Nat /\ seen' = [seen EXCEPT !.stall = seen.stall]
  BY DEF ClockInv, ClockTypes, CheckFlag
<1>2. PICK to \in {"clear", "delay"} : loop' = [loop EXCEPT !.pc = to]
  BY DEF CheckFlag, Goto
<1>3. loop.pc # "wait" /\ UNCHANGED clock /\ UNCHANGED tmr
  BY DEF CheckFlag, Goto
<1>4. QED
  BY <1>1, <1>2, <1>3, OnlyMoves

LEMMA NoCallKeeps ==
  ASSUME ClockInv, NoCall
  PROVE  ClockInv'
<1>1. seen.stall \in Nat /\ seen' = [seen EXCEPT !.stall = seen.stall]
  BY DEF ClockInv, ClockTypes, NoCall
<1>2. loop.pc # "wait" /\ loop' = [loop EXCEPT !.pc = "check"] /\ UNCHANGED clock /\ UNCHANGED tmr
  BY DEF NoCall, Goto
<1>3. QED
  BY <1>1, <1>2, OnlyMoves

(* bsp_DelayMS: the count and the flag are set together. *)
LEMMA DelayKeeps ==
  ASSUME ClockInv, bsp_DelayMS
  PROVE  ClockInv'
<1>1. PICK n \in Delays :
        IF n = 0 THEN Goto("delay", "poll") /\ UNCHANGED <<clock, seen>>
        ELSE /\ Goto("delay", "wait")
             /\ clock' = DelaySet(clock, AtLeast2(n))
             /\ seen' = [seen EXCEPT !.waited = 0, !.asked = AtLeast2(n)]
  BY DEF bsp_DelayMS
<1>2. UNCHANGED tmr /\ n \in Nat
  BY Constants DEF bsp_DelayMS
<1>3. CASE n = 0
  <2>1. loop.pc # "wait" /\ loop' = [loop EXCEPT !.pc = "poll"] /\ UNCHANGED <<clock, seen>>
    BY <1>1, <1>3 DEF Goto
  <2>2. seen.stall \in Nat /\ seen' = [seen EXCEPT !.stall = seen.stall]
    BY <2>1 DEF ClockInv, ClockTypes
  <2>3. QED
    BY <2>1, <2>2, <1>2, OnlyMoves
<1>4. CASE n # 0
  <2>1. DEFINE d == AtLeast2(n)
  <2>2. d \in Nat /\ d > 0
    BY <1>2, <1>4 DEF AtLeast2
  <2>3. /\ loop.pc = "delay" /\ loop' = [loop EXCEPT !.pc = "wait"]
        /\ clock' = [clock EXCEPT !.delay = d, !.timeout = 0]
        /\ seen' = [seen EXCEPT !.waited = 0, !.asked = d]
    BY <1>1, <1>4 DEF Goto, DelaySet
  <2>4. HIDE DEF d
  <2>5. /\ loop'.pc = "wait" /\ loop'.last = loop.last
        /\ clock'.delay = d /\ clock'.timeout = 0 /\ clock'.lwip_timer = clock.lwip_timer
        /\ seen'.waited = 0 /\ seen'.asked = d
        /\ seen'.phase = seen.phase /\ seen'.owed = seen.owed
        /\ seen'.age = seen.age /\ seen'.early = seen.early
    BY <2>3 DEF ClockInv, ClockTypes
  <2>6. ClockTypes'
    BY <2>2, <2>3, <1>2 DEF ClockInv, ClockTypes
  <2>7. DelayInv'
    BY <2>2, <2>5 DEF DelayInv
  <2>8. TimerInv'
    BY <2>5, <1>2 DEF ClockInv, TimerInv
  <2>9. ProtocolInv'
    BY <2>5 DEF ClockInv, ProtocolInv, Elapsed
  <2>10. QED
    BY <2>6, <2>7, <2>8, <2>9 DEF ClockInv
<1>5. QED
  BY <1>3, <1>4

LEMMA DelayOverKeeps ==
  ASSUME ClockInv, DelayOver
  PROVE  ClockInv'
<1>1. /\ loop.pc = "wait" /\ loop' = [loop EXCEPT !.pc = "poll"] /\ clock.timeout = 1
      /\ seen' = [seen EXCEPT !.waited = 0, !.asked = 0] /\ UNCHANGED clock /\ UNCHANGED tmr
  BY DEF DelayOver, Goto
<1>2. /\ loop'.pc = "poll" /\ loop'.last = loop.last
      /\ seen'.waited = 0 /\ seen'.asked = 0
      /\ seen'.phase = seen.phase /\ seen'.owed = seen.owed
      /\ seen'.age = seen.age /\ seen'.early = seen.early
  BY <1>1 DEF ClockInv, ClockTypes
<1>3. ClockTypes'
  BY <1>1 DEF ClockInv, ClockTypes
<1>4. DelayInv'
  BY <1>1, <1>2 DEF ClockInv, DelayInv
<1>5. TimerInv'
  BY <1>1, <1>2 DEF ClockInv, TimerInv
<1>6. ProtocolInv'
  BY <1>1, <1>2 DEF ClockInv, ProtocolInv, Elapsed
<1>7. QED
  BY <1>3, <1>4, <1>5, <1>6 DEF ClockInv

LEMMA MainLoopKeeps ==
  ASSUME ClockInv, MainLoop
  PROVE  ClockInv'
<1>1. CASE bsp_StartTimer
  BY <1>1, StartKeeps DEF bsp_StartTimer
<1>2. CASE bsp_StartAutoTimer
  BY <1>2, StartKeeps DEF bsp_StartAutoTimer
<1>3. QED
  BY <1>1, <1>2, TestKeeps, RestartKeeps, StopKeeps, NoCallKeeps, CheckKeeps, ClearKeeps,
     DelayKeeps, DelayOverKeeps DEF MainLoop

(* Every step keeps the invariant. *)
LEMMA ClockInvInductive == ClockInv /\ [ClockNext]_clockVars => ClockInv'
<1>1. SUFFICES ASSUME ClockInv, [ClockNext]_clockVars PROVE ClockInv'
  OBVIOUS
<1>2. CASE SysTick_ISR
  BY <1>1, <1>2, InterruptTypes, InterruptDelay, InterruptTimer, InterruptProtocol DEF ClockInv
<1>3. CASE MainLoop
  BY <1>1, <1>3, MainLoopKeeps
<1>4. CASE UNCHANGED clockVars
  BY <1>1, <1>4 DEF ClockInv, ClockTypes, DelayInv, TimerInv, ProtocolInv, Elapsed, clockVars
<1>5. QED
  BY <1>1, <1>2, <1>3, <1>4 DEF ClockNext

(* What it says of the ranges, and of what is counted. *)
LEMMA ClockInvGives == ClockInv => ClockTypeOK /\ TimersExact
BY DEF ClockInv, ClockTypes, ClockTypeOK, DelayInv, TimerInv, ProtocolInv,
       DelayExact, FlagMeansDue, AutoTimerSteady, NotBeforeInterval, TimersExact

(* The inductive invariant, for every value of the constants. *)
LEMMA ClockInvHolds == ClockSpec => []ClockInv
BY ClockInitInv, ClockInvInductive, PTL DEF ClockSpec

-----------------------------------------------------------------------------
(* What it gives *)

(* The variables of bsp_ticktimer.c and of the main loop keep their ranges. *)
THEOREM ClockTypesOK == ClockSpec => []ClockTypeOK
<1>1. ClockInv => ClockTypeOK
  BY DEF ClockInv, ClockTypes, ClockTypeOK
<1>2. QED
  BY <1>1, ClockInvHolds, PTL

(* bsp_DelayMS goes on exactly when its time is over, wherever the interrupt
   comes. *)
THEOREM DelaysAreExact == ClockSpec => []DelayExact
<1>1. ClockInv => DelayExact
  BY DEF ClockInv, ClockTypes, DelayInv, DelayExact
<1>2. QED
  BY <1>1, ClockInvHolds, PTL

(* bsp_CheckTimer loses no expiry and reports none of before, though the
   interrupt may come between its test and its clearing. *)
THEOREM FlagsMeanDue == ClockSpec => []FlagMeansDue
<1>1. ClockInv => FlagMeansDue
  BY DEF ClockInv, TimerInv, FlagMeansDue
<1>2. QED
  BY <1>1, ClockInvHolds, PTL

(* An automatic timer keeps its phase. *)
THEOREM AutoTimersAreSteady == ClockSpec => []AutoTimerSteady
<1>1. ClockInv => AutoTimerSteady
  BY DEF ClockInv, TimerInv, AutoTimerSteady
<1>2. QED
  BY <1>1, ClockInvHolds, PTL

(* timer_expired never runs a timer early, for every width of the clock above
   the interval, across a wrap and between its two readings. *)
THEOREM NeverBeforeInterval == ClockSpec => []NotBeforeInterval
<1>1. ClockInv => NotBeforeInterval
  BY DEF ClockInv, ProtocolInv, NotBeforeInterval
<1>2. QED
  BY <1>1, ClockInvHolds, PTL

(* Whatever the interrupt counts and the main loop reads is exact: the four
   together. *)
THEOREM TimersAreExact == ClockSpec => []TimersExact
<1>1. DelayExact /\ FlagMeansDue /\ AutoTimerSteady /\ NotBeforeInterval => TimersExact
  BY DEF TimersExact
<1>2. QED
  BY <1>1, DelaysAreExact, FlagsMeanDue, AutoTimersAreSteady, NeverBeforeInterval, PTL

-----------------------------------------------------------------------------
(* The ARP table and the pbufs that frames are put into, for every number of
   hosts, entries, blocks and pbufs: an address has one entry, no block for
   waiting packets is lost, and a packet goes to the hardware address of its
   host, after those that came before it. *)

AnyAddress == Addresses \cup {NoAddr}

EntryType ==
  [state : {"EMPTY", "PENDING", "STABLE"}, ipaddr : AnyAddress, ethaddr : AnyAddress,
   ctime : Nat, q : Seq(Nat)]

PacketType == [ip : AnyAddress, to : AnyAddress, n : Nat]

ArpState ==
  [table : [ArpIndex -> EntryType], cached : ArpIndex, blocks : Nat, sent : Seq(PacketType)]

(* An entry by itself: a resolved one has the hardware address of its host,   *)
(* ages are in range, and packets wait only on a pending one, in order.       *)
EntrySound(e) ==
  /\ e.state = "STABLE" => e.ethaddr = e.ipaddr /\ e.ctime < ARP_MAXAGE
  /\ e.state = "PENDING" => e.ctime < ARP_MAXPENDING
  /\ e.state = "EMPTY" => e.ctime = 0
  /\ e.q # <<>> => e.state = "PENDING"
  /\ \A k \in DOMAIN e.q : e.q[k] = k

(* No two entries in use have one address.                                    *)
OneEach(a) ==
  \A i, j \in ArpIndex :
    /\ a.table[i].state # "EMPTY" /\ a.table[j].state # "EMPTY"
    /\ a.table[i].ipaddr = a.table[j].ipaddr
    => i = j

BlocksKept(a) ==
  /\ IsFiniteSet(QueuedOn(a, ArpIndex))
  /\ a.blocks + Cardinality(QueuedOn(a, ArpIndex)) = MEMP_NUM_ARP_QUEUE

Sound(a) ==
  /\ a \in ArpState /\ OneEach(a) /\ BlocksKept(a)
  /\ \A i \in ArpIndex : EntrySound(a.table[i])

(* What was sent, and that none waits on the address of one that was sent.    *)
SentSound(a) ==
  \A k \in DOMAIN a.sent :
    /\ a.sent[k].to = a.sent[k].ip /\ a.sent[k].n = k
    /\ \A i \in ArpIndex : a.table[i].ipaddr = a.sent[k].ip => a.table[i].q = <<>>

PbufsSound ==
  /\ pbufs \in Seq(Payloads) /\ pbufsheld \in Seq(Payloads)
  /\ Len(pbufs) + Len(pbufsheld) = PBUF_POOL_SIZE

NetifInv == Sound(arp) /\ SentSound(arp) /\ PbufsSound

-----------------------------------------------------------------------------
(* Queues and blocks *)

LEMMA QueueSize ==
  ASSUME NEW i, NEW q \in Seq(Nat)
  PROVE  IsFiniteSet({i} \X DOMAIN q) /\ Cardinality({i} \X DOMAIN q) = Len(q)
<1>1. DOMAIN q = 1..Len(q) /\ Len(q) \in Nat
  OBVIOUS
<1>2. IsFiniteSet(1..Len(q)) /\ Cardinality(1..Len(q)) = Len(q)
  BY <1>1, FS_Interval, SMTT(30)
<1>3. IsFiniteSet({i}) /\ Cardinality({i}) = 1
  BY FS_Singleton
<1>4. IsFiniteSet({i} \X (1..Len(q))) /\ Cardinality({i} \X (1..Len(q))) = 1 * Len(q)
  <2> DEFINE D == 1..Len(q)
  <2> HIDE DEF D
  <2>1. IsFiniteSet({i} \X D) /\ Cardinality({i} \X D) = Cardinality({i}) * Cardinality(D)
    BY <1>2, <1>3, FS_Product DEF D
  <2> QED  BY <1>2, <1>3, <2>1 DEF D
<1>5. 1 * Len(q) = Len(q)
  <2>1. \A n \in Nat : 1 * n = n
    OBVIOUS
  <2> QED  BY <1>1, <2>1
<1> QED  BY <1>1, <1>4, <1>5

(* The queues of all entries are that of one and those of the others.         *)
LEMMA QueuesWithout ==
  ASSUME NEW a, NEW i \in ArpIndex, a.table[i].q \in Seq(Nat),
         IsFiniteSet(QueuedOn(a, ArpIndex \ {i}))
  PROVE  /\ IsFiniteSet(QueuedOn(a, ArpIndex))
         /\ Cardinality(QueuedOn(a, ArpIndex))
              = Cardinality(QueuedOn(a, ArpIndex \ {i})) + Len(a.table[i].q)
<1> DEFINE rest == QueuedOn(a, ArpIndex \ {i})
           q == a.table[i].q
           own == {i} \X DOMAIN q
<1>1. QueuedOn(a, ArpIndex) = rest \cup own
  BY DEF QueuedOn
<1>2. rest \cap own = {}
  BY DEF QueuedOn
<1>3. IsFiniteSet(own) /\ Cardinality(own) = Len(q)
  BY QueueSize
<1> HIDE DEF rest, own
<1>4. Cardinality(rest \cap own) = 0
  BY <1>2, FS_EmptySet
<1>5. /\ IsFiniteSet(rest \cup own)
      /\ Cardinality(rest \cup own) = Cardinality(rest) + Cardinality(own) - Cardinality(rest \cap own)
  BY <1>3, FS_Union DEF rest
<1>6. Cardinality(rest) \in Nat /\ Cardinality(own) \in Nat
  BY <1>3, FS_CardinalityType DEF rest
<1> QED  BY <1>1, <1>3, <1>4, <1>5, <1>6 DEF rest

(* One queue changes, and the blocks that are free by as much.                *)
LEMMA BlocksKeptIf ==
  ASSUME NEW a \in ArpState, BlocksKept(a), NEW f \in ArpState, NEW i \in ArpIndex,
         \A j \in ArpIndex : j # i => f.table[j].q = a.table[j].q,
         f.blocks + Len(f.table[i].q) = a.blocks + Len(a.table[i].q)
  PROVE  BlocksKept(f)
<1> DEFINE rest == QueuedOn(a, ArpIndex \ {i})
<1>1. QueuedOn(f, ArpIndex \ {i}) = rest
  BY DEF QueuedOn
<1>2. a.table[i].q \in Seq(Nat) /\ f.table[i].q \in Seq(Nat) /\ a.blocks \in Nat /\ f.blocks \in Nat
  BY DEF ArpState, EntryType
<1>3. IsFiniteSet(rest) /\ Cardinality(rest) \in Nat
  <2>1. rest \subseteq QueuedOn(a, ArpIndex)
    BY DEF QueuedOn
  <2> HIDE DEF rest
  <2>2. IsFiniteSet(rest)
    BY <2>1, FS_Subset DEF BlocksKept
  <2> QED  BY <2>2, FS_CardinalityType
<1>4. Cardinality(QueuedOn(a, ArpIndex)) = Cardinality(rest) + Len(a.table[i].q)
  BY <1>2, <1>3, QueuesWithout
<1>5. /\ IsFiniteSet(QueuedOn(f, ArpIndex))
      /\ Cardinality(QueuedOn(f, ArpIndex)) = Cardinality(rest) + Len(f.table[i].q)
  BY <1>1, <1>2, <1>3, QueuesWithout
<1> HIDE DEF rest
<1>6. Len(a.table[i].q) \in Nat /\ Len(f.table[i].q) \in Nat
  BY <1>2
<1> DEFINE la == Len(a.table[i].q)
           lf == Len(f.table[i].q)
           c == Cardinality(rest)
<1>7. /\ a.blocks + (c + la) = MEMP_NUM_ARP_QUEUE /\ f.blocks + lf = a.blocks + la
      /\ la \in Nat /\ lf \in Nat /\ c \in Nat
  BY <1>3, <1>4, <1>6 DEF BlocksKept
<1> HIDE DEF la, lf, c
<1>8. f.blocks + (c + lf) = MEMP_NUM_ARP_QUEUE
  <2>1. PICK m \in Nat : m = a.blocks
    BY <1>2
  <2>2. PICK n \in Nat : n = f.blocks
    BY <1>2
  <2>3. n + lf = m + la
    BY <1>7, <2>1, <2>2
  <2>4. n + (c + lf) = m + (c + la)
    BY <1>7, <2>3
  <2> QED  BY <1>7, <2>1, <2>2, <2>4
<1> QED  BY <1>5, <1>8 DEF BlocksKept, c, lf

(* One entry changes: what is to be shown of it.                              *)
LEMMA SoundIf ==
  ASSUME NEW a, Sound(a), NEW f \in ArpState, NEW i \in ArpIndex,
         \A j \in ArpIndex : j # i => f.table[j] = a.table[j],
         f.blocks + Len(f.table[i].q) = a.blocks + Len(a.table[i].q),
         EntrySound(f.table[i]),
         f.table[i].state # "EMPTY" =>
           \A j \in ArpIndex : j # i /\ a.table[j].state # "EMPTY" =>
             a.table[j].ipaddr # f.table[i].ipaddr
  PROVE  Sound(f)
<1>1. BlocksKept(f)
  BY BlocksKeptIf DEF Sound
<1>2. OneEach(f)
  BY DEF Sound, OneEach
<1>3. \A j \in ArpIndex : EntrySound(f.table[j])
  <2>1. \A j \in ArpIndex : EntrySound(a.table[j])
    BY DEF Sound
  <2> QED  BY <2>1
<1> QED  BY <1>1, <1>2, <1>3 DEF Sound

-----------------------------------------------------------------------------
(* find_entry *)

LEMMA FirstIn ==
  ASSUME NEW S, S \subseteq Nat, S # {}
  PROVE  First(S) \in S /\ \A j \in S : First(S) <= j
<1> DEFINE R == OpToRel(<, Nat)
<1>1. IsWellFoundedOn(R, Nat)
  BY NatLessThanWellFounded
<1>2. PICK x \in S : \A y \in S : <<y, x>> \notin R
  <2> HIDE DEF R
  <2> QED  BY <1>1, WFMin
<1>3. \A y \in S : x <= y
  <2> SUFFICES ASSUME NEW y \in S, ~(x <= y) PROVE FALSE
    OBVIOUS
  <2> HIDE DEF R
  <2>1. x \in Nat /\ y \in Nat /\ y < x
    OBVIOUS
  <2> USE DEF R
  <2>2. <<y, x>> \in R
    BY <2>1 DEF OpToRel
  <2> QED  BY <2>2, <1>2
<1> QED  BY <1>3 DEF First

(* There is a last one of those that have the largest age.                    *)
LEMMA OldestIn ==
  ASSUME NEW a, Sound(a), NEW S, S \subseteq ArpIndex, S # {}
  PROVE  OldestOf(a, S) \in S
<1> DEFINE B == ARP_MAXAGE + ARP_MAXPENDING
           young(i) == B - a.table[i].ctime
<1>1. \A i \in S : a.table[i].ctime \in Nat /\ young(i) \in Nat
  <2> SUFFICES ASSUME NEW i \in S PROVE a.table[i].ctime \in Nat /\ young(i) \in Nat
    OBVIOUS
  <2>1. a.table[i] \in EntryType /\ EntrySound(a.table[i])
    BY DEF Sound, ArpState
  <2> QED  BY <2>1, EtharpAssumption DEF EntryType, EntrySound
<1> DEFINE Y == {young(i) : i \in S}
<1>2. Y \subseteq Nat /\ Y # {}
  BY <1>1
<1>3. PICK y \in Y : \A z \in Y : y <= z
  <2> HIDE DEF Y
  <2> QED  BY <1>2, FirstIn
<1>4. PICK o \in S : \A j \in S : a.table[j].ctime <= a.table[o].ctime
  <2>1. PICK o \in S : y = young(o)
    OBVIOUS
  <2>2. \A j \in S : young(o) <= young(j)
    BY <1>3, <2>1
  <2>3. B \in Nat
    BY EtharpAssumption
  <2> HIDE DEF B
  <2> QED  BY <1>1, <2>2, <2>3
<1> DEFINE E == {i \in S : a.table[i].ctime = a.table[o].ctime}
           L == {ARP_TABLE_SIZE - i : i \in E}
<1>5. L \subseteq Nat /\ L # {}
  BY EtharpAssumption DEF ArpIndex
<1>6. PICK l \in L : \A m \in L : l <= m
  <2> HIDE DEF L
  <2> QED  BY <1>5, FirstIn
<1>7. PICK i \in E : \A j \in E : j <= i
  <2>1. PICK i \in E : l = ARP_TABLE_SIZE - i
    OBVIOUS
  <2>2. \A j \in E : ARP_TABLE_SIZE - i <= ARP_TABLE_SIZE - j
    BY <1>6, <2>1
  <2>3. \A j \in E : j \in Nat
    <3>1. ArpIndex \subseteq Nat
      BY EtharpAssumption DEF ArpIndex
    <3>2. E \subseteq S
      OBVIOUS
    <3> HIDE DEF B, Y, E, L
    <3> QED  BY <3>1, <3>2
  <2> QED  BY <2>2, <2>3, EtharpAssumption
<1>8. \A j \in S : /\ a.table[j].ctime <= a.table[i].ctime
                   /\ a.table[j].ctime = a.table[i].ctime => j <= i
  BY <1>4, <1>7
<1> QED  BY <1>7, <1>8 DEF OldestOf

LEMMA RecyclableIn ==
  ASSUME NEW a, Sound(a)
  PROVE  Recyclable(a) \in ArpIndex
<1>0. ArpIndex # {} /\ ArpIndex \subseteq Nat
  BY EtharpAssumption DEF ArpIndex
<1>t. \A i \in ArpIndex : a.table[i].state \in {"EMPTY", "PENDING", "STABLE"}
  BY DEF Sound, ArpState, EntryType
<1>1. \A st : InState(a, st) \subseteq ArpIndex
  BY DEF InState
<1>2. InState(a, "EMPTY") # {} => InState(a, "PENDING") # ArpIndex
  BY DEF InState
<1>3. Waiting(a) \subseteq InState(a, "PENDING") /\ Waiting(a) \subseteq ArpIndex
  BY DEF Waiting, InState
<1>4. CASE InState(a, "EMPTY") # {}
  <2>1. InState(a, "EMPTY") \subseteq Nat /\ InState(a, "EMPTY") \subseteq ArpIndex
    BY <1>0, <1>1
  <2>2. First(InState(a, "EMPTY")) \in InState(a, "EMPTY")
    BY <1>4, <2>1, FirstIn
  <2>3. Recyclable(a) = First(InState(a, "EMPTY"))
    BY <1>1, <1>2, <1>3, <1>4 DEF Recyclable
  <2> QED  BY <2>1, <2>2, <2>3
<1>5. CASE InState(a, "EMPTY") = {} /\ InState(a, "STABLE") # {}
  <2>1. InState(a, "PENDING") # ArpIndex
    BY <1>5 DEF InState
  <2>2. Recyclable(a) = OldestOf(a, InState(a, "STABLE"))
    BY <1>1, <1>3, <1>5, <2>1 DEF Recyclable
  <2>3. InState(a, "STABLE") \subseteq ArpIndex
    BY <1>1
  <2> QED  BY <1>5, <2>2, <2>3, OldestIn
<1>6. CASE InState(a, "EMPTY") = {} /\ InState(a, "STABLE") = {}
  <2>1. InState(a, "PENDING") = ArpIndex
    BY <1>t, <1>6 DEF InState
  <2>2. CASE Waiting(a) = ArpIndex
    <3>1. Recyclable(a) = OldestOf(a, ArpIndex)
      BY <1>6, <2>2 DEF Recyclable
    <3> QED  BY <1>0, <3>1, OldestIn
  <2>3. CASE Waiting(a) # ArpIndex
    <3>1. Recyclable(a) = OldestOf(a, ArpIndex \ Waiting(a))
      BY <1>6, <2>1, <2>3 DEF Recyclable
    <3>2. ArpIndex \ Waiting(a) # {} /\ ArpIndex \ Waiting(a) \subseteq ArpIndex
      BY <1>3, <2>3
    <3>3. OldestOf(a, ArpIndex \ Waiting(a)) \in ArpIndex \ Waiting(a)
      BY <3>2, OldestIn
    <3> QED  BY <3>1, <3>3
  <2> QED  BY <2>2, <2>3
<1> QED  BY <1>4, <1>5, <1>6

(* A recycled entry is empty and for the new address.                         *)
LEMMA RecycleSound ==
  ASSUME NEW a, Sound(a), NEW i \in ArpIndex, NEW ip \in Addresses
  PROVE  LET f == Recycle(a, i, ip)
         IN  /\ Sound(f) /\ f.sent = a.sent /\ f.cached = i
             /\ f.table[i].state = "EMPTY" /\ f.table[i].ipaddr = ip /\ f.table[i].q = <<>>
             /\ \A j \in ArpIndex : j # i => f.table[j] = a.table[j]
<1> DEFINE e == a.table[i]
           q == e.q
           left == IF i \in Waiting(a) THEN <<>> ELSE e.q
           new == [EmptyEntry EXCEPT !.ipaddr = ip, !.q = left]
           f == Recycle(a, i, ip)
<1>1. a \in ArpState /\ e \in EntryType /\ EntrySound(e) /\ q \in Seq(Nat) /\ a.blocks \in Nat
  BY DEF Sound, ArpState, EntryType
<1>2. q # <<>> <=> i \in Waiting(a)
  BY <1>1 DEF EntrySound, Waiting, InState
<1>3. Len(<<>>) = 0 /\ Len(q) \in Nat
  BY <1>1, EmptySeq
<1>4. f = [a EXCEPT !.table = [a.table EXCEPT ![i] = new], !.blocks = a.blocks + Len(q), !.cached = i]
  <2>2. (IF i \in Waiting(a) THEN Len(e.q) ELSE 0) = Len(q)
    BY <1>2, <1>3
  <2> HIDE DEF new
  <2> QED  BY <2>2 DEF Recycle, new
<1>5. left = <<>>
  BY <1>2
<1> HIDE DEF left
<1>6. /\ new.state = "EMPTY" /\ new.ipaddr = ip /\ new.ctime = 0 /\ new.q = <<>>
  BY <1>5 DEF EmptyEntry
<1>7. new \in EntryType
  <2>1. <<>> \in Seq(Nat)
    OBVIOUS
  <2> QED  BY <1>5, <2>1 DEF EntryType, EmptyEntry, AnyAddress
<1>8. /\ f \in ArpState /\ f.blocks = a.blocks + Len(q) /\ f.cached = i /\ f.sent = a.sent
      /\ f.table = [a.table EXCEPT ![i] = new]
  <2> HIDE DEF f, new
  <2>1. [a.table EXCEPT ![i] = new] \in [ArpIndex -> EntryType] /\ a.blocks + Len(q) \in Nat
    BY <1>1, <1>3, <1>7 DEF ArpState
  <2> HIDE DEF q
  <2> QED  BY <1>1, <1>4, <2>1 DEF ArpState
<1>9. f.table[i] = new /\ \A j \in ArpIndex : j # i => f.table[j] = a.table[j]
  <2> HIDE DEF new
  <2> QED  BY <1>1, <1>8 DEF ArpState
<1> HIDE DEF new
<1>10. EntrySound(new)
  BY <1>6 DEF EntrySound
<1>11. f.table[i].state = "EMPTY" /\ f.table[i].ipaddr = ip /\ f.table[i].q = <<>>
  BY <1>6, <1>9
<1>12. f.blocks + Len(f.table[i].q) = a.blocks + Len(a.table[i].q)
  BY <1>1, <1>3, <1>8, <1>11
<1>13. Sound(f)
  <2> HIDE DEF new
  <2> QED  BY <1>8, <1>9, <1>10, <1>11, <1>12, SoundIf
<1> QED  BY <1>8, <1>9, <1>11, <1>13 DEF f

(* The entry that is found has the address, and no other in use has it.  It   *)
(* is an old one, as it was, or a new one, empty.                             *)
LEMMA FindEntrySound ==
  ASSUME NEW a, Sound(a), NEW ip \in Addresses, NEW hard \in BOOLEAN
  PROVE  LET r == FindEntry(a, ip, hard)
             f == r.arp
         IN  /\ Sound(f) /\ f.sent = a.sent
             /\ ~r.found => f = a /\ ~hard
             /\ r.found =>
                  /\ f.table[f.cached].ipaddr = ip
                  /\ \A j \in ArpIndex : j # f.cached =>
                       f.table[j] = a.table[j] /\ (a.table[j].state # "EMPTY" => a.table[j].ipaddr # ip)
                  /\ \/ f.table[f.cached] = a.table[f.cached]
                     \/ f.table[f.cached].state = "EMPTY" /\ f.table[f.cached].q = <<>>
             /\ CacheHit(a, ip) => f = a
<1> DEFINE r == FindEntry(a, ip, hard)
           f == r.arp
<1>1. a \in ArpState /\ a.cached \in ArpIndex
  BY DEF Sound, ArpState
<1>2. CASE CacheHit(a, ip)
  <2>0. Matches(a, ip) # {}
    BY <1>1, <1>2 DEF CacheHit, Matches
  <2>1. f = a /\ r.found
    BY <1>2, <2>0 DEF FindEntry
  <2> HIDE DEF f, r
  <2>2. a.table[a.cached].ipaddr = ip /\ a.table[a.cached].state # "EMPTY"
    BY <1>2 DEF CacheHit
  <2>3. \A j \in ArpIndex : j # a.cached /\ a.table[j].state # "EMPTY" => a.table[j].ipaddr # ip
    BY <1>1, <2>2 DEF Sound, OneEach
  <2> QED  BY <2>1, <2>2, <2>3 DEF f, r
<1>3. CASE ~CacheHit(a, ip) /\ Matches(a, ip) # {}
  <2> DEFINE m == First(Matches(a, ip))
  <2>1. m \in ArpIndex /\ a.table[m].state # "EMPTY" /\ a.table[m].ipaddr = ip
    <3>1. Matches(a, ip) \subseteq Nat
      BY EtharpAssumption DEF Matches, ArpIndex
    <3>2. m \in Matches(a, ip)
      BY <1>3, <3>1, FirstIn
    <3> QED  BY <3>2 DEF Matches
  <2> HIDE DEF m
  <2>2. f = [a EXCEPT !.cached = m] /\ r.found
    BY <1>3 DEF FindEntry, m
  <2> HIDE DEF f, r
  <2>3. /\ f \in ArpState /\ f.table = a.table /\ f.blocks = a.blocks /\ f.sent = a.sent
        /\ f.cached = m
    BY <1>1, <2>1, <2>2 DEF ArpState
  <2>4. Sound(f)
    <3>1. QueuedOn(f, ArpIndex) = QueuedOn(a, ArpIndex)
      BY <2>3 DEF QueuedOn
    <3> QED  BY <2>3, <3>1 DEF Sound, OneEach, BlocksKept
  <2>5. \A j \in ArpIndex : j # m /\ a.table[j].state # "EMPTY" => a.table[j].ipaddr # ip
    BY <2>1 DEF Sound, OneEach
  <2> QED  BY <1>3, <2>1, <2>2, <2>3, <2>4, <2>5 DEF f, r
<1>4. CASE /\ ~CacheHit(a, ip) /\ Matches(a, ip) = {}
           /\ InState(a, "EMPTY") = {} /\ ~hard
  <2>1. f = a /\ ~r.found
    BY <1>4 DEF FindEntry
  <2> QED  BY <1>4, <2>1
<1>5. CASE /\ ~CacheHit(a, ip) /\ Matches(a, ip) = {}
           /\ ~(InState(a, "EMPTY") = {} /\ ~hard)
  <2> DEFINE i == Recyclable(a)
  <2>1. i \in ArpIndex
    BY RecyclableIn
  <2> HIDE DEF i
  <2>2. f = Recycle(a, i, ip) /\ r.found
    BY <1>5 DEF FindEntry, i
  <2> HIDE DEF f, r
  <2>3. /\ Sound(f) /\ f.sent = a.sent /\ f.cached = i
        /\ f.table[i].state = "EMPTY" /\ f.table[i].ipaddr = ip /\ f.table[i].q = <<>>
        /\ \A j \in ArpIndex : j # i => f.table[j] = a.table[j]
    BY <2>1, <2>2, RecycleSound
  <2>4. \A j \in ArpIndex : a.table[j].state # "EMPTY" => a.table[j].ipaddr # ip
    BY <1>5 DEF Matches
  <2> QED  BY <1>5, <2>2, <2>3, <2>4 DEF f, r
<1> QED  BY <1>2, <1>3, <1>4, <1>5

-----------------------------------------------------------------------------
(* update_arp_entry, etharp_query and etharp_tmr *)

(* The numbers of packets that waited are their places.                       *)
LEMMA SentOfQueue ==
  ASSUME NEW q \in Seq(Nat), NEW ip \in AnyAddress
  PROVE  LET s == [k \in DOMAIN q |-> Packet(ip, ip, q[k])]
         IN  <<>> \o s \in Seq(PacketType) /\ <<>> \o s = s /\ DOMAIN s = DOMAIN q
<1> DEFINE s == [k \in DOMAIN q |-> Packet(ip, ip, q[k])]
<1>1. DOMAIN q = 1..Len(q) /\ Len(q) \in Nat /\ \A k \in 1..Len(q) : q[k] \in Nat
  OBVIOUS
<1>2. s \in [1..Len(q) -> PacketType]
  BY <1>1 DEF Packet, PacketType
<1> HIDE DEF s
<1>3. s \in Seq(PacketType)
  BY <1>1, <1>2, IsASeq
<1>4. <<>> \o s = s
  BY <1>3, ConcatEmptySeq
<1> QED  BY <1>3, <1>4 DEF s

LEMMA UpdateSound ==
  ASSUME NEW a, Sound(a), a.sent = <<>>, NEW ip \in AnyAddress, NEW hard \in BOOLEAN
  PROVE  LET f == UpdateArpEntry(a, ip, ip, hard)
         IN  /\ Sound(f) /\ SentSound(f)
             /\ \/ f.sent = <<>>
                \/ CacheHit(f, ip)
<1> DEFINE r == FindEntry(a, ip, hard)
           b == r.arp
           i == b.cached
           e == b.table[i]
           q == e.q
           f == UpdateArpEntry(a, ip, ip, hard)
<1>1. CASE ip = NoAddr \/ ~r.found
  <2>1. f = a
    BY <1>1 DEF UpdateArpEntry
  <2> HIDE DEF f
  <2>2. SentSound(f)
    BY <2>1 DEF SentSound
  <2> QED  BY <2>1, <2>2 DEF f
<1>2. CASE ip # NoAddr /\ r.found
  <2>1. ip \in Addresses
    BY <1>2 DEF AnyAddress
  <2>2. /\ Sound(b) /\ b.sent = <<>> /\ e.ipaddr = ip
        /\ \A j \in ArpIndex : j # i =>
             b.table[j] = a.table[j] /\ (a.table[j].state # "EMPTY" => a.table[j].ipaddr # ip)
    BY <1>2, <2>1, FindEntrySound
  <2> HIDE DEF b
  <2>3. /\ b \in ArpState /\ i \in ArpIndex /\ e \in EntryType /\ EntrySound(e)
        /\ q \in Seq(Nat) /\ b.blocks \in Nat
    BY <2>2 DEF Sound, ArpState, EntryType
  <2> DEFINE s == [k \in DOMAIN q |-> Packet(ip, ip, q[k])]
             new == [e EXCEPT !.state = "STABLE", !.ethaddr = ip, !.ctime = 0, !.q = <<>>]
             t == [b.table EXCEPT ![i] = new]
  <2>4. <<>> \o s \in Seq(PacketType) /\ <<>> \o s = s /\ DOMAIN s = DOMAIN q
    BY <2>3, SentOfQueue
  <2>5. f = [b EXCEPT !.table = t, !.blocks = b.blocks + Len(q), !.sent = s]
    <3>1. f = [b EXCEPT !.table = t, !.blocks = b.blocks + Len(q), !.sent = b.sent \o s]
      BY <1>2 DEF UpdateArpEntry, b
    <3> HIDE DEF s, t, q
    <3> QED  BY <2>2, <2>4, <3>1
  <2>6. new \in EntryType /\ new.state = "STABLE" /\ new.ethaddr = ip /\ new.ipaddr = ip
        /\ new.ctime = 0 /\ new.q = <<>>
    <3>1. <<>> \in Seq(Nat)
      OBVIOUS
    <3> HIDE DEF e
    <3> QED  BY <2>2, <2>3, <3>1 DEF EntryType
  <2> HIDE DEF new, f
  <2>7. Len(q) \in Nat /\ Len(<<>>) = 0
    BY <2>3, EmptySeq
  <2>8. /\ f \in ArpState /\ f.table = t /\ f.blocks = b.blocks + Len(q) /\ f.sent = s
        /\ f.cached = i
    <3>1. t \in [ArpIndex -> EntryType] /\ b.blocks + Len(q) \in Nat /\ s \in Seq(PacketType)
      BY <2>3, <2>4, <2>6, <2>7 DEF ArpState
    <3> HIDE DEF t, s, q
    <3> QED  BY <2>3, <2>5, <3>1 DEF ArpState
  <2>9. f.table[i] = new /\ \A j \in ArpIndex : j # i => f.table[j] = b.table[j]
    BY <2>3, <2>8 DEF ArpState
  <2>10. EntrySound(new)
    BY <2>6, EtharpAssumption DEF EntrySound
  <2>11. f.blocks + Len(f.table[i].q) = b.blocks + Len(b.table[i].q)
    BY <2>3, <2>6, <2>7, <2>8, <2>9
  <2>12. Sound(f)
    <3>1. \A j \in ArpIndex : j # i /\ b.table[j].state # "EMPTY" => b.table[j].ipaddr # new.ipaddr
      BY <2>2, <2>6
    <3>2. EntrySound(f.table[i]) /\ f.table[i].ipaddr = new.ipaddr
      BY <2>9, <2>10
    <3> HIDE DEF i, q, t, s
    <3> QED  BY <2>2, <2>3, <2>8, <2>9, <2>11, <3>1, <3>2, SoundIf
  <2>13. SentSound(f)
    <3>1. ASSUME NEW k \in DOMAIN f.sent
          PROVE  f.sent[k].to = ip /\ f.sent[k].ip = ip /\ f.sent[k].n = k
      <4>1. k \in DOMAIN q /\ f.sent[k] = Packet(ip, ip, q[k]) /\ q[k] = k
        BY <2>3, <2>8, <3>1 DEF EntrySound
      <4> QED  BY <4>1 DEF Packet
    <3>2. ASSUME NEW j \in ArpIndex, f.table[j].ipaddr = ip
          PROVE  f.table[j].q = <<>>
      <4>1. CASE j = i
        BY <2>6, <2>9, <4>1
      <4>2. CASE j # i
        <5>1. b.table[j].state = "EMPTY" /\ f.table[j] = b.table[j]
          BY <2>2, <2>9, <3>2, <4>2
        <5> QED  BY <2>2, <5>1 DEF Sound, EntrySound
      <4> QED  BY <4>1, <4>2
    <3> QED  BY <3>1, <3>2 DEF SentSound
  <2>14. CacheHit(f, ip)
    BY <2>6, <2>8, <2>9 DEF CacheHit
  <2> QED  BY <2>12, <2>13, <2>14 DEF f
<1> QED  BY <1>1, <1>2

LEMMA QuerySound ==
  ASSUME NEW a, Sound(a), SentSound(a), NEW ip \in Hosts, NEW copy \in BOOLEAN,
         a.sent = <<>> \/ CacheHit(a, ip)
  PROVE  Sound(EtharpQuery(a, ip, copy)) /\ SentSound(EtharpQuery(a, ip, copy))
<1>h. PICK hard \in BOOLEAN : hard = TRUE
  OBVIOUS
<1> DEFINE r == FindEntry(a, ip, hard)
           b == r.arp
           i == b.cached
           e == b.table[i]
           q == e.q
           kept == copy /\ b.blocks > 0
           next == Packet(ip, e.ethaddr, Len(b.sent) + Len(q) + 1)
           f == EtharpQuery(a, ip, copy)
<1>1. ip \in Addresses
  BY DEF Addresses
<1>2. /\ Sound(b) /\ b.sent = a.sent /\ e.ipaddr = ip
      /\ \A j \in ArpIndex : j # i =>
           b.table[j] = a.table[j] /\ (a.table[j].state # "EMPTY" => a.table[j].ipaddr # ip)
      /\ \/ e = a.table[i]
         \/ e.state = "EMPTY" /\ q = <<>>
      /\ CacheHit(a, ip) => b = a
  <2>1. /\ Sound(b) /\ b.sent = a.sent
        /\ ~r.found => b = a /\ ~hard
        /\ r.found =>
             /\ b.table[b.cached].ipaddr = ip
             /\ \A j \in ArpIndex : j # b.cached =>
                  b.table[j] = a.table[j] /\ (a.table[j].state # "EMPTY" => a.table[j].ipaddr # ip)
             /\ \/ b.table[b.cached] = a.table[b.cached]
                \/ b.table[b.cached].state = "EMPTY" /\ b.table[b.cached].q = <<>>
        /\ CacheHit(a, ip) => b = a
    BY <1>1, FindEntrySound
  <2> HIDE DEF b, r
  <2> QED  BY <1>h, <2>1
<1>3. f = IF e.state = "STABLE" THEN [b EXCEPT !.sent = Append(@, next)]
          ELSE [b EXCEPT
                  !.table[i] = [Pending(e) EXCEPT !.q = IF kept THEN Enqueue(@, next.n) ELSE @],
                  !.blocks = IF kept THEN @ - 1 ELSE @]
  BY <1>h DEF EtharpQuery
<1> HIDE DEF b, f
<1>4. /\ b \in ArpState /\ i \in ArpIndex /\ e \in EntryType /\ EntrySound(e)
      /\ q \in Seq(Nat) /\ b.blocks \in Nat /\ b.sent \in Seq(PacketType)
  BY <1>2 DEF Sound, ArpState, EntryType
<1>5. Len(q) \in Nat /\ Len(b.sent) \in Nat /\ Len(<<>>) = 0
  BY <1>4, EmptySeq
<1>6. CASE e.state = "STABLE"
  <2>1. q = <<>> /\ e.ethaddr = ip
    BY <1>2, <1>4, <1>6 DEF EntrySound
  <2>2. next = Packet(ip, ip, Len(b.sent) + 1) /\ next \in PacketType
    <3>1. Len(b.sent) + 0 + 1 = Len(b.sent) + 1 /\ Len(b.sent) + 1 \in Nat
      BY <1>5
    <3> QED  BY <1>1, <1>5, <2>1, <3>1 DEF Packet, PacketType, AnyAddress
  <2> HIDE DEF next
  <2>3. /\ Append(b.sent, next) \in Seq(PacketType)
        /\ Len(Append(b.sent, next)) = Len(b.sent) + 1
        /\ \A k \in 1..Len(b.sent) : Append(b.sent, next)[k] = b.sent[k]
        /\ Append(b.sent, next)[Len(b.sent) + 1] = next
    BY <1>4, <2>2, AppendProperties
  <2> DEFINE s == Append(b.sent, next)
  <2> HIDE DEF s
  <2>4. f = [b EXCEPT !.sent = s]
    BY <1>3, <1>6 DEF s
  <2>5. /\ f \in ArpState /\ f.table = b.table /\ f.blocks = b.blocks /\ f.sent = s
        /\ f.cached = b.cached
    BY <1>4, <2>3, <2>4 DEF ArpState, s
  <2>6. Sound(f)
    <3>1. QueuedOn(f, ArpIndex) = QueuedOn(b, ArpIndex)
      BY <2>5 DEF QueuedOn
    <3> QED  BY <1>2, <2>5, <3>1 DEF Sound, OneEach, BlocksKept
  <2>7. \A j \in ArpIndex : b.table[j].ipaddr = ip => b.table[j].q = <<>>
    <3>1. ASSUME NEW j \in ArpIndex, b.table[j].ipaddr = ip, j # i PROVE b.table[j].q = <<>>
      BY <1>2, <3>1 DEF Sound, EntrySound
    <3> QED  BY <2>1, <3>1
  <2>8. \A k \in DOMAIN b.sent, j \in ArpIndex :
          b.table[j].ipaddr = b.sent[k].ip => b.table[j].q = <<>>
    <3> SUFFICES ASSUME NEW k \in DOMAIN a.sent, NEW j \in ArpIndex,
                        b.table[j].ipaddr = a.sent[k].ip
                 PROVE  b.table[j].q = <<>>
      BY <1>2
    <3>1. \/ b.table[j] = a.table[j]
          \/ b.table[j].q = <<>>
      BY <1>2
    <3> QED  BY <3>1 DEF SentSound
  <2>9. SentSound(f)
    <3>1. DOMAIN s = 1..(Len(b.sent) + 1) /\ DOMAIN b.sent = 1..Len(b.sent)
      BY <1>4, <2>3 DEF s
    <3> SUFFICES ASSUME NEW k \in 1..(Len(b.sent) + 1)
                 PROVE  /\ s[k].to = s[k].ip /\ s[k].n = k
                        /\ \A j \in ArpIndex : b.table[j].ipaddr = s[k].ip => b.table[j].q = <<>>
      BY <2>5, <3>1 DEF SentSound
    <3>2. CASE k = Len(b.sent) + 1
      BY <2>2, <2>3, <2>7, <3>2 DEF Packet, s
    <3>3. CASE k \in 1..Len(b.sent)
      <4>1. s[k] = b.sent[k] /\ k \in DOMAIN b.sent
        BY <2>3, <3>1, <3>3 DEF s
      <4>2. b.sent[k].to = b.sent[k].ip /\ b.sent[k].n = k
        BY <1>2, <4>1 DEF SentSound
      <4> QED  BY <2>8, <4>1, <4>2
    <3> QED  BY <1>5, <3>2, <3>3
  <2> QED  BY <2>6, <2>9 DEF f
<1>7. CASE e.state # "STABLE"
  <2>1. b.sent = <<>>
    BY <1>2, <1>7 DEF CacheHit
  <2>2. next.n = Len(q) + 1
    BY <1>5, <2>1 DEF Packet
  <2> DEFINE q2 == IF kept THEN Append(q, Len(q) + 1) ELSE q
             n2 == IF kept THEN b.blocks - 1 ELSE b.blocks
             new == [e EXCEPT !.state = "PENDING", !.q = q2]
             t == [b.table EXCEPT ![i] = new]
  <2>3. f = [b EXCEPT !.table = t, !.blocks = n2]
    <3>1. [Pending(e) EXCEPT !.q = IF kept THEN Enqueue(@, next.n) ELSE @] = new
      <4>1. Pending(e).q = q
        BY <1>4 DEF Pending, EntryType
      <4>2. Pending(e) = [e EXCEPT !.state = "PENDING"]
        BY DEF Pending
      <4>3. (IF kept THEN Enqueue(Pending(e).q, next.n) ELSE Pending(e).q) = q2
        BY <2>2, <4>1 DEF Enqueue
      <4> HIDE DEF q2, e
      <4> QED  BY <4>2, <4>3
    <3> HIDE DEF new
    <3> QED  BY <1>3, <1>7, <3>1
  <2>4. /\ q2 \in Seq(Nat) /\ n2 \in Nat /\ n2 + Len(q2) = b.blocks + Len(q)
        /\ \A k \in DOMAIN q2 : q2[k] = k
    <3>1. \A k \in DOMAIN q : q[k] = k
      BY <1>4 DEF EntrySound
    <3>2. CASE ~kept
      BY <1>4, <3>1, <3>2
    <3>3. CASE kept
      <4> DEFINE u == Append(q, Len(q) + 1)
      <4>1. /\ u \in Seq(Nat) /\ Len(u) = Len(q) + 1
            /\ \A k \in 1..Len(q) : u[k] = q[k]
            /\ u[Len(q) + 1] = Len(q) + 1
        <5> HIDE DEF q
        <5>1. Len(q) + 1 \in Nat
          BY <1>5
        <5> QED  BY <1>4, <5>1, AppendProperties
      <4>2. q2 = u /\ n2 = b.blocks - 1 /\ b.blocks > 0
        BY <3>3
      <4> HIDE DEF u, q2, n2
      <4>3. DOMAIN u = 1..(Len(q) + 1) /\ DOMAIN q = 1..Len(q)
        BY <1>4, <4>1
      <4> HIDE DEF q
      <4>4. ASSUME NEW k \in DOMAIN u PROVE u[k] = k
        <5>1. k \in 1..Len(q) \/ k = Len(q) + 1
          BY <1>5, <4>3
        <5> QED  BY <3>1, <4>1, <4>3, <5>1
      <4>5. n2 \in Nat /\ n2 + (Len(q) + 1) = b.blocks + Len(q)
        BY <1>4, <1>5, <4>2
      <4> QED  BY <4>1, <4>2, <4>4, <4>5
    <3> QED  BY <3>2, <3>3
  <2> HIDE DEF q2, n2
  <2>5. new \in EntryType /\ new.state = "PENDING" /\ new.ipaddr = ip /\ new.q = q2
        /\ new.ctime = e.ctime
    <3> HIDE DEF e
    <3> QED  BY <1>2, <1>4, <2>4 DEF EntryType
  <2> HIDE DEF new
  <2>6. /\ f \in ArpState /\ f.table = t /\ f.blocks = n2 /\ f.sent = <<>> /\ f.cached = i
    <3>1. t \in [ArpIndex -> EntryType]
      BY <1>4, <2>5 DEF ArpState
    <3> HIDE DEF t
    <3> QED  BY <1>4, <2>1, <2>3, <2>4, <3>1 DEF ArpState
  <2>7. f.table[i] = new /\ \A j \in ArpIndex : j # i => f.table[j] = b.table[j]
    BY <1>4, <2>6 DEF ArpState
  <2>8. e.ctime < ARP_MAXPENDING
    BY <1>4, <1>7, EtharpAssumption DEF EntrySound, EntryType
  <2>9. EntrySound(new)
    BY <2>4, <2>5, <2>8 DEF EntrySound
  <2>10. Sound(f)
    <3>1. \A j \in ArpIndex : j # i /\ b.table[j].state # "EMPTY" => b.table[j].ipaddr # new.ipaddr
      BY <1>2, <2>5
    <3>2. f.blocks + Len(f.table[i].q) = b.blocks + Len(b.table[i].q)
      BY <2>4, <2>5, <2>6, <2>7
    <3>3. EntrySound(f.table[i]) /\ f.table[i].ipaddr = new.ipaddr
      BY <2>7, <2>9
    <3> HIDE DEF i, q, t
    <3> QED  BY <1>2, <1>4, <2>6, <2>7, <3>1, <3>2, <3>3, SoundIf, SMTT(30)
  <2>11. SentSound(f)
    BY <2>6 DEF SentSound
  <2> QED  BY <2>10, <2>11 DEF f
<1> QED  BY <1>6, <1>7

LEMMA TmrSound ==
  ASSUME NEW a, Sound(a), a.sent = <<>>
  PROVE  Sound(EtharpTmr(a)) /\ SentSound(EtharpTmr(a))
<1> DEFINE dead == {i \in ArpIndex : Expired(a.table[i])}
           aged(e) == IF e.state = "EMPTY" THEN e ELSE [e EXCEPT !.ctime = @ + 1]
           t == [i \in ArpIndex |-> IF i \in dead THEN EmptyEntry ELSE aged(a.table[i])]
           all == QueuedOn(a, ArpIndex)
           freed == QueuedOn(a, dead)
           f == EtharpTmr(a)
<1>1. a \in ArpState /\ \A i \in ArpIndex : a.table[i] \in EntryType /\ EntrySound(a.table[i])
  BY DEF Sound, ArpState
<1>2. f = [a EXCEPT !.table = t, !.blocks = @ + Cardinality(freed)]
  BY DEF EtharpTmr
<1>3. EmptyEntry \in EntryType /\ EntrySound(EmptyEntry) /\ EmptyEntry.state = "EMPTY" /\ EmptyEntry.q = <<>>
  <2>1. <<>> \in Seq(Nat)
    OBVIOUS
  <2> QED  BY <2>1 DEF EmptyEntry, EntryType, EntrySound, AnyAddress
<1>4. ASSUME NEW i \in ArpIndex, i \notin dead
      PROVE  /\ t[i] \in EntryType /\ EntrySound(t[i])
             /\ t[i].state = a.table[i].state /\ t[i].ipaddr = a.table[i].ipaddr
             /\ t[i].q = a.table[i].q
  <2> DEFINE e == a.table[i]
  <2>1. e \in EntryType /\ EntrySound(e) /\ ~Expired(e) /\ t[i] = aged(e)
    BY <1>1, <1>4
  <2> HIDE DEF e, t
  <2>2. CASE e.state = "EMPTY"
    BY <2>1, <2>2 DEF e
  <2>3. CASE e.state # "EMPTY"
    <3> DEFINE g == [e EXCEPT !.ctime = @ + 1]
    <3>1. e.ctime \in Nat /\ t[i] = g
      BY <2>1, <2>3 DEF EntryType
    <3>2. /\ g \in EntryType /\ g.state = e.state /\ g.ipaddr = e.ipaddr /\ g.q = e.q
          /\ g.ethaddr = e.ethaddr /\ g.ctime = e.ctime + 1
      <4>1. PICK c \in Nat : c = e.ctime + 1
        BY <3>1
      <4> QED  BY <2>1, <4>1 DEF EntryType
    <3> HIDE DEF g
    <3>3. EntrySound(g)
      BY <2>1, <2>3, <3>1, <3>2, EtharpAssumption DEF EntrySound, Expired
    <3> QED  BY <3>1, <3>2, <3>3 DEF e
  <2> QED  BY <2>2, <2>3
<1>5. \A i \in dead : t[i] = EmptyEntry
  OBVIOUS
<1>6. /\ t \in [ArpIndex -> EntryType]
      /\ \A i \in ArpIndex : EntrySound(t[i])
  <2>1. \A i \in ArpIndex : t[i] \in EntryType /\ EntrySound(t[i])
    <3> SUFFICES ASSUME NEW i \in ArpIndex PROVE t[i] \in EntryType /\ EntrySound(t[i])
      OBVIOUS
    <3>1. CASE i \in dead
      <4> HIDE DEF t
      <4> QED  BY <1>3, <1>5, <3>1
    <3>2. CASE i \notin dead
      <4> HIDE DEF t
      <4> QED  BY <1>4, <3>2
    <3> QED  BY <3>1, <3>2
  <2>2. t = [i \in ArpIndex |-> t[i]]
    OBVIOUS
  <2> HIDE DEF t
  <2> QED  BY <2>1, <2>2
<1>7. IsFiniteSet(all) /\ IsFiniteSet(freed) /\ freed \subseteq all
  <2>1. freed \subseteq all
    BY DEF QueuedOn
  <2> HIDE DEF freed, all
  <2>2. IsFiniteSet(all)
    BY DEF Sound, BlocksKept, all
  <2> QED  BY <2>1, <2>2, FS_Subset
<1>8. Cardinality(all) \in Nat /\ Cardinality(freed) \in Nat
  BY <1>7, FS_CardinalityType
<1>9. /\ f \in ArpState /\ f.table = t /\ f.blocks = a.blocks + Cardinality(freed)
      /\ f.sent = <<>>
  <2>1. PICK c \in Nat : c = Cardinality(freed)
    BY <1>8
  <2> HIDE DEF t, freed, f
  <2>2. a.blocks \in Nat
    BY <1>1 DEF ArpState
  <2>3. PICK b \in Nat : b = a.blocks + c
    BY <2>2
  <2>4. f = [a EXCEPT !.table = t, !.blocks = b]
    BY <1>2, <2>1, <2>3
  <2>5. f \in ArpState /\ f.table = t /\ f.blocks = b /\ f.sent = a.sent
    BY <1>1, <1>6, <2>4 DEF ArpState
  <2> QED  BY <2>1, <2>3, <2>5
<1> HIDE DEF t, f
<1>10. QueuedOn(f, ArpIndex) = all \ freed
  <2>1. \A i \in ArpIndex : f.table[i].q = IF i \in dead THEN <<>> ELSE a.table[i].q
    BY <1>3, <1>4, <1>5, <1>9
  <2>2. DOMAIN <<>> = {}
    OBVIOUS
  <2> HIDE DEF dead
  <2>3. dead \subseteq ArpIndex
    BY DEF dead
  <2>4. ASSUME NEW p PROVE p \in QueuedOn(f, ArpIndex) <=> p \in all \ freed
    <3>1. p \in all <=> \E i \in ArpIndex : p \in {i} \X DOMAIN a.table[i].q
      BY DEF QueuedOn
    <3>2. p \in freed <=> \E i \in dead : p \in {i} \X DOMAIN a.table[i].q
      BY DEF QueuedOn
    <3>3. p \in QueuedOn(f, ArpIndex) <=> \E i \in ArpIndex : p \in {i} \X DOMAIN f.table[i].q
      BY DEF QueuedOn
    <3>4. \A i \in ArpIndex : p \in {i} \X DOMAIN f.table[i].q
                                <=> i \notin dead /\ p \in {i} \X DOMAIN a.table[i].q
      BY <2>1, <2>2
    <3>5. \A i, j : p \in {i} \X DOMAIN a.table[i].q /\ p \in {j} \X DOMAIN a.table[j].q => i = j
      OBVIOUS
    <3> QED  BY <2>3, <3>1, <3>2, <3>3, <3>4, <3>5
  <2> QED  BY <2>4
<1>11. BlocksKept(f)
  <2>1. IsFiniteSet(all \ freed) /\ Cardinality(all \ freed) = Cardinality(all) - Cardinality(all \cap freed)
    <3> HIDE DEF all, freed
    <3> QED  BY <1>7, FS_Difference
  <2>2. all \cap freed = freed
    BY <1>7
  <2>3. PICK m \in Nat : m = a.blocks
    BY <1>1 DEF ArpState
  <2>4. m + Cardinality(all) = MEMP_NUM_ARP_QUEUE
    BY <2>3 DEF Sound, BlocksKept
  <2> DEFINE cf == Cardinality(freed)
             ca == Cardinality(all)
  <2>5. cf \in Nat /\ ca \in Nat /\ Cardinality(all \ freed) = ca - cf /\ f.blocks = m + cf
    BY <1>8, <1>9, <2>1, <2>2, <2>3
  <2>6. (m + cf) + (ca - cf) = MEMP_NUM_ARP_QUEUE
    <3> HIDE DEF cf
    <3> QED  BY <2>4, <2>5
  <2> HIDE DEF cf, ca
  <2> QED  BY <1>10, <2>1, <2>5, <2>6 DEF BlocksKept
<1>12. OneEach(f)
  <2>1. \A i \in ArpIndex : f.table[i].state # "EMPTY" =>
          f.table[i].state = a.table[i].state /\ f.table[i].ipaddr = a.table[i].ipaddr
    BY <1>3, <1>4, <1>5, <1>9
  <2> QED  BY <2>1 DEF OneEach, Sound
<1>13. Sound(f)
  BY <1>6, <1>9, <1>11, <1>12 DEF Sound
<1>14. SentSound(f)
  BY <1>9 DEF SentSound
<1> QED  BY <1>13, <1>14 DEF f

-----------------------------------------------------------------------------
(* The interface *)

LEMMA QuietSound ==
  ASSUME Sound(arp)
  PROVE  Sound(Quiet) /\ SentSound(Quiet) /\ Quiet.sent = <<>>
<1>1. /\ Quiet \in ArpState /\ Quiet.table = arp.table /\ Quiet.blocks = arp.blocks
      /\ Quiet.sent = <<>>
  <2>1. <<>> \in Seq(PacketType)
    OBVIOUS
  <2> QED  BY <2>1 DEF Quiet, Sound, ArpState
<1>2. QueuedOn(Quiet, ArpIndex) = QueuedOn(arp, ArpIndex)
  BY <1>1 DEF QueuedOn
<1>3. Sound(Quiet)
  BY <1>1, <1>2 DEF Sound, OneEach, BlocksKept
<1> QED  BY <1>1, <1>3 DEF SentSound

(* The next pbuf of the pool is put back with another payload, or is kept.    *)
LEMMA PbufPutBack ==
  ASSUME PbufsSound, pbufs # <<>>, NEW p \in Payloads,
         pbufs' = <<p>> \o Tail(pbufs), UNCHANGED pbufsheld
  PROVE  PbufsSound'
<1>1. Tail(pbufs) \in Seq(Payloads) /\ Len(Tail(pbufs)) = Len(pbufs) - 1 /\ Len(pbufs) \in Nat
  BY HeadTailProperties, LenProperties DEF PbufsSound
<1>2. <<p>> \in Seq(Payloads) /\ Len(<<p>>) = 1
  OBVIOUS
<1>3. /\ <<p>> \o Tail(pbufs) \in Seq(Payloads)
      /\ Len(<<p>> \o Tail(pbufs)) = 1 + Len(Tail(pbufs))
  BY <1>1, <1>2, ConcatProperties
<1>4. pbufs' \in Seq(Payloads) /\ Len(pbufs') = Len(pbufs)
  BY <1>1, <1>3
<1> QED  BY <1>4 DEF PbufsSound

LEMMA PbufKept ==
  ASSUME PbufsSound, pbufs # <<>>, NEW p \in Payloads,
         pbufs' = Tail(pbufs), pbufsheld' = Append(pbufsheld, p)
  PROVE  PbufsSound'
<1>1. Tail(pbufs) \in Seq(Payloads) /\ Len(Tail(pbufs)) = Len(pbufs) - 1 /\ Len(pbufs) \in Nat
  BY HeadTailProperties, LenProperties DEF PbufsSound
<1>2. Append(pbufsheld, p) \in Seq(Payloads) /\ Len(Append(pbufsheld, p)) = Len(pbufsheld) + 1
  BY AppendProperties DEF PbufsSound
<1>3. Len(pbufsheld) \in Nat
  BY LenProperties DEF PbufsSound
<1>4. Len(pbufs') + Len(pbufsheld') = Len(pbufs) + Len(pbufsheld)
  BY <1>1, <1>2, <1>3
<1> QED  BY <1>1, <1>2, <1>4 DEF PbufsSound

LEMMA PbufFreed ==
  ASSUME PbufsSound, NEW i \in DOMAIN pbufsheld,
         pbufs' = <<pbufsheld[i]>> \o pbufs, pbufsheld' = RemoveAt(pbufsheld, i)
  PROVE  PbufsSound'
<1> DEFINE n == Len(pbufsheld)
           s == SubSeq(pbufsheld, 1, i - 1)
           t == SubSeq(pbufsheld, i + 1, n)
<1>1. n \in Nat /\ i \in 1..n /\ pbufsheld[i] \in Payloads /\ pbufsheld \in Seq(Payloads)
  BY DEF PbufsSound
<1>2. s \in Seq(Payloads) /\ Len(s) = i - 1
  <2>1. i - 1 \in 1 - 1..n /\ 1 \in 1..(n + 1)
    BY <1>1
  <2> QED  BY <1>1, <2>1, SubSeqProperties
<1>3. t \in Seq(Payloads) /\ Len(t) = n - i
  <2>1. i + 1 \in 1..(n + 1) /\ n \in i..n
    BY <1>1
  <2> QED  BY <1>1, <2>1, SubSeqProperties
<1> HIDE DEF s, t
<1>4. s \o t \in Seq(Payloads) /\ Len(s \o t) = Len(s) + Len(t)
  BY <1>2, <1>3, ConcatProperties
<1>5. pbufsheld' = s \o t
  BY DEF RemoveAt, s, t
<1>6. /\ <<pbufsheld[i]>> \o pbufs \in Seq(Payloads)
      /\ Len(<<pbufsheld[i]>> \o pbufs) = 1 + Len(pbufs)
  <2>1. <<pbufsheld[i]>> \in Seq(Payloads) /\ Len(<<pbufsheld[i]>>) = 1
    BY <1>1
  <2> QED  BY <2>1, ConcatProperties DEF PbufsSound
<1>7. Len(pbufs) \in Nat
  BY LenProperties DEF PbufsSound
<1>8. Len(pbufs') + Len(pbufsheld') = Len(pbufs) + Len(pbufsheld)
  <2>1. Len(pbufs') = 1 + Len(pbufs) /\ Len(pbufsheld') = (i - 1) + (n - i)
    BY <1>2, <1>3, <1>4, <1>5, <1>6
  <2> DEFINE m == Len(pbufs)
  <2>2. (1 + m) + ((i - 1) + (n - i)) = m + n
    <3>1. m \in Nat /\ n \in Nat /\ i \in Nat
      BY <1>1, <1>7
    <3> HIDE DEF m, n
    <3> QED  BY <3>1
  <2> QED  BY <2>1, <2>2
<1> QED  BY <1>4, <1>5, <1>6, <1>8 DEF PbufsSound

-----------------------------------------------------------------------------
(* The steps *)

LEMMA InputKeeps ==
  ASSUME NetifInv, ethernetif_input
  PROVE  NetifInv'
<1>q. Sound(Quiet) /\ SentSound(Quiet) /\ Quiet.sent = <<>> /\ PbufsSound
  BY QuietSound DEF NetifInv
<1> HIDE DEF Quiet
<1>1. ASSUME Sound(arp'), SentSound(arp'), PbufsSound' PROVE NetifInv'
  BY <1>1 DEF NetifInv, Sound, OneEach, BlocksKept, SentSound, ArpState
<1>2. ASSUME NEW ip \in AnyAddress, NEW hard \in BOOLEAN
      PROVE  LET f == UpdateArpEntry(Quiet, ip, ip, hard)
             IN  Sound(f) /\ SentSound(f) /\ (f.sent = <<>> \/ CacheHit(f, ip))
  BY <1>q, UpdateSound
<1>u. ASSUME NEW ip \in AnyAddress
      PROVE  LET f == UpdateArpEntry(Quiet, ip, ip, FALSE)
             IN  Sound(f) /\ SentSound(f) /\ (f.sent = <<>> \/ CacheHit(f, ip))
  <2>1. PICK hard \in BOOLEAN : hard = FALSE
    OBVIOUS
  <2> QED  BY <1>2, <2>1
<1>3. CASE pbufs = <<>>
  <2>1. arp' = Quiet /\ UNCHANGED <<pbufs, pbufsheld>>
    BY <1>3 DEF ethernetif_input
  <2> QED  BY <1>1, <1>q, <2>1 DEF PbufsSound
<1>4. CASE pbufs # <<>> /\ TakeNothing
  <2> DEFINE src == Head(pbufs)
  <2>1. src \in Payloads
    BY <1>4, <1>q, HeadTailProperties DEF PbufsSound
  <2> HIDE DEF src
  <2>2. /\ arp' = IF src = Other THEN Quiet ELSE UpdateArpEntry(Quiet, src, src, FALSE)
        /\ UNCHANGED <<pbufs, pbufsheld>>
    BY <1>4 DEF TakeNothing, src
  <2>3. src # Other => src \in AnyAddress
    BY <2>1 DEF Payloads, AnyAddress
  <2>4. Sound(arp') /\ SentSound(arp')
    BY <1>q, <1>u, <2>2, <2>3
  <2> QED  BY <1>1, <1>q, <2>2, <2>4 DEF PbufsSound
<1>5. CASE pbufs # <<>> /\ \E h \in Hosts, keep \in BOOLEAN : TakeIp(h, keep)
  <2>1. PICK h \in Hosts, keep \in BOOLEAN : TakeIp(h, keep)
    BY <1>5
  <2>2. h \in AnyAddress /\ h \in Payloads
    BY DEF AnyAddress, Payloads, Addresses
  <2>3. Sound(arp') /\ SentSound(arp')
    BY <1>u, <2>1, <2>2 DEF TakeIp
  <2>4. PbufsSound'
    BY <1>5, <1>q, <2>1, <2>2, PbufPutBack, PbufKept DEF TakeIp
  <2> QED  BY <1>1, <2>3, <2>4
<1>6. CASE pbufs # <<>> /\ \E h \in Hosts, copy \in BOOLEAN : TakePing(h, copy)
  <2>1. PICK h \in Hosts, copy \in BOOLEAN : TakePing(h, copy)
    BY <1>6
  <2>2. h \in AnyAddress /\ Self \in Payloads
    BY DEF AnyAddress, Payloads, Addresses
  <2> DEFINE f == UpdateArpEntry(Quiet, h, h, FALSE)
  <2>3. Sound(f) /\ SentSound(f) /\ (f.sent = <<>> \/ CacheHit(f, h))
    BY <1>u, <2>2
  <2>4. arp' = EtharpQuery(f, h, copy)
    BY <2>1 DEF TakePing
  <2> HIDE DEF f
  <2>5. Sound(arp') /\ SentSound(arp')
    BY <2>3, <2>4, QuerySound
  <2>6. PbufsSound'
    BY <1>6, <1>q, <2>1, <2>2, PbufPutBack DEF TakePing
  <2> QED  BY <1>1, <2>5, <2>6
<1>7. CASE pbufs # <<>> /\ \E ip \in Hosts \cup {NoAddr}, forUs \in BOOLEAN : TakeArp(ip, forUs)
  <2>1. PICK ip \in Hosts \cup {NoAddr}, forUs \in BOOLEAN : TakeArp(ip, forUs)
    BY <1>7
  <2>2. ip \in AnyAddress /\ Other \in Payloads
    BY DEF AnyAddress, Payloads, Addresses
  <2>3. Sound(arp') /\ SentSound(arp')
    BY <1>2, <2>1, <2>2 DEF TakeArp
  <2>4. PbufsSound'
    BY <1>7, <1>q, <2>1, <2>2, PbufPutBack DEF TakeArp
  <2> QED  BY <1>1, <2>3, <2>4
<1> QED  BY <1>3, <1>4, <1>5, <1>6, <1>7 DEF ethernetif_input

LEMMA NetifNextKeeps ==
  ASSUME NetifInv, [NetifNext]_netifVars
  PROVE  NetifInv'
<1>q. Sound(Quiet) /\ SentSound(Quiet) /\ Quiet.sent = <<>> /\ PbufsSound
  BY QuietSound DEF NetifInv
<1> HIDE DEF Quiet
<1>1. ASSUME Sound(arp'), SentSound(arp'), PbufsSound' PROVE NetifInv'
  BY <1>1 DEF NetifInv, Sound, OneEach, BlocksKept, SentSound, ArpState
<1>2. CASE ethernetif_input
  BY <1>2, InputKeeps
<1>3. CASE ReleasePbuf
  <2>1. PICK i \in DOMAIN pbufsheld :
               /\ pbufs' = <<pbufsheld[i]>> \o pbufs
               /\ pbufsheld' = RemoveAt(pbufsheld, i)
               /\ arp' = Quiet
    BY <1>3 DEF ReleasePbuf
  <2>2. PbufsSound'
    BY <1>q, <2>1, PbufFreed
  <2> QED  BY <1>1, <1>q, <2>1, <2>2
<1>4. CASE etharp_output
  <2>1. PICK ip \in Hosts, copy \in BOOLEAN : arp' = EtharpQuery(Quiet, ip, copy)
    BY <1>4 DEF etharp_output
  <2>2. Sound(arp') /\ SentSound(arp')
    BY <1>q, <2>1, QuerySound
  <2> QED  BY <1>1, <1>4, <1>q, <2>2 DEF etharp_output, PbufsSound
<1>5. CASE etharp_tmr
  BY <1>1, <1>5, <1>q, TmrSound DEF etharp_tmr, PbufsSound
<1>6. CASE UNCHANGED netifVars
  BY <1>6 DEF NetifInv, Sound, OneEach, BlocksKept, QueuedOn, SentSound, PbufsSound, netifVars
<1> QED  BY <1>2, <1>3, <1>4, <1>5, <1>6 DEF NetifNext

LEMMA NetifInitSound ==
  ASSUME NetifInit
  PROVE  NetifInv
<1>1. EmptyEntry \in EntryType /\ EntrySound(EmptyEntry) /\ EmptyEntry.state = "EMPTY" /\ EmptyEntry.q = <<>>
  <2>1. <<>> \in Seq(Nat)
    OBVIOUS
  <2> QED  BY <2>1 DEF EmptyEntry, EntryType, EntrySound, AnyAddress
<1> DEFINE t == [i \in ArpIndex |-> EmptyEntry]
<1>2. t \in [ArpIndex -> EntryType] /\ \A i \in ArpIndex : t[i] = EmptyEntry
  BY <1>1
<1> HIDE DEF t
<1>3. /\ arp \in ArpState /\ arp.table = t /\ arp.blocks = MEMP_NUM_ARP_QUEUE /\ arp.sent = <<>>
  <2>1. <<>> \in Seq(PacketType) /\ 1 \in ArpIndex
    BY EtharpAssumption DEF ArpIndex
  <2> QED  BY <1>2, <2>1, EtharpAssumption DEF NetifInit, ArpReset, ArpState, t
<1>4. QueuedOn(arp, ArpIndex) = {}
  <2>1. \A i \in ArpIndex : arp.table[i].q = <<>>
    BY <1>1, <1>2, <1>3
  <2>2. DOMAIN <<>> = {}
    OBVIOUS
  <2> QED  BY <2>1, <2>2 DEF QueuedOn
<1>5. BlocksKept(arp)
  BY <1>3, <1>4, FS_EmptySet, EtharpAssumption DEF BlocksKept
<1>6. Sound(arp) /\ SentSound(arp)
  BY <1>1, <1>2, <1>3, <1>5 DEF Sound, OneEach, SentSound
<1>7. PbufsSound
  <2>1. pbufs \in [1..PBUF_POOL_SIZE -> Payloads] /\ pbufsheld = <<>>
    BY DEF NetifInit, Payloads
  <2>2. pbufs \in Seq(Payloads) /\ Len(pbufs) = PBUF_POOL_SIZE
    <3>1. pbufs \in Seq(Payloads)
      BY <2>1, NetifAssumption, IsASeq
    <3>2. DOMAIN pbufs = 1..PBUF_POOL_SIZE
      BY <2>1
    <3> QED  BY <3>1, <3>2, NetifAssumption, LenProperties
  <2>3. <<>> \in Seq(Payloads) /\ Len(<<>>) = 0
    BY EmptySeq
  <2> QED  BY <2>1, <2>2, <2>3, NetifAssumption DEF PbufsSound
<1> QED  BY <1>6, <1>7 DEF NetifInv

-----------------------------------------------------------------------------
(* What the invariant says *)

LEMMA NetifInvTypes ==
  ASSUME NetifInv PROVE NetifTypeOK
<1>1. /\ arp \in ArpState /\ BlocksKept(arp) /\ PbufsSound
      /\ \A i \in ArpIndex : EntrySound(arp.table[i]) /\ arp.table[i] \in EntryType
  BY DEF NetifInv, Sound, ArpState
<1>2. \A i \in ArpIndex :
        /\ arp.table[i].state \in {"EMPTY", "PENDING", "STABLE"}
        /\ arp.table[i].state = "STABLE" => arp.table[i].ctime \in 0..(ARP_MAXAGE - 1)
        /\ arp.table[i].state = "PENDING" => arp.table[i].ctime \in 0..(ARP_MAXPENDING - 1)
        /\ arp.table[i].ipaddr \in Addresses \cup {NoAddr}
  BY <1>1, EtharpAssumption DEF EntrySound, EntryType, AnyAddress
<1>3. arp.cached \in ArpIndex /\ arp.blocks \in 0..MEMP_NUM_ARP_QUEUE
  <2>1. PICK b \in Nat : b = arp.blocks
    BY <1>1 DEF ArpState
  <2>2. PICK c \in Nat : c = Cardinality(QueuedOn(arp, ArpIndex))
    BY <1>1, FS_CardinalityType DEF BlocksKept
  <2>3. b + c = MEMP_NUM_ARP_QUEUE
    BY <1>1, <2>1, <2>2 DEF BlocksKept
  <2> QED  BY <1>1, <2>1, <2>3, EtharpAssumption DEF ArpState
<1>4. ToSet(pbufs) \cup ToSet(pbufsheld) \subseteq Payloads
  BY <1>1 DEF PbufsSound, ToSet
<1> QED  BY <1>1, <1>2, <1>3, <1>4 DEF NetifTypeOK, PbufsSound

LEMMA NetifInvTable ==
  ASSUME NetifInv PROVE ArpTableSound
BY DEF NetifInv, Sound, OneEach, BlocksKept, EntrySound,
            ArpTableSound, OneEntryPerAddress, QueueBlocksKept

LEMMA NetifInvSent ==
  ASSUME NetifInv PROVE SentRightly
<1>1. SentSound(arp) /\ \A i \in ArpIndex : EntrySound(arp.table[i])
  BY DEF NetifInv, Sound
<1>2. SentToItsHost
  BY <1>1 DEF SentSound, SentToItsHost
<1>3. \A k, l \in DOMAIN arp.sent : k < l => arp.sent[k].n < arp.sent[l].n
  BY <1>1 DEF SentSound
<1>4. \A k \in DOMAIN arp.sent, i \in ArpIndex :
        arp.table[i].ipaddr = arp.sent[k].ip =>
          \A n \in ToSet(arp.table[i].q) : arp.sent[k].n < n
  BY <1>1 DEF SentSound, ToSet
<1>5. \A i \in ArpIndex : \A m, n \in DOMAIN arp.table[i].q :
        m < n => arp.table[i].q[m] < arp.table[i].q[n]
  BY <1>1 DEF EntrySound
<1> QED  BY <1>2, <1>3, <1>4, <1>5 DEF SentRightly, SentInOrder

-----------------------------------------------------------------------------
(* Theorems *)

(* The entries, the queues and the blocks, what was sent, and the pbufs.      *)
THEOREM NetifInvariant == NetifSpec => []NetifInv
<1> QED  BY NetifInitSound, NetifNextKeeps, PTL DEF NetifSpec

(* The types, with the ages and the free blocks in their ranges, and each     *)
(* pbuf of the pool free or kept.                                             *)
THEOREM NetifTypes == NetifSpec => []NetifTypeOK
BY NetifInvariant, NetifInvTypes, PTL

(* An address has one entry, packets wait only on pending ones, and no block  *)
(* is lost.                                                                   *)
THEOREM NetifArpTableSound == NetifSpec => []ArpTableSound
BY NetifInvariant, NetifInvTable, PTL

(* Packets go to the hardware address of their host, and those for one host   *)
(* in the order they came, whatever pbuf is taken for a frame.                *)
THEOREM NetifSentRightly == NetifSpec => []SentRightly
BY NetifInvariant, NetifInvSent, PTL

-----------------------------------------------------------------------------
(* Keys *)

KeyCodes == KeyIds \X {"down", "long", "up"}

BtnType ==
  [Count : 0..(2 * KEY_FILTER_TIME), State : {0, 1},
   LongCount : 0..LongTime, RepeatCount : 0..RepeatSpeed]

RingType ==
  [Buf : [FifoIndex -> KeyCodes \cup {KEY_NONE}], Read : FifoIndex, Write : FifoIndex]

RowType == [down : BOOLEAN, n : 0..Limit]

HistType ==
  [odd : BOOLEAN, row : [KeyIds -> RowType], codes : Seq(KeyCodes), overrun : BOOLEAN]

GetType == [pc : {"test", "load", "advance"}, ret : KeyCodes \cup {KEY_NONE}, wrong : BOOLEAN]

Wrap(i) == IF i < KEY_FIFO_SIZE THEN i ELSE i - KEY_FIFO_SIZE

(* The ring holds the codes that wait, from Read on.                          *)
RingHolds(ring, h) ==
  ~h.overrun =>
    /\ Len(h.codes) < KEY_FIFO_SIZE
    /\ ring.Write = Wrap(ring.Read + Len(h.codes))
    /\ \A i \in 1..Len(h.codes) : ring.Buf[Wrap(ring.Read + (i - 1))] = h.codes[i]

(* What the main loop found out before the interrupt stays true.              *)
GetKnows(g, h) ==
  /\ ~g.wrong
  /\ ~h.overrun =>
       /\ g.pc # "test" => h.codes # <<>>
       /\ g.pc = "advance" => g.ret = h.codes[1]

(* What the counters of a button say of the last readings.                    *)
BtnKnows(b, r) ==
  /\ b.Count > KEY_FILTER_TIME => r.down /\ r.n + KEY_FILTER_TIME >= b.Count
  /\ b.Count < KEY_FILTER_TIME /\ b.State = 1 => ~r.down /\ r.n + b.Count >= KEY_FILTER_TIME
  /\ b.LongCount > 0 =>
       b.Count = 2 * KEY_FILTER_TIME /\ r.down /\ r.n >= KEY_FILTER_TIME + b.LongCount

KeysInv ==
  /\ s_tBtn \in [KeyIds -> BtnType] /\ s_tKey \in RingType
  /\ getkey \in GetType /\ keyhist \in HistType /\ toscan \subseteq KeyIds
  /\ RingHolds(s_tKey, keyhist)
  /\ GetKnows(getkey, keyhist)
  /\ \A k \in KeyIds : BtnKnows(s_tBtn[k], keyhist.row[k])

-----------------------------------------------------------------------------
LEMMA KeysConstants ==
  /\ KEY_FILTER_TIME \in Nat /\ KEY_FILTER_TIME > 0
  /\ KEY_FIFO_SIZE \in Nat /\ KEY_FIFO_SIZE > 1
  /\ LongTime \in Nat /\ LongTime > 0 /\ RepeatSpeed \in Nat
  /\ Limit \in Nat /\ Limit > KEY_FILTER_TIME + LongTime
BY KeysAssumption DEF Limit

(* What a reading does to the button.                                         *)
(* What a reading does to the button.                                         *)
LEMMA DetectKeeps ==
  ASSUME NEW b \in BtnType, NEW r \in RowType, BtnKnows(b, r), NEW k \in KeyIds,
         NEW down \in BOOLEAN
  PROVE  LET c == bsp_DetectKey(b, k, down).btn
             q == Readings(r, down)
         IN  /\ c \in BtnType /\ q \in RowType /\ BtnKnows(c, q)
             /\ c.State # b.State => q.n > KEY_FILTER_TIME
             /\ c.LongCount = LongTime /\ b.LongCount # LongTime
                  => q.n >= KEY_FILTER_TIME + LongTime
<1> DEFINE c == bsp_DetectKey(b, k, down).btn
           q == Readings(r, down)
           F == KEY_FILTER_TIME
<1>0. /\ F \in Nat /\ F > 0 /\ LongTime \in Nat /\ LongTime > 0 /\ RepeatSpeed \in Nat
      /\ Limit \in Nat /\ Limit > F + LongTime
  BY KeysConstants
<1>1. /\ b.Count \in 0..(2 * F) /\ b.State \in {0, 1} /\ b.LongCount \in 0..LongTime
      /\ b.RepeatCount \in 0..RepeatSpeed
  BY DEF BtnType
<1>2. r.n \in 0..Limit /\ r.down \in BOOLEAN
  BY DEF RowType
<1>3. /\ b.Count > F => r.down /\ r.n + F >= b.Count
      /\ b.Count < F /\ b.State = 1 => ~r.down /\ r.n + b.Count >= F
      /\ b.LongCount > 0 => b.Count = 2 * F /\ r.down /\ r.n >= F + b.LongCount
  BY DEF BtnKnows
<1>4. /\ q \in RowType /\ q.down = down /\ q.n \in Nat /\ q.n >= 1
      /\ r.down = down => q.n = r.n + 1 \/ q.n = Limit
  BY <1>0, <1>2 DEF Readings, RowType, Capped
<1> SUFFICES /\ c \in BtnType
             /\ BtnKnows(c, q)
             /\ c.State # b.State => q.n > F
             /\ c.LongCount = LongTime /\ b.LongCount # LongTime => q.n >= F + LongTime
  BY <1>4
<1>5. CASE down
  <2>1. CASE b.Count < F
    <3>1. b.Count \notin F..(2 * F - 1)
      BY <1>0, <1>1, <2>1
    <3>2. c = [b EXCEPT !.Count = KEY_FILTER_TIME]
      BY <1>5, <2>1, <3>1 DEF bsp_DetectKey, DetectDown, Result
    <3>3. c \in BtnType /\ c.Count = F /\ c.State = b.State /\ c.LongCount = b.LongCount
      BY <1>0, <3>2 DEF BtnType
    <3> HIDE DEF c, q, F
    <3> QED  BY <1>0, <1>1, <1>3, <1>4, <2>1, <3>3 DEF BtnKnows, F
  <2>2. CASE b.Count \in F..(2 * F - 1)
    <3>1. ~(b.Count < F)
      BY <1>0, <1>1, <2>2
    <3>2. c = [b EXCEPT !.Count = @ + 1]
      BY <1>5, <2>2, <3>1 DEF bsp_DetectKey, DetectDown, Result
    <3>3. c \in BtnType /\ c.Count = b.Count + 1 /\ c.State = b.State /\ c.LongCount = b.LongCount
      BY <1>0, <1>1, <2>2, <3>2 DEF BtnType
    <3> HIDE DEF c, q, F
    <3>4. q.n + F >= c.Count
      <4>1. CASE b.Count = F
        BY <1>0, <1>1, <1>4, <3>3, <4>1
      <4>2. CASE b.Count > F
        <5>1. r.down = down /\ r.n + F >= b.Count
          BY <1>2, <1>3, <1>5, <4>2
        <5>2. q.n = r.n + 1 \/ q.n = Limit
          BY <1>4, <5>1
        <5> QED  BY <1>0, <1>1, <1>2, <2>2, <3>3, <5>1, <5>2
      <4> QED  BY <1>0, <1>1, <2>2, <4>1, <4>2
    <3> QED  BY <1>0, <1>1, <1>3, <1>4, <1>5, <2>2, <3>3, <3>4 DEF BtnKnows, F
  <2>3. CASE b.Count = 2 * F
    <3> DEFINE d == [b EXCEPT !.State = 1]
    <3>1. ~(b.Count < F) /\ b.Count \notin F..(2 * F - 1)
      BY <1>0, <1>1, <2>3
    <3>2. c = HeldLong(d, k).btn
      BY <1>5, <3>1 DEF bsp_DetectKey, DetectDown, Result, HeldLong
    <3>3. /\ d \in BtnType /\ d.State = 1 /\ d.LongCount = b.LongCount /\ d.Count = b.Count
          /\ d.RepeatCount = b.RepeatCount
      BY DEF BtnType
    <3> HIDE DEF d, c, q, F
    <3>4. /\ c \in BtnType /\ c.State = 1 /\ c.Count = b.Count
          /\ c.LongCount = (IF b.LongCount < LongTime THEN b.LongCount + 1 ELSE b.LongCount)
      <4>1. CASE d.LongCount < LongTime
        <5>0. ~(d.LongCount >= LongTime)
          BY <1>0, <1>1, <3>3, <4>1
        <5>1. c = [d EXCEPT !.LongCount = @ + 1]
          BY <3>2, <4>1, <5>0 DEF HeldLong, Result
        <5> QED  BY <1>0, <1>1, <3>3, <4>1, <5>1 DEF BtnType
      <4>2. CASE ~(d.LongCount < LongTime)
        <5>0. d.LongCount >= LongTime
          BY <1>0, <1>1, <3>3, <4>2
        <5>1. CASE RepeatSpeed > 0 /\ d.RepeatCount + 1 >= RepeatSpeed
          <6>0. ~(d.RepeatCount + 1 < RepeatSpeed)
            BY <1>0, <1>1, <3>3, <5>1
          <6>1. c = [d EXCEPT !.RepeatCount = 0]
            BY <3>2, <4>2, <5>0, <5>1, <6>0 DEF HeldLong, Result
          <6> QED  BY <1>0, <1>1, <3>3, <4>2, <6>1 DEF BtnType
        <5>2. CASE RepeatSpeed > 0 /\ ~(d.RepeatCount + 1 >= RepeatSpeed)
          <6>1. d.RepeatCount + 1 < RepeatSpeed
            BY <1>0, <1>1, <3>3, <5>2
          <6>2. c = [d EXCEPT !.RepeatCount = @ + 1]
            BY <3>2, <4>2, <5>0, <5>2, <6>1 DEF HeldLong, Result
          <6> QED  BY <1>0, <1>1, <3>3, <4>2, <6>1, <6>2 DEF BtnType
        <5>3. CASE ~(RepeatSpeed > 0)
          <6>1. c = d
            BY <3>2, <4>2, <5>0, <5>3 DEF HeldLong, Result
          <6> QED  BY <3>3, <4>2, <6>1
        <5> QED  BY <5>1, <5>2, <5>3
      <4> QED  BY <4>1, <4>2
    <3>5. r.down /\ r.n >= F
      BY <1>0, <1>2, <1>3, <2>3
    <3>6. q.n > F /\ (q.n = r.n + 1 \/ q.n = Limit)
      BY <1>0, <1>2, <1>4, <1>5, <3>5
    <3>7. c.LongCount > 0 => q.n >= F + c.LongCount
      BY <1>0, <1>1, <1>2, <1>3, <3>4, <3>5, <3>6
    <3> QED  BY <1>0, <1>1, <1>4, <1>5, <2>3, <3>4, <3>6, <3>7 DEF BtnKnows, F
  <2> QED  BY <1>0, <1>1, <2>1, <2>2, <2>3
<1>6. CASE ~down
  <2> DEFINE d == [b EXCEPT !.LongCount = 0, !.RepeatCount = 0]
  <2>0. d \in BtnType /\ d.LongCount = 0 /\ d.Count = b.Count /\ d.State = b.State
    <3>1. 0 \in 0..LongTime /\ 0 \in 0..RepeatSpeed
      BY <1>0
    <3> QED  BY <3>1 DEF BtnType
  <2>1. CASE b.Count > F
    <3>1. b.Count \notin 1..F
      BY <1>0, <1>1, <2>1
    <3>2. c = [d EXCEPT !.Count = KEY_FILTER_TIME]
      BY <1>6, <2>1, <3>1 DEF bsp_DetectKey, DetectUp, Result
    <3> HIDE DEF d
    <3>3. c \in BtnType /\ c.Count = F /\ c.State = b.State /\ c.LongCount = 0
      BY <1>0, <2>0, <3>2 DEF BtnType
    <3> HIDE DEF c, q, F
    <3> QED  BY <1>0, <1>1, <1>4, <3>3 DEF BtnKnows, F
  <2>2. CASE b.Count \in 1..F
    <3>1. ~(b.Count > F)
      BY <1>0, <1>1, <2>2
    <3>2. c = [d EXCEPT !.Count = @ - 1]
      BY <1>6, <2>2, <3>1 DEF bsp_DetectKey, DetectUp, Result
    <3> HIDE DEF d
    <3>3. c \in BtnType /\ c.Count = b.Count - 1 /\ c.State = b.State /\ c.LongCount = 0
      BY <1>0, <2>0, <2>2, <3>2 DEF BtnType
    <3> HIDE DEF c, q, F
    <3>4. b.State = 1 => q.n + c.Count >= F
      BY <1>0, <1>1, <1>2, <1>3, <1>4, <1>6, <2>2, <3>3
    <3> QED  BY <1>0, <1>1, <1>4, <1>6, <2>2, <3>3, <3>4 DEF BtnKnows, F
  <2>3. CASE b.Count = 0
    <3>1. ~(b.Count > F) /\ b.Count \notin 1..F
      BY <1>0, <2>3
    <3>2. c = [d EXCEPT !.State = 0]
      BY <1>6, <3>1 DEF bsp_DetectKey, DetectUp, Result
    <3> HIDE DEF d
    <3>3. c \in BtnType /\ c.Count = 0 /\ c.State = 0 /\ c.LongCount = 0
      BY <2>0, <2>3, <3>2 DEF BtnType
    <3> HIDE DEF c, q, F
    <3>4. b.State = 1 => q.n > F
      BY <1>0, <1>2, <1>3, <1>4, <1>6, <2>3
    <3> QED  BY <1>0, <1>1, <1>4, <1>6, <2>3, <3>3, <3>4 DEF BtnKnows, F
  <2> QED  BY <1>0, <1>1, <2>1, <2>2, <2>3
<1> QED  BY <1>5, <1>6

-----------------------------------------------------------------------------
(* The ring *)

LEMMA WrapType ==
  ASSUME NEW a \in FifoIndex, NEW n \in 0..KEY_FIFO_SIZE
  PROVE  Wrap(a + n) \in FifoIndex
BY KeysConstants DEF Wrap, FifoIndex

LEMMA NextIndexWraps ==
  ASSUME NEW a \in FifoIndex
  PROVE  NextIndex(a) = Wrap(a + 1)
BY KeysConstants DEF Wrap, FifoIndex, NextIndex

LEMMA WrapWrap ==
  ASSUME NEW a \in FifoIndex, NEW n \in 0..(KEY_FIFO_SIZE - 1)
  PROVE  Wrap(Wrap(a + n) + 1) = Wrap(a + (n + 1)) /\ Wrap(Wrap(a + 1) + n) = Wrap(a + (n + 1))
BY KeysConstants DEF Wrap, FifoIndex

LEMMA WrapApart ==
  ASSUME NEW a \in FifoIndex, NEW n \in 0..(KEY_FIFO_SIZE - 1), NEW m \in 0..(KEY_FIFO_SIZE - 1),
         Wrap(a + n) = Wrap(a + m)
  PROVE  n = m
BY KeysConstants DEF Wrap, FifoIndex

(* A code that is put, in the ring and in the history.                        *)
LEMMA PutKeeps ==
  ASSUME NEW ring \in RingType, NEW h \in HistType, RingHolds(ring, h),
         NEW g \in GetType, GetKnows(g, h), NEW code \in KeyCodes
  PROVE  LET t == bsp_PutKey(ring, code)
             n == Note(h, code)
         IN  /\ t \in RingType /\ n \in HistType /\ RingHolds(t, n) /\ GetKnows(g, n)
             /\ n.row = h.row
<1> DEFINE t == bsp_PutKey(ring, code)
           n == Note(h, code)
<1>1. /\ ring.Write \in FifoIndex /\ ring.Read \in FifoIndex
      /\ ring.Buf \in [FifoIndex -> KeyCodes \cup {KEY_NONE}]
      /\ h.codes \in Seq(KeyCodes) /\ Len(h.codes) \in Nat
  BY DEF RingType, HistType
<1>2. /\ t \in RingType /\ t.Write = Wrap(ring.Write + 1) /\ t.Read = ring.Read
      /\ t.Buf = [ring.Buf EXCEPT ![ring.Write] = code]
  <2>1. 1 \in 0..KEY_FIFO_SIZE
    BY KeysConstants
  <2>2. NextIndex(ring.Write) = Wrap(ring.Write + 1) /\ Wrap(ring.Write + 1) \in FifoIndex
    BY <1>1, <2>1, NextIndexWraps, WrapType
  <2> QED  BY <1>1, <2>2 DEF bsp_PutKey, RingType
<1>3. CASE Len(h.codes) + 1 >= KEY_FIFO_SIZE \/ h.overrun
  <2>1. n = [h EXCEPT !.codes = <<>>, !.overrun = TRUE]
    BY <1>3 DEF Note
  <2>2. n \in HistType /\ n.overrun /\ n.row = h.row
    BY <2>1, EmptySeq DEF HistType
  <2> QED  BY <1>2, <2>2 DEF RingHolds, GetKnows
<1>4. CASE ~(Len(h.codes) + 1 >= KEY_FIFO_SIZE \/ h.overrun)
  <2>1. n = [h EXCEPT !.codes = Append(@, code)]
    BY <1>4 DEF Note
  <2>2. /\ Append(h.codes, code) \in Seq(KeyCodes) /\ Append(h.codes, code) # <<>>
        /\ Len(Append(h.codes, code)) = Len(h.codes) + 1
        /\ \A i \in 1..Len(h.codes) : Append(h.codes, code)[i] = h.codes[i]
        /\ Append(h.codes, code)[Len(h.codes) + 1] = code
    BY <1>1, AppendProperties
  <2>3. /\ n \in HistType /\ ~n.overrun /\ n.row = h.row /\ n.codes = Append(h.codes, code)
    BY <1>4, <2>1, <2>2 DEF HistType
  <2> HIDE DEF t, n
  <2>4. GetKnows(g, n)
    <3>1. g.pc = "advance" => g.ret = n.codes[1]
      <4>1. h.codes # <<>> => 1 \in 1..Len(h.codes)
        BY <1>1, EmptySeq
      <4> QED  BY <1>4, <2>2, <2>3, <4>1 DEF GetKnows, GetType
    <3> QED  BY <2>2, <2>3, <3>1 DEF GetKnows
  <2>5. Len(n.codes) < KEY_FIFO_SIZE
    BY <1>1, <1>4, <2>2, <2>3, KeysConstants
  <2> PICK len \in Nat : len = Len(h.codes)
    BY <1>1
  <2>6. len \in 0..(KEY_FIFO_SIZE - 1) /\ ring.Write = Wrap(ring.Read + len)
    BY <1>4, KeysConstants DEF RingHolds
  <2>7. t.Write = Wrap(t.Read + Len(n.codes))
    BY <1>1, <1>2, <2>2, <2>3, <2>6, WrapWrap
  <2>8. \A i \in 1..Len(n.codes) : t.Buf[Wrap(t.Read + (i - 1))] = n.codes[i]
    <3> SUFFICES ASSUME NEW i \in 1..(len + 1)
                 PROVE  t.Buf[Wrap(ring.Read + (i - 1))] = n.codes[i]
      BY <1>2, <2>2, <2>3
    <3>1. CASE i = len + 1
      <4>1. i - 1 = len
        BY <3>1
      <4> QED  BY <1>1, <1>2, <2>2, <2>3, <2>6, <3>1, <4>1
    <3>2. CASE i \in 1..len
      <4>1. i - 1 \in 0..(KEY_FIFO_SIZE - 1) /\ i - 1 # len /\ i - 1 \in 0..KEY_FIFO_SIZE
        BY <2>6, <3>2, KeysConstants
      <4>2. Wrap(ring.Read + (i - 1)) # ring.Write /\ Wrap(ring.Read + (i - 1)) \in FifoIndex
        BY <1>1, <2>6, <4>1, WrapApart, WrapType
      <4>3. ring.Buf[Wrap(ring.Read + (i - 1))] = h.codes[i]
        BY <1>4, <3>2 DEF RingHolds
      <4> QED  BY <1>1, <1>2, <2>2, <2>3, <3>2, <4>2, <4>3
    <3> QED  BY <3>1, <3>2
  <2> QED  BY <1>2, <2>3, <2>4, <2>5, <2>7, <2>8 DEF RingHolds, t, n
<1> QED  BY <1>3, <1>4

(* One code after the other.                                                  *)
LEMMA PutAllKeeps ==
  ASSUME NEW ring \in RingType, NEW h \in HistType, RingHolds(ring, h),
         NEW g \in GetType, GetKnows(g, h), NEW codes \in Seq(KeyCodes), Len(codes) <= 2
  PROVE  LET t == InTurn(bsp_PutKey, ring, codes)
             n == InTurn(Note, h, codes)
         IN  /\ t \in RingType /\ n \in HistType /\ RingHolds(t, n) /\ GetKnows(g, n)
             /\ n.row = h.row
<1>1. Len(codes) \in {0, 1, 2}
  <2> PICK n \in Nat : n = Len(codes)
    OBVIOUS
  <2> QED  OBVIOUS
<1>2. CASE Len(codes) = 0
  BY <1>2 DEF InTurn
<1>3. CASE Len(codes) = 1
  <2>1. codes[1] \in KeyCodes
    BY <1>3
  <2> QED  BY <1>3, <2>1, PutKeeps DEF InTurn
<1>4. CASE Len(codes) = 2
  <2> DEFINE t == bsp_PutKey(ring, codes[1])
             n == Note(h, codes[1])
  <2>1. codes[1] \in KeyCodes /\ codes[2] \in KeyCodes
    <3>1. 1 \in 1..Len(codes) /\ 2 \in 1..Len(codes)
      BY <1>4
    <3> QED  BY <3>1, ElementOfSeq
  <2>2. t \in RingType /\ n \in HistType /\ RingHolds(t, n) /\ GetKnows(g, n) /\ n.row = h.row
    BY <2>1, PutKeeps
  <2>3. InTurn(bsp_PutKey, ring, codes) = bsp_PutKey(t, codes[2]) /\ InTurn(Note, h, codes) = Note(n, codes[2])
    BY <1>4 DEF InTurn
  <2> HIDE DEF t, n
  <2> QED  BY <2>1, <2>2, <2>3, PutKeeps
<1> QED  BY <1>1, <1>2, <1>3, <1>4

(* A reading gives no code, one or two.                                       *)
LEMMA DetectCodes ==
  ASSUME NEW b \in BtnType, NEW k \in KeyIds, NEW down \in BOOLEAN
  PROVE  LET codes == bsp_DetectKey(b, k, down).codes
         IN  codes \in Seq(KeyCodes) /\ Len(codes) <= 2
<1> DEFINE Few(c) == c \in Seq(KeyCodes) /\ Len(c) <= 2
           Little(c) == c \in Seq(KeyCodes) /\ Len(c) <= 1
<1>0. \A w \in {"down", "long", "up"} : Code(k, w) \in KeyCodes
  BY DEF Code, KeyCodes
<1>1. Little(<<>>) /\ \A w \in {"down", "long", "up"} : Little(<<Code(k, w)>>)
  BY <1>0
<1>2. \A c : Little(c) => Few(c)
  OBVIOUS
<1>3. \A c, d : Little(c) /\ Little(d) => Few(c \o d)
  <2> SUFFICES ASSUME NEW c, NEW d, Little(c), Little(d)
               PROVE  Few(c \o d)
    OBVIOUS
  <2> QED  BY ConcatProperties
<1>4. Little(HeldLong([b EXCEPT !.State = 1], k).codes)
  <2> DEFINE d == [b EXCEPT !.State = 1]
  <2>1. /\ d.LongCount \in 0..LongTime /\ d.RepeatCount \in 0..RepeatSpeed
    BY DEF BtnType
  <2> HIDE DEF d, Little
  <2>2. CASE d.LongCount < LongTime
    BY <1>1, <2>2 DEF HeldLong, Result
  <2>3. CASE ~(d.LongCount < LongTime)
    <3>1. CASE d.LongCount >= LongTime /\ RepeatSpeed > 0 /\ d.RepeatCount + 1 >= RepeatSpeed
      <4>1. ~(d.RepeatCount + 1 < RepeatSpeed)
        BY <2>1, <3>1, KeysConstants
      <4> QED  BY <1>1, <2>3, <3>1, <4>1 DEF HeldLong, Result
    <3>2. CASE d.LongCount >= LongTime /\ RepeatSpeed > 0 /\ d.RepeatCount + 1 < RepeatSpeed
      <4>1. ~(d.RepeatCount + 1 >= RepeatSpeed)
        BY <2>1, <3>2, KeysConstants
      <4> QED  BY <1>1, <2>3, <3>2, <4>1 DEF HeldLong, Result
    <3>3. CASE ~(RepeatSpeed > 0)
      BY <1>1, <2>3, <3>3 DEF HeldLong, Result
    <3> QED  BY <2>1, <2>3, <3>1, <3>2, <3>3, KeysConstants
  <2> QED  BY <2>2, <2>3 DEF d
<1> HIDE DEF Few, Little
<1>5. CASE down
  <2> DEFINE h == HeldLong([b EXCEPT !.State = 1], k)
  <2>1. h = Result(h.btn, h.codes)
    BY DEF HeldLong, Result
  <2>2. CASE b.Count < KEY_FILTER_TIME
    <3>1. b.Count \notin KEY_FILTER_TIME..(2 * KEY_FILTER_TIME - 1)
      BY <2>2, KeysConstants
    <3>2. bsp_DetectKey(b, k, down).codes = <<>>
      BY <1>5, <2>2, <3>1 DEF bsp_DetectKey, DetectDown, Result
    <3> QED  BY <1>1, <1>2, <3>2 DEF Few
  <2>3. CASE b.Count \in KEY_FILTER_TIME..(2 * KEY_FILTER_TIME - 1)
    <3>1. ~(b.Count < KEY_FILTER_TIME)
      BY <2>3, KeysConstants
    <3>2. bsp_DetectKey(b, k, down).codes = <<>>
      BY <1>5, <2>3, <3>1 DEF bsp_DetectKey, DetectDown, Result
    <3> QED  BY <1>1, <1>2, <3>2 DEF Few
  <2>4. CASE ~(b.Count < KEY_FILTER_TIME) /\ b.Count \notin KEY_FILTER_TIME..(2 * KEY_FILTER_TIME - 1)
    <3> DEFINE first == IF b.State = 0 THEN <<Code(k, "down")>> ELSE <<>>
    <3>1. bsp_DetectKey(b, k, down).codes = first \o h.codes
      <4>1. bsp_DetectKey(b, k, down) = [h EXCEPT !.codes = first \o @]
        BY <1>5, <2>4 DEF bsp_DetectKey, DetectDown
      <4> HIDE DEF h
      <4> QED  BY <2>1, <4>1 DEF Result
    <3>2. Little(first)
      BY <1>1
    <3> QED  BY <1>3, <1>4, <3>1, <3>2 DEF Few
  <2> QED  BY <2>2, <2>3, <2>4
<1>6. CASE ~down
  <2>1. bsp_DetectKey(b, k, down).codes \in {<<>>, <<Code(k, "up")>>}
    BY <1>6 DEF bsp_DetectKey, DetectUp, Result
  <2> QED  BY <1>1, <1>2, <2>1 DEF Few
<1> QED  BY <1>5, <1>6

-----------------------------------------------------------------------------
(* The steps *)

LEMMA KeyScanKeeps ==
  ASSUME KeysInv, bsp_KeyScan
  PROVE  /\ KeysInv'
         /\ \A k \in KeyIds :
              /\ s_tBtn'[k].State # s_tBtn[k].State => keyhist'.row[k].n > KEY_FILTER_TIME
              /\ s_tBtn'[k].LongCount = LongTime /\ s_tBtn[k].LongCount # LongTime
                   => keyhist'.row[k].n >= KEY_FILTER_TIME + LongTime
<1> DEFINE left == IF toscan = {} THEN KeyIds ELSE toscan
<1>0. left \subseteq KeyIds
  BY DEF KeysInv
<1> PICK k \in left, down \in BOOLEAN :
      LET got == bsp_DetectKey(s_tBtn[k], k, down)
      IN  /\ s_tBtn' = [s_tBtn EXCEPT ![k] = got.btn]
          /\ s_tKey' = InTurn(bsp_PutKey, s_tKey, got.codes)
          /\ keyhist' = [InTurn(Note, keyhist, got.codes)
                           EXCEPT !.row[k] = Readings(@, down), !.odd = ~@]
          /\ toscan' = left \ {k}
          /\ UNCHANGED getkey
  BY DEF bsp_KeyScan
<1> DEFINE got == bsp_DetectKey(s_tBtn[k], k, down)
           q == Readings(keyhist.row[k], down)
           n == InTurn(Note, keyhist, got.codes)
<1>1. k \in KeyIds
  BY <1>0
<1>2. /\ s_tBtn[k] \in BtnType /\ keyhist.row[k] \in RowType /\ BtnKnows(s_tBtn[k], keyhist.row[k])
      /\ s_tBtn \in [KeyIds -> BtnType] /\ keyhist.row \in [KeyIds -> RowType]
  BY <1>1 DEF KeysInv, HistType
<1>3. /\ got.btn \in BtnType /\ q \in RowType /\ BtnKnows(got.btn, q)
      /\ got.btn.State # s_tBtn[k].State => q.n > KEY_FILTER_TIME
      /\ got.btn.LongCount = LongTime /\ s_tBtn[k].LongCount # LongTime
           => q.n >= KEY_FILTER_TIME + LongTime
  BY <1>1, <1>2, DetectKeeps
<1>4. got.codes \in Seq(KeyCodes) /\ Len(got.codes) <= 2
  BY <1>1, <1>2, DetectCodes
<1>5. /\ s_tKey' \in RingType /\ n \in HistType /\ RingHolds(s_tKey', n) /\ GetKnows(getkey, n)
      /\ n.row = keyhist.row
  BY <1>4, PutAllKeeps DEF KeysInv
<1> HIDE DEF n, q
<1>6. /\ keyhist' = [n EXCEPT !.row[k] = q, !.odd = ~@]
  BY <1>5 DEF n, q, HistType
<1>7. /\ keyhist' \in HistType /\ keyhist'.row = [keyhist.row EXCEPT ![k] = q]
      /\ keyhist'.codes = n.codes /\ keyhist'.overrun = n.overrun
  <2> DEFINE row == [n.row EXCEPT ![k] = q]
             odd == ~n.odd
  <2>1. keyhist' = [n EXCEPT !.row = row, !.odd = odd]
    BY <1>5, <1>6 DEF HistType
  <2>2. row \in [KeyIds -> RowType] /\ odd \in BOOLEAN /\ row = [keyhist.row EXCEPT ![k] = q]
    BY <1>2, <1>3, <1>5 DEF HistType
  <2> HIDE DEF row, odd
  <2> QED  BY <1>5, <2>1, <2>2 DEF HistType
<1>8. RingHolds(s_tKey', keyhist') /\ GetKnows(getkey', keyhist')
  BY <1>5, <1>7 DEF RingHolds, GetKnows
<1>9. s_tBtn' \in [KeyIds -> BtnType] /\ s_tBtn' = [s_tBtn EXCEPT ![k] = got.btn]
  BY <1>2, <1>3
<1> HIDE DEF got
<1>10. \A j \in KeyIds : s_tBtn'[j] = (IF j = k THEN got.btn ELSE s_tBtn[j])
                        /\ keyhist'.row[j] = (IF j = k THEN q ELSE keyhist.row[j])
  BY <1>2, <1>7, <1>9
<1>11. \A j \in KeyIds : BtnKnows(s_tBtn'[j], keyhist'.row[j])
  BY <1>3, <1>10 DEF KeysInv
<1>12. getkey' \in GetType /\ toscan' \subseteq KeyIds
  BY <1>0 DEF KeysInv
<1>13. KeysInv'
  BY <1>5, <1>7, <1>8, <1>9, <1>11, <1>12 DEF KeysInv
<1> QED  BY <1>3, <1>10, <1>13

LEMMA GetKeyKeeps ==
  ASSUME KeysInv, bsp_GetKey
  PROVE  KeysInv' /\ UNCHANGED s_tBtn
<1>0. /\ getkey \in GetType /\ s_tKey \in RingType /\ keyhist \in HistType
      /\ RingHolds(s_tKey, keyhist) /\ GetKnows(getkey, keyhist)
      /\ keyhist.codes \in Seq(KeyCodes)
  BY DEF KeysInv, HistType
<1>1. CASE GetTest
  <2>1. /\ getkey' \in GetType /\ ~getkey'.wrong /\ getkey'.pc # "advance"
        /\ getkey'.pc # "test" => s_tKey.Read # s_tKey.Write
    BY <1>0, <1>1 DEF GetTest, GetType, GetKnows
  <2>2. ~keyhist.overrun /\ s_tKey.Read # s_tKey.Write => keyhist.codes # <<>>
    <3> SUFFICES ASSUME ~keyhist.overrun, keyhist.codes = <<>> PROVE s_tKey.Read = s_tKey.Write
      OBVIOUS
    <3>1. Len(keyhist.codes) = 0 /\ s_tKey.Read \in FifoIndex
      BY <1>0 DEF RingType
    <3> QED  BY <1>0, <3>1, KeysConstants DEF RingHolds, Wrap, FifoIndex
  <2>3. GetKnows(getkey', keyhist')
    BY <1>1, <2>1, <2>2 DEF GetTest, GetKnows
  <2> QED  BY <1>1, <2>1, <2>3 DEF GetTest, KeysInv
<1>2. CASE GetLoad
  <2>1. /\ getkey' \in GetType /\ ~getkey'.wrong /\ getkey'.ret = s_tKey.Buf[s_tKey.Read]
    BY <1>0, <1>2 DEF GetLoad, GetType, GetKnows, RingType
  <2>2. ~keyhist.overrun => keyhist.codes # <<>> /\ s_tKey.Buf[s_tKey.Read] = keyhist.codes[1]
    <3> SUFFICES ASSUME ~keyhist.overrun
                 PROVE  keyhist.codes # <<>> /\ s_tKey.Buf[s_tKey.Read] = keyhist.codes[1]
      OBVIOUS
    <3>1. keyhist.codes # <<>>
      BY <1>0, <1>2 DEF GetLoad, GetKnows
    <3>2. 1 \in 1..Len(keyhist.codes) /\ s_tKey.Read \in FifoIndex
      BY <1>0, <3>1, EmptySeq DEF RingType
    <3>3. s_tKey.Buf[Wrap(s_tKey.Read + (1 - 1))] = keyhist.codes[1]
      BY <1>0, <3>2 DEF RingHolds
    <3>4. Wrap(s_tKey.Read + (1 - 1)) = s_tKey.Read
      BY <3>2, KeysConstants DEF Wrap, FifoIndex
    <3> QED  BY <3>1, <3>3, <3>4
  <2>3. GetKnows(getkey', keyhist')
    BY <1>2, <2>1, <2>2 DEF GetLoad, GetKnows
  <2> QED  BY <1>2, <2>1, <2>3 DEF GetLoad, KeysInv
<1>3. CASE GetAdvance
  <2> DEFINE c == keyhist.codes
             d == IF c = <<>> THEN c ELSE Tail(c)
  <2>1. /\ s_tKey' = [s_tKey EXCEPT !.Read = NextIndex(@)]
        /\ getkey' = [getkey EXCEPT !.pc = "test",
                        !.wrong = ~keyhist.overrun /\ getkey.ret # Head(keyhist.codes)]
        /\ keyhist' = [keyhist EXCEPT !.codes = d]
        /\ UNCHANGED <<s_tBtn, toscan>>
    BY <1>0, <1>3 DEF GetAdvance, HistType
  <2>2. d \in Seq(KeyCodes)
    BY <1>0, HeadTailProperties
  <2>3. s_tKey.Read \in FifoIndex /\ NextIndex(s_tKey.Read) = Wrap(s_tKey.Read + 1)
        /\ Wrap(s_tKey.Read + 1) \in FifoIndex
    <3>1. 1 \in 0..KEY_FIFO_SIZE /\ s_tKey.Read \in FifoIndex
      BY <1>0, KeysConstants DEF RingType
    <3> QED  BY <3>1, NextIndexWraps, WrapType
  <2> HIDE DEF d
  <2>4. /\ keyhist' \in HistType /\ keyhist'.codes = d /\ keyhist'.overrun = keyhist.overrun
        /\ keyhist'.row = keyhist.row
    BY <1>0, <2>1, <2>2 DEF HistType
  <2>5. /\ s_tKey' \in RingType /\ s_tKey'.Read = Wrap(s_tKey.Read + 1)
        /\ s_tKey'.Write = s_tKey.Write /\ s_tKey'.Buf = s_tKey.Buf
    BY <1>0, <2>1, <2>3 DEF RingType
  <2>6. getkey' \in GetType /\ getkey'.pc = "test"
        /\ getkey'.wrong = (~keyhist.overrun /\ getkey.ret # Head(keyhist.codes))
    BY <1>0, <2>1 DEF GetType
  <2>7. ~keyhist.overrun => c # <<>> /\ getkey.ret = Head(c)
    BY <1>0, <1>3 DEF GetAdvance, GetKnows
  <2>8. GetKnows(getkey', keyhist')
    BY <2>6, <2>7 DEF GetKnows
  <2>9. RingHolds(s_tKey', keyhist')
    <3> SUFFICES ASSUME ~keyhist.overrun PROVE RingHolds(s_tKey', keyhist')
      BY <2>4 DEF RingHolds
    <3> PICK len \in Nat : len = Len(c)
      BY <1>0
    <3>1. /\ d \in Seq(KeyCodes) /\ Len(d) = len - 1 /\ \A i \in 1..(len - 1) : d[i] = c[i + 1]
          /\ len >= 1
      BY <1>0, <2>7, HeadTailProperties, EmptySeq DEF d
    <3>2. /\ len < KEY_FIFO_SIZE /\ s_tKey.Write = Wrap(s_tKey.Read + len)
          /\ \A i \in 1..len : s_tKey.Buf[Wrap(s_tKey.Read + (i - 1))] = c[i]
      BY <1>0 DEF RingHolds
    <3>3. s_tKey.Write = Wrap(Wrap(s_tKey.Read + 1) + (len - 1))
      <4>1. len - 1 \in 0..(KEY_FIFO_SIZE - 1) /\ (len - 1) + 1 = len
        BY <3>1, <3>2, KeysConstants
      <4> QED  BY <2>3, <3>2, <4>1, WrapWrap
    <3>4. \A i \in 1..(len - 1) : s_tKey.Buf[Wrap(Wrap(s_tKey.Read + 1) + (i - 1))] = d[i]
      <4> SUFFICES ASSUME NEW i \in 1..(len - 1)
                   PROVE  s_tKey.Buf[Wrap(Wrap(s_tKey.Read + 1) + (i - 1))] = d[i]
        OBVIOUS
      <4>1. i - 1 \in 0..(KEY_FIFO_SIZE - 1) /\ (i - 1) + 1 = i /\ i + 1 \in 1..len /\ (i + 1) - 1 = i
        BY <3>1, <3>2, KeysConstants
      <4>2. Wrap(Wrap(s_tKey.Read + 1) + (i - 1)) = Wrap(s_tKey.Read + i)
        BY <2>3, <4>1, WrapWrap
      <4>3. s_tKey.Buf[Wrap(s_tKey.Read + ((i + 1) - 1))] = c[i + 1]
        BY <3>2, <4>1
      <4> QED  BY <3>1, <4>1, <4>2, <4>3
    <3>5. Len(d) < KEY_FIFO_SIZE
      BY <3>1, <3>2, KeysConstants
    <3> QED  BY <2>4, <2>5, <3>1, <3>3, <3>4, <3>5 DEF RingHolds
  <2> QED  BY <2>1, <2>4, <2>5, <2>6, <2>8, <2>9 DEF KeysInv
<1>4. UNCHANGED s_tBtn
  BY DEF bsp_GetKey, GetTest, GetLoad, GetAdvance
<1> QED  BY <1>1, <1>2, <1>3, <1>4 DEF bsp_GetKey

LEMMA KeysStutter ==
  ASSUME KeysInv, UNCHANGED keysVars
  PROVE  KeysInv'
BY DEF KeysInv, keysVars

LEMMA KeysNextKeeps ==
  ASSUME KeysInv, [KeysNext]_keysVars
  PROVE  KeysInv'
BY KeyScanKeeps, GetKeyKeeps, KeysStutter DEF KeysNext

LEMMA KeysInitSound == KeysInit => KeysInv
<1> SUFFICES ASSUME KeysInit PROVE KeysInv
  OBVIOUS
<1>0. KEY_FILTER_TIME \div 2 \in 0..(2 * KEY_FILTER_TIME)
      /\ ~(KEY_FILTER_TIME \div 2 > KEY_FILTER_TIME)
  BY KeysConstants
<1>1. s_tBtn \in [KeyIds -> BtnType]
  BY <1>0, KeysConstants DEF KeysInit, BtnType
<1>2. s_tKey \in RingType /\ s_tKey.Read = 0 /\ s_tKey.Write = 0
  BY KeysConstants DEF KeysInit, RingType, FifoIndex
<1>3. keyhist \in HistType /\ keyhist.codes = <<>>
  BY KeysConstants DEF KeysInit, HistType, RowType
<1>4. getkey \in GetType /\ getkey.pc = "test" /\ ~getkey.wrong
  BY DEF KeysInit, GetType
<1>5. RingHolds(s_tKey, keyhist)
  BY <1>2, <1>3, KeysConstants DEF RingHolds, Wrap
<1>6. \A k \in KeyIds : BtnKnows(s_tBtn[k], keyhist.row[k])
  <2> SUFFICES ASSUME NEW k \in KeyIds PROVE BtnKnows(s_tBtn[k], keyhist.row[k])
    OBVIOUS
  <2>1. s_tBtn[k].Count = KEY_FILTER_TIME \div 2 /\ s_tBtn[k].State = 0 /\ s_tBtn[k].LongCount = 0
    BY DEF KeysInit
  <2> QED  BY <1>0, <2>1 DEF BtnKnows
<1> QED  BY <1>1, <1>2, <1>3, <1>4, <1>5, <1>6 DEF KeysInv, GetKnows, KeysInit

LEMMA KeysInvGivesTypes == KeysInv => KeysTypeOK
BY DEF KeysInv, KeysTypeOK, BtnType, RingType

(* The inductive invariant, for any number of keys and any size of the ring.  *)
THEOREM KeysInvariant == KeysSpec => []KeysInv
<1> QED  BY KeysInitSound, KeysNextKeeps, PTL DEF KeysSpec

(* The counters of a key and the places in the ring keep their ranges.        *)
THEOREM KeysTypes == KeysSpec => []KeysTypeOK
BY KeysInvariant, KeysInvGivesTypes, PTL

LEMMA WrapModulo ==
  ASSUME NEW m \in Nat \ {0}, NEW x \in 0..(m - 1)
  PROVE  x % m = x /\ (x + m) % m = x
BY SMT

LEMMA KeysInvGivesOrder == KeysInv => KeysInOrder
<1> SUFFICES ASSUME KeysInv, ~keyhist.overrun
             PROVE  /\ (s_tKey.Write + KEY_FIFO_SIZE - s_tKey.Read) % KEY_FIFO_SIZE = Len(keyhist.codes)
                    /\ \A i \in DOMAIN keyhist.codes :
                         s_tKey.Buf[(s_tKey.Read + i - 1) % KEY_FIFO_SIZE] = keyhist.codes[i]
  BY DEF KeysInv, KeysInOrder, GetKnows
<1> PICK len \in Nat : len = Len(keyhist.codes)
  BY DEF KeysInv, HistType
<1> PICK read \in FifoIndex : read = s_tKey.Read
  BY DEF KeysInv, RingType
<1>1. len < KEY_FIFO_SIZE /\ s_tKey.Write = Wrap(read + len)
      /\ \A i \in 1..len : s_tKey.Buf[Wrap(read + (i - 1))] = keyhist.codes[i]
      /\ DOMAIN keyhist.codes = 1..len
  BY DEF KeysInv, RingHolds, HistType
<1> DEFINE m == KEY_FIFO_SIZE
<1>2. m \in Nat \ {0} /\ read \in 0..(m - 1) /\ len \in 0..(m - 1)
  BY <1>1, KeysConstants DEF FifoIndex
<1> HIDE DEF m
<1>3. (Wrap(read + len) + m - read) % m = len
  <2>1. CASE read + len < m
    <3>1. Wrap(read + len) + m - read = len + m /\ len \in 0..(m - 1)
      <4>1. Wrap(read + len) = read + len
        BY <2>1 DEF Wrap, m
      <4> QED  BY <1>2, <4>1
    <3> QED  BY <1>2, <3>1, WrapModulo
  <2>2. CASE ~(read + len < m)
    <3>1. Wrap(read + len) + m - read = len /\ len \in 0..(m - 1)
      <4>1. Wrap(read + len) = read + len - m
        BY <1>2, <2>2 DEF Wrap, m
      <4> QED  BY <1>2, <4>1
    <3> QED  BY <1>2, <3>1, WrapModulo
  <2> QED  BY <2>1, <2>2
<1>4. \A i \in 1..len : (read + i - 1) % m = Wrap(read + (i - 1))
  <2> SUFFICES ASSUME NEW i \in 1..len PROVE (read + i - 1) % m = Wrap(read + (i - 1))
    OBVIOUS
  <2> DEFINE x == read + i - 1
  <2>0. x \in Nat /\ x = read + (i - 1) /\ x < m + m
    BY <1>1, <1>2 DEF m
  <2> HIDE DEF x
  <2>1. CASE x < m
    <3>1. x \in 0..(m - 1) /\ Wrap(x) = x
      BY <1>2, <2>0, <2>1 DEF Wrap, m
    <3> QED  BY <1>2, <2>0, <3>1, WrapModulo DEF x
  <2>2. CASE ~(x < m)
    <3>1. x - m \in 0..(m - 1) /\ Wrap(x) = x - m /\ (x - m) + m = x
      BY <1>2, <2>0, <2>2 DEF Wrap, m
    <3> QED  BY <1>2, <2>0, <3>1, WrapModulo DEF x
  <2> QED  BY <2>1, <2>2
<1> QED  BY <1>1, <1>3, <1>4 DEF m

(* The program gets the codes in the order in which the keys gave them,       *)
(* wherever the interrupt comes in bsp_GetKey, until the ring is overrun.      *)
THEOREM KeysComeInOrder == KeysSpec => []KeysInOrder
<1> QED  BY KeysInvariant, KeysInvGivesOrder, PTL

LEMMA KeysStepDebounced ==
  ASSUME KeysInv, [KeysNext]_keysVars
  PROVE  [\A k \in KeyIds :
           /\ s_tBtn'[k].State # s_tBtn[k].State => keyhist'.row[k].n > KEY_FILTER_TIME
           /\ s_tBtn'[k].LongCount = LongTime /\ s_tBtn[k].LongCount # LongTime
                => keyhist'.row[k].n >= KEY_FILTER_TIME + LongTime]_keysVars
BY KeyScanKeeps, GetKeyKeeps DEF KeysNext

(* A key is taken as pressed or released, or as held long, only when it was   *)
(* so for as long as the filter asks.                                         *)
THEOREM KeysDebounced == KeysSpec => Debounced
BY KeysInvariant, KeysStepDebounced, PTL DEF KeysSpec, Debounced

-----------------------------------------------------------------------------
(* Reassembly *)

(* A datagram may be empty only while its first fragment joins it.            *)
Datagrams ==
  {d \in [id : IpIds, p : Seq(FragmentSet), last : BOOLEAN, timer : 0..IP_REASS_MAXAGE] :
     \A k \in DOMAIN d.p : d.p[k].id = d.id}

(* The list has one datagram for each id, the newest first.                   *)
ListSound(l) ==
  /\ l \in Seq(Datagrams)
  /\ \A i, j \in DOMAIN l : l[i].id = l[j].id => i = j
  /\ \A i, j \in DOMAIN l : i < j => l[j].timer <= l[i].timer

EventType == [got : SUBSET IpIds, whole : Seq(FragmentSet), dangling : BOOLEAN]

ReassType == [list : Seq(Datagrams), blocks : Nat, count : Nat, event : EventType]

(* The blocks and the pbufs of the datagrams D are those that are not free.   *)
Accounted(r, D) ==
  /\ r.blocks + Cardinality(D) = MEMP_NUM_REASSDATA
  /\ r.count = PbufsIn(D)

(* The datagrams that were not freed are those in the list, but for one that  *)
(* dangles: never one of ids, the only that may be empty.                     *)
RecordSound(r, ids) ==
  /\ r \in ReassType /\ ListSound(r.list)
  /\ \A i \in DOMAIN r.list : r.list[i].p = <<>> => r.list[i].id \in ids
  /\ \E D \in SUBSET ToSet(r.list) :
       /\ Accounted(r, D)
       /\ ~r.event.dangling => D = ToSet(r.list)
       /\ \A d \in ToSet(r.list) : d.id \in ids => d \in D

NonEmpty(l) == \A i \in DOMAIN l : l[i].p # <<>>

(* From l to m one datagram left at most: the oldest that is not id.          *)
Evicted(l, m, id) ==
  \/ m = l
  \/ \E i \in DOMAIN l : /\ l[i].id # id /\ m = RemoveAt(l, i)
                         /\ \A j \in DOMAIN l : i < j => l[j].id = id

Now == [list |-> reassdatagrams, blocks |-> reassblocks,
        count |-> ip_reass_pbufcount, event |-> reassevent]

ReassInv == RecordSound(Now, {}) /\ ip_reass_pbufcount <= IP_REASS_MAX_PBUFS

-----------------------------------------------------------------------------
(* Places in a list *)

LEMMA RemoveAtProperties ==
  ASSUME NEW X, NEW l \in Seq(X), NEW i \in 1..Len(l)
  PROVE  /\ RemoveAt(l, i) \in Seq(X) /\ Len(RemoveAt(l, i)) = Len(l) - 1
         /\ DOMAIN RemoveAt(l, i) = 1..(Len(l) - 1)
         /\ \A k \in 1..(Len(l) - 1) : RemoveAt(l, i)[k] = IF k < i THEN l[k] ELSE l[k + 1]
<1> DEFINE a == SubSeq(l, 1, i - 1)
           b == SubSeq(l, i + 1, Len(l))
<1> PICK n \in Nat : n = Len(l)
  OBVIOUS
<1>1. /\ a \in Seq(X) /\ Len(a) = i - 1 /\ \A k \in 1..(i - 1) : a[k] = l[k]
  <2>1. \A k \in 1..(i - 1) : l[k] \in X
    BY ElementOfSeq
  <2>2. /\ a \in Seq(X) /\ Len(a) = (IF 1 <= i - 1 THEN i - 1 - 1 + 1 ELSE 0)
        /\ \A k \in 1..(i - 1 - 1 + 1) : a[k] = l[1 + k - 1]
    BY <2>1, SubSeqProperties
  <2> HIDE DEF a
  <2> QED  BY <2>2
<1>2. /\ b \in Seq(X) /\ Len(b) = n - i /\ \A k \in 1..(n - i) : b[k] = l[i + k]
  <2>1. \A k \in (i + 1)..n : l[k] \in X
    BY ElementOfSeq
  <2>2. /\ b \in Seq(X) /\ Len(b) = (IF i + 1 <= n THEN n - (i + 1) + 1 ELSE 0)
        /\ \A k \in 1..(n - (i + 1) + 1) : b[k] = l[(i + 1) + k - 1]
    BY <2>1, SubSeqProperties
  <2> HIDE DEF b
  <2>3. n - (i + 1) + 1 = n - i
    OBVIOUS
  <2>4. \A k \in 1..(n - i) : (i + 1) + k - 1 = i + k
    OBVIOUS
  <2>5. Len(b) = n - i
    BY <2>2
  <2> QED  BY <2>2, <2>3, <2>4, <2>5
<1> HIDE DEF a, b
<1>3. RemoveAt(l, i) = a \o b
  BY DEF RemoveAt, a, b
<1>4. /\ a \o b \in Seq(X) /\ Len(a \o b) = Len(a) + Len(b)
      /\ \A k \in 1..(Len(a) + Len(b)) : (a \o b)[k] = IF k <= Len(a) THEN a[k] ELSE b[k - Len(a)]
  BY <1>1, <1>2, ConcatProperties
<1> DEFINE c == a \o b
<1> HIDE DEF c
<1>5. c \in Seq(X) /\ Len(c) = n - 1 /\ DOMAIN c = 1..(n - 1)
  <2>0. Len(c) = Len(a) + Len(b)
    BY <1>4 DEF c
  <2>1. Len(c) = n - 1
    BY <1>1, <1>2, <2>0
  <2>2. c \in Seq(X)
    BY <1>4 DEF c
  <2>3. DOMAIN c = 1..Len(c)
    BY <2>2, LenProperties
  <2> QED  BY <2>1, <2>2, <2>3
<1>6. \A k \in 1..(n - 1) : c[k] = IF k < i THEN l[k] ELSE l[k + 1]
  <2> SUFFICES ASSUME NEW k \in 1..(n - 1) PROVE c[k] = IF k < i THEN l[k] ELSE l[k + 1]
    OBVIOUS
  <2>1. c[k] = IF k <= i - 1 THEN a[k] ELSE b[k - (i - 1)]
    BY <1>1, <1>2, <1>4 DEF c
  <2>2. CASE k < i
    BY <1>1, <2>1, <2>2
  <2>3. CASE ~(k < i)
    <3>1. k - (i - 1) \in 1..(n - i) /\ i + (k - (i - 1)) = k + 1 /\ ~(k <= i - 1)
      BY <2>3
    <3> QED  BY <1>2, <2>1, <2>3, <3>1
  <2> QED  BY <2>2, <2>3
<1> QED  BY <1>3, <1>5, <1>6 DEF c

(* What is left of a list with different elements.                            *)
LEMMA RemoveAtSet ==
  ASSUME NEW X, NEW l \in Seq(X), NEW i \in 1..Len(l),
         \A j, k \in 1..Len(l) : l[j] = l[k] => j = k
  PROVE  ToSet(RemoveAt(l, i)) = ToSet(l) \ {l[i]}
<1> DEFINE c == RemoveAt(l, i)
<1> PICK n \in Nat : n = Len(l)
  OBVIOUS
<1>0. /\ DOMAIN c = 1..(Len(l) - 1)
      /\ \A k \in 1..(Len(l) - 1) : c[k] = IF k < i THEN l[k] ELSE l[k + 1]
  BY RemoveAtProperties
<1> HIDE DEF c
<1>1. /\ DOMAIN c = 1..(n - 1) /\ DOMAIN l = 1..n
      /\ \A k \in 1..(n - 1) : c[k] = IF k < i THEN l[k] ELSE l[k + 1]
  BY <1>0, LenProperties
<1>2. ASSUME NEW k \in 1..(n - 1) PROVE c[k] \in ToSet(l) \ {l[i]}
  <2> DEFINE m == IF k < i THEN k ELSE k + 1
  <2>1. m \in 1..n /\ m # i
    OBVIOUS
  <2>2. c[k] = l[m]
    BY <1>1
  <2> HIDE DEF m
  <2> QED  BY <1>1, <2>1, <2>2 DEF ToSet
<1>3. ASSUME NEW m \in 1..n, m # i PROVE l[m] \in ToSet(c)
  <2> DEFINE k == IF m < i THEN m ELSE m - 1
  <2>1. k \in 1..(n - 1) /\ (k < i => k = m) /\ (~(k < i) => k + 1 = m)
    BY <1>3
  <2> HIDE DEF k
  <2>2. c[k] = l[m]
    BY <1>1, <2>1
  <2> QED  BY <1>1, <2>1, <2>2 DEF ToSet
<1> QED  BY <1>1, <1>2, <1>3 DEF ToSet, c

LEMMA UpToSize ==
  ASSUME NEW n \in Nat
  PROVE  IsFiniteSet(1..n) /\ Cardinality(1..n) = n
BY FS_Interval

LEMMA ElementsOf ==
  ASSUME NEW X, NEW l \in Seq(X)
  PROVE  /\ IsFiniteSet(ToSet(l)) /\ ToSet(l) \subseteq X
         /\ (\A j, k \in DOMAIN l : l[j] = l[k] => j = k) => Cardinality(ToSet(l)) = Len(l)
<1>1. /\ Len(l) \in Nat /\ DOMAIN l = 1..Len(l) /\ l \in [1..Len(l) -> X]
      /\ IsFiniteSet(1..Len(l)) /\ Cardinality(1..Len(l)) = Len(l)
  <2> PICK n \in Nat : n = Len(l)
    BY LenProperties
  <2>1. IsFiniteSet(1..n) /\ Cardinality(1..n) = n
    BY UpToSize
  <2> QED  BY <2>1, LenProperties
<1>2. ToSet(l) = {l[k] : k \in 1..Len(l)}
  BY <1>1 DEF ToSet
<1>3. l \in Surjection(1..Len(l), ToSet(l))
  BY <1>1, <1>2 DEF Surjection
<1>4. /\ IsFiniteSet(ToSet(l))
      /\ Cardinality(ToSet(l)) = Cardinality(1..Len(l)) <=> l \in Injection(1..Len(l), ToSet(l))
  BY <1>1, <1>3, FS_Surjection
<1>5. (\A j, k \in DOMAIN l : l[j] = l[k] => j = k) => l \in Injection(1..Len(l), ToSet(l))
  BY <1>1, <1>3 DEF Injection, IsInjective, Surjection
<1> QED  BY <1>1, <1>2, <1>4, <1>5

LEMMA Different ==
  ASSUME NEW l, ListSound(l)
  PROVE  /\ \A j, k \in 1..Len(l) : l[j] = l[k] => j = k
         /\ Len(l) \in Nat /\ DOMAIN l = 1..Len(l) /\ l \in Seq(Datagrams)
         /\ Cardinality(ToSet(l)) = Len(l) /\ IsFiniteSet(ToSet(l)) /\ ToSet(l) \subseteq Datagrams
         /\ \A d, e \in ToSet(l) : d.id = e.id => d = e
<1>1. l \in Seq(Datagrams) /\ \A j, k \in DOMAIN l : l[j].id = l[k].id => j = k
  BY DEF ListSound
<1>2. \A j, k \in DOMAIN l : l[j] = l[k] => j = k
  BY <1>1
<1>3. Len(l) \in Nat /\ DOMAIN l = 1..Len(l)
  BY <1>1
<1>4. \A d, e \in ToSet(l) : d.id = e.id => d = e
  BY <1>1 DEF ToSet
<1> QED  BY <1>1, <1>2, <1>3, <1>4, ElementsOf

LEMMA ListRemove ==
  ASSUME NEW l, ListSound(l), NEW i \in DOMAIN l
  PROVE  /\ ListSound(RemoveAt(l, i)) /\ ToSet(RemoveAt(l, i)) = ToSet(l) \ {l[i]}
         /\ Len(RemoveAt(l, i)) = Len(l) - 1
<1> DEFINE c == RemoveAt(l, i)
<1>1. /\ l \in Seq(Datagrams) /\ DOMAIN l = 1..Len(l) /\ Len(l) \in Nat /\ i \in 1..Len(l)
      /\ \A j, k \in 1..Len(l) : l[j] = l[k] => j = k
  BY Different
<1> PICK n \in Nat : n = Len(l)
  BY <1>1
<1>2. /\ c \in Seq(Datagrams) /\ DOMAIN c = 1..(n - 1) /\ Len(c) = n - 1
      /\ \A k \in 1..(n - 1) : c[k] = IF k < i THEN l[k] ELSE l[k + 1]
  BY <1>1, RemoveAtProperties
<1>3. ToSet(c) = ToSet(l) \ {l[i]}
  BY <1>1, RemoveAtSet
<1> HIDE DEF c
<1>4. ASSUME NEW j \in 1..(n - 1), NEW k \in 1..(n - 1)
      PROVE  (c[j].id = c[k].id => j = k) /\ (j < k => c[k].timer <= c[j].timer)
  <2> DEFINE At(m) == IF m < i THEN m ELSE m + 1
  <2>1. /\ At(j) \in DOMAIN l /\ At(k) \in DOMAIN l /\ (At(j) = At(k) => j = k)
        /\ (j < k => At(j) < At(k))
    BY <1>1
  <2>2. c[j] = l[At(j)] /\ c[k] = l[At(k)]
    BY <1>2
  <2> HIDE DEF At
  <2> QED  BY <2>1, <2>2 DEF ListSound
<1>5. ListSound(c)
  BY <1>2, <1>4 DEF ListSound
<1> QED  BY <1>2, <1>3, <1>5 DEF c

LEMMA ListReplace ==
  ASSUME NEW l, ListSound(l), NEW i \in DOMAIN l, NEW d \in Datagrams,
         d.id = l[i].id, d.timer = l[i].timer
  PROVE  LET c == [l EXCEPT ![i] = d]
         IN  /\ ListSound(c) /\ ToSet(c) = (ToSet(l) \ {l[i]}) \cup {d} /\ Len(c) = Len(l)
             /\ DOMAIN c = DOMAIN l /\ \A k \in DOMAIN l : c[k] = IF k = i THEN d ELSE l[k]
<1> DEFINE c == [l EXCEPT ![i] = d]
<1>1. /\ l \in Seq(Datagrams) /\ DOMAIN l = 1..Len(l) /\ Len(l) \in Nat /\ i \in 1..Len(l)
      /\ \A j, k \in 1..Len(l) : l[j] = l[k] => j = k
  BY Different
<1>2. /\ c \in Seq(Datagrams) /\ DOMAIN c = DOMAIN l /\ Len(c) = Len(l)
      /\ \A k \in DOMAIN l : c[k] = IF k = i THEN d ELSE l[k]
  BY <1>1, ExceptSeq
<1> HIDE DEF c
<1>3. \A k \in DOMAIN l : c[k].id = l[k].id /\ c[k].timer = l[k].timer
  BY <1>2
<1>4. ListSound(c)
  BY <1>2, <1>3 DEF ListSound
<1>5. ToSet(c) = (ToSet(l) \ {l[i]}) \cup {d}
  BY <1>1, <1>2 DEF ToSet
<1> QED  BY <1>2, <1>4, <1>5 DEF c

LEMMA ListPush ==
  ASSUME NEW l, ListSound(l), NEW d \in Datagrams, d.timer = IP_REASS_MAXAGE,
         \A e \in ToSet(l) : e.id # d.id
  PROVE  LET c == <<d>> \o l
         IN  /\ ListSound(c) /\ ToSet(c) = ToSet(l) \cup {d} /\ Len(c) = Len(l) + 1
             /\ DOMAIN c = 1..(Len(l) + 1)
             /\ \A k \in DOMAIN c : c[k] = IF k = 1 THEN d ELSE l[k - 1]
<1> DEFINE c == <<d>> \o l
<1>1. /\ l \in Seq(Datagrams) /\ DOMAIN l = 1..Len(l) /\ Len(l) \in Nat
  BY Different
<1> PICK n \in Nat : n = Len(l)
  BY <1>1
<1>2. /\ c \in Seq(Datagrams) /\ Len(c) = n + 1
      /\ \A k \in 1..(n + 1) : c[k] = IF k = 1 THEN d ELSE l[k - 1]
  <2>1. <<d>> \in Seq(Datagrams) /\ Len(<<d>>) = 1 /\ <<d>>[1] = d
    OBVIOUS
  <2> DEFINE a == <<d>>
  <2> HIDE DEF a
  <2>2. /\ a \o l \in Seq(Datagrams) /\ Len(a \o l) = 1 + n
        /\ \A k \in 1..(1 + n) : (a \o l)[k] = IF k <= 1 THEN a[k] ELSE l[k - 1]
    BY <1>1, <2>1, ConcatProperties DEF a
  <2>3. c = a \o l
    BY DEF a
  <2> HIDE DEF c
  <2>4. 1 + n = n + 1
    OBVIOUS
  <2>5. ASSUME NEW k \in 1..(n + 1) PROVE c[k] = IF k = 1 THEN d ELSE l[k - 1]
    <3>1. k <= 1 <=> k = 1
      OBVIOUS
    <3> QED  BY <2>1, <2>2, <2>3, <2>4, <3>1 DEF a
  <2> QED  BY <2>2, <2>3, <2>4, <2>5
<1>3. DOMAIN c = 1..(n + 1)
  BY <1>2
<1> HIDE DEF c
<1>4. \A k \in 1..n : l[k].timer \in 0..IP_REASS_MAXAGE /\ l[k].id # d.id
  <2> SUFFICES ASSUME NEW k \in 1..n
               PROVE  l[k].timer \in 0..IP_REASS_MAXAGE /\ l[k].id # d.id
    OBVIOUS
  <2>1. l[k] \in Datagrams /\ l[k] \in ToSet(l)
    BY <1>1, ElementOfSeq DEF ToSet
  <2> QED  BY <2>1 DEF Datagrams
<1>5. ASSUME NEW j \in 1..(n + 1), NEW k \in 1..(n + 1)
      PROVE  (c[j].id = c[k].id => j = k) /\ (j < k => c[k].timer <= c[j].timer)
  <2>1. CASE j = 1
    <3>1. k # 1 => k - 1 \in 1..n /\ c[k] = l[k - 1]
      BY <1>2
    <3> QED  BY <1>2, <1>4, <2>1, <3>1, ReassAssumption
  <2>2. CASE k = 1
    <3>1. j # 1 => j - 1 \in 1..n /\ c[j] = l[j - 1]
      BY <1>2
    <3> QED  BY <1>2, <1>4, <2>2, <3>1
  <2>3. CASE j # 1 /\ k # 1
    <3>1. j - 1 \in 1..n /\ k - 1 \in 1..n /\ c[j] = l[j - 1] /\ c[k] = l[k - 1]
      BY <1>2, <2>3
    <3>2. (j - 1 = k - 1 => j = k) /\ (j < k => j - 1 < k - 1)
      OBVIOUS
    <3> QED  BY <1>1, <3>1, <3>2 DEF ListSound
  <2> QED  BY <2>1, <2>2, <2>3
<1>6. ListSound(c)
  BY <1>2, <1>3, <1>5 DEF ListSound
<1>7. ToSet(c) = ToSet(l) \cup {d}
  <2>1. ASSUME NEW k \in 1..(n + 1) PROVE c[k] \in ToSet(l) \cup {d}
    <3>1. k # 1 => k - 1 \in 1..n
      OBVIOUS
    <3> QED  BY <1>1, <1>2, <3>1 DEF ToSet
  <2>2. ASSUME NEW k \in 1..n PROVE l[k] \in ToSet(c)
    <3>1. k + 1 \in 1..(n + 1) /\ k + 1 # 1 /\ (k + 1) - 1 = k
      OBVIOUS
    <3>2. c[k + 1] = l[k]
      BY <1>2, <3>1
    <3> QED  BY <1>3, <3>1, <3>2 DEF ToSet
  <2>3. d \in ToSet(c)
    <3>1. 1 \in 1..(n + 1)
      OBVIOUS
    <3> QED  BY <1>2, <1>3, <3>1 DEF ToSet
  <2> QED  BY <1>1, <1>3, <2>1, <2>2, <2>3 DEF ToSet
<1> QED  BY <1>2, <1>3, <1>6, <1>7 DEF c

-----------------------------------------------------------------------------
(* Pbufs of datagrams *)

LEMMA PbufsOne ==
  ASSUME NEW d \in Datagrams
  PROVE  IsFiniteSet(PbufsOf({d})) /\ PbufsIn({d}) = Len(d.p) /\ Len(d.p) \in Nat
<1>1. d.p \in Seq(FragmentSet)
  BY DEF Datagrams
<1> PICK n \in Nat : n = Len(d.p)
  BY <1>1
<1>2. PbufsOf({d}) = {d.id} \X (1..n)
  BY <1>1 DEF PbufsOf
<1> DEFINE N == 1..n
<1>3. IsFiniteSet(N) /\ Cardinality(N) = n
  BY UpToSize
<1> HIDE DEF N
<1>4. IsFiniteSet({d.id}) /\ Cardinality({d.id}) = 1
  BY FS_Singleton
<1>5. IsFiniteSet({d.id} \X N) /\ Cardinality({d.id} \X N) = Cardinality({d.id}) * Cardinality(N)
  BY <1>3, <1>4, FS_Product
<1>6. 1 * n = n
  OBVIOUS
<1> QED  BY <1>2, <1>3, <1>4, <1>5, <1>6 DEF N, PbufsIn

LEMMA PbufsFinite ==
  ASSUME NEW D, IsFiniteSet(D), D \subseteq Datagrams
  PROVE  IsFiniteSet(PbufsOf(D)) /\ PbufsIn(D) \in Nat
<1> DEFINE parts == {{d.id} \X DOMAIN d.p : d \in D}
           f == [d \in D |-> {d.id} \X DOMAIN d.p]
<1>1. f \in Surjection(D, parts)
  BY DEF Surjection
<1>2. \A d \in D : IsFiniteSet(f[d])
  <2> SUFFICES ASSUME NEW d \in D PROVE IsFiniteSet(f[d])
    OBVIOUS
  <2>1. PbufsOf({d}) = f[d]
    BY DEF PbufsOf
  <2> QED  BY <2>1, PbufsOne
<1>3. \A T \in parts : IsFiniteSet(T)
  BY <1>2
<1> HIDE DEF parts, f
<1>4. IsFiniteSet(parts)
  BY <1>1, FS_Surjection
<1>5. IsFiniteSet(UNION parts)
  BY <1>3, <1>4, FS_UNION
<1>6. IsFiniteSet(PbufsOf(D))
  BY <1>5 DEF PbufsOf, parts
<1> QED  BY <1>6, FS_CardinalityType DEF PbufsIn

LEMMA PbufsSplit ==
  ASSUME NEW D, IsFiniteSet(D), D \subseteq Datagrams,
         NEW E, IsFiniteSet(E), E \subseteq Datagrams,
         \A d \in D, e \in E : d.id # e.id
  PROVE  PbufsIn(D \cup E) = PbufsIn(D) + PbufsIn(E)
<1>1. PbufsOf(D \cup E) = PbufsOf(D) \cup PbufsOf(E)
  BY DEF PbufsOf
<1>2. PbufsOf(D) \cap PbufsOf(E) = {}
  BY DEF PbufsOf
<1>3. IsFiniteSet(PbufsOf(D)) /\ IsFiniteSet(PbufsOf(E)) /\ PbufsIn(D) \in Nat /\ PbufsIn(E) \in Nat
  BY PbufsFinite
<1>4. Cardinality(PbufsOf(D) \cup PbufsOf(E))
        = Cardinality(PbufsOf(D)) + Cardinality(PbufsOf(E)) - Cardinality(PbufsOf(D) \cap PbufsOf(E))
  BY <1>3, FS_Union
<1>5. Cardinality(PbufsOf(D) \cap PbufsOf(E)) = 0
  BY <1>2, FS_EmptySet
<1>6. PbufsIn(D \cup E) = PbufsIn(D) + PbufsIn(E) - 0
  BY <1>1, <1>4, <1>5 DEF PbufsIn
<1> PICK m \in Nat, n \in Nat : m = PbufsIn(D) /\ n = PbufsIn(E)
  BY <1>3
<1>7. m + n - 0 = m + n
  OBVIOUS
<1> QED  BY <1>6, <1>7

(* One datagram more.                                                         *)
LEMMA PbufsAdd ==
  ASSUME NEW D, IsFiniteSet(D), D \subseteq Datagrams, NEW d \in Datagrams,
         \A e \in D : e.id # d.id
  PROVE  /\ PbufsIn(D \cup {d}) = PbufsIn(D) + Len(d.p)
         /\ IsFiniteSet(D \cup {d}) /\ Cardinality(D \cup {d}) = Cardinality(D) + 1
         /\ PbufsIn(D) \in Nat /\ Len(d.p) \in Nat /\ Cardinality(D) \in Nat
<1>1. IsFiniteSet({d}) /\ {d} \subseteq Datagrams /\ \A e \in D, g \in {d} : e.id # g.id
  BY FS_Singleton
<1>2. PbufsIn(D \cup {d}) = PbufsIn(D) + PbufsIn({d})
  BY <1>1, PbufsSplit
<1> QED  BY <1>2, PbufsOne, PbufsFinite, FS_AddElement, FS_CardinalityType

(* One datagram less.                                                         *)
LEMMA PbufsLess ==
  ASSUME NEW D, IsFiniteSet(D), D \subseteq Datagrams, NEW d \in D,
         \A e \in D : e.id = d.id => e = d
  PROVE  /\ PbufsIn(D \ {d}) = PbufsIn(D) - Len(d.p) /\ Len(d.p) <= PbufsIn(D)
         /\ IsFiniteSet(D \ {d}) /\ Cardinality(D \ {d}) = Cardinality(D) - 1
         /\ PbufsIn(D) \in Nat /\ PbufsIn(D \ {d}) \in Nat /\ Len(d.p) \in Nat
         /\ Cardinality(D) \in Nat /\ Cardinality(D \ {d}) \in Nat
<1> DEFINE E == D \ {d}
<1>1. IsFiniteSet(E) /\ E \subseteq Datagrams /\ d \in Datagrams /\ \A e \in E : e.id # d.id
  BY FS_RemoveElement
<1>2. D = E \cup {d}
  OBVIOUS
<1> HIDE DEF E
<1>3. /\ PbufsIn(E \cup {d}) = PbufsIn(E) + Len(d.p) /\ Cardinality(E \cup {d}) = Cardinality(E) + 1
      /\ PbufsIn(E) \in Nat /\ Len(d.p) \in Nat /\ Cardinality(E) \in Nat
  BY <1>1, PbufsAdd
<1> PICK m \in Nat, n \in Nat, c \in Nat :
      m = PbufsIn(E) /\ n = Len(d.p) /\ c = Cardinality(E)
  BY <1>3
<1>4. PbufsIn(D) = m + n /\ Cardinality(D) = c + 1
  BY <1>2, <1>3
<1>5. (m + n) - n = m /\ n <= m + n /\ (c + 1) - 1 = c /\ m + n \in Nat /\ c + 1 \in Nat
  OBVIOUS
<1> QED  BY <1>1, <1>4, <1>5 DEF E

-----------------------------------------------------------------------------
(* Selected keeps the order *)

(* c has the n elements of l at the places S, the k-th of them at f[k].        *)
Picks(l, S, c, n, f) ==
  /\ IsFiniteSet(S) /\ n = Cardinality(S)
  /\ Len(c) = n /\ DOMAIN c = 1..n
  /\ \A k \in 1..n : c[k] = l[f[k]]
  /\ \A j, k \in 1..n : j < k => f[j] < f[k]
  /\ \A i \in S : \E k \in 1..n : f[k] = i

LEMMA SelectedProperties ==
  ASSUME NEW X, NEW l \in Seq(X), NEW S, S \subseteq DOMAIN l
  PROVE  LET c == Selected(l, S)
         IN  /\ c \in Seq(X)
             /\ \E n \in Nat : \E f \in [1..n -> S] : Picks(l, S, c, n, f)
<1> DEFINE To(i) == {j \in S : j <= i}
           rank == [i \in S |-> Cardinality(To(i))]
           c == Selected(l, S)
<1>1. IsFiniteSet(S) /\ Cardinality(S) \in Nat /\ S \subseteq Nat
  <2> PICK m \in Nat : m = Len(l)
    BY LenProperties
  <2>1. S \subseteq 1..m
    BY LenProperties
  <2>2. IsFiniteSet(S)
    BY <2>1, UpToSize, FS_Subset
  <2> QED  BY <2>1, <2>2, FS_CardinalityType
<1> PICK n \in Nat : n = Cardinality(S)
  BY <1>1
<1>2. \A i \in S : To(i) \in SUBSET S /\ IsFiniteSet(To(i)) /\ Cardinality(To(i)) \in 1..n
  <2> SUFFICES ASSUME NEW i \in S
               PROVE  To(i) \in SUBSET S /\ IsFiniteSet(To(i)) /\ Cardinality(To(i)) \in 1..n
    OBVIOUS
  <2>1. To(i) \in SUBSET S /\ i \in To(i)
    BY <1>1
  <2> HIDE DEF To
  <2>2. IsFiniteSet(To(i)) /\ Cardinality(To(i)) <= Cardinality(S) /\ Cardinality(To(i)) \in Nat
    BY <1>1, <2>1, FS_Subset, FS_CardinalityType
  <2>3. Cardinality(To(i)) # 0
    BY <2>1, <2>2, FS_EmptySet
  <2> QED  BY <2>1, <2>2, <2>3
<1>3. \A i, j \in S : i < j => rank[i] < rank[j]
  <2> SUFFICES ASSUME NEW i \in S, NEW j \in S, i < j PROVE Cardinality(To(i)) < Cardinality(To(j))
    OBVIOUS
  <2>1. To(i) \in SUBSET To(j) /\ j \in To(j) /\ j \notin To(i)
    BY <1>1
  <2>2. IsFiniteSet(To(j)) /\ Cardinality(To(i)) \in 1..n /\ Cardinality(To(j)) \in 1..n
    BY <1>2
  <2> HIDE DEF To
  <2>3. Cardinality(To(i)) <= Cardinality(To(j)) /\ (Cardinality(To(j)) = Cardinality(To(i)) => To(j) = To(i))
    BY <2>1, <2>2, FS_Subset
  <2> QED  BY <2>1, <2>2, <2>3
<1>4. rank \in [S -> 1..n]
  BY <1>2
<1>5. \A i, j \in S : rank[i] = rank[j] => i = j
  <2> SUFFICES ASSUME NEW i \in S, NEW j \in S, rank[i] = rank[j], i # j PROVE FALSE
    OBVIOUS
  <2> HIDE DEF rank
  <2>1. rank[i] \in 1..n /\ rank[j] \in 1..n /\ (i < j \/ j < i)
    BY <1>1, <1>4
  <2> QED  BY <1>3, <2>1
<1> HIDE DEF rank
<1>6. rank \in Surjection(S, 1..n)
  <2>1. rank \in Injection(S, 1..n)
    BY <1>4, <1>5 DEF Injection, IsInjective
  <2>2. IsFiniteSet(1..n) /\ Cardinality(1..n) = n
    BY UpToSize
  <2> DEFINE N == 1..n
  <2> HIDE DEF N
  <2>3. Cardinality(S) = Cardinality(N) <=> rank \in Surjection(S, N)
    BY <2>1, <2>2, FS_Injection DEF N
  <2> QED  BY <2>2, <2>3 DEF N
<1> DEFINE nth(k) == CHOOSE i \in S : Cardinality(To(i)) = k
           f == [k \in 1..n |-> nth(k)]
<1>7. \A k \in 1..n : nth(k) \in S /\ rank[nth(k)] = k
  <2> SUFFICES ASSUME NEW k \in 1..n PROVE nth(k) \in S /\ rank[nth(k)] = k
    OBVIOUS
  <2>1. \E i \in S : rank[i] = k
    BY <1>6 DEF Surjection
  <2>2. \A i \in S : rank[i] = Cardinality(To(i))
    BY DEF rank
  <2> HIDE DEF To
  <2> QED  BY <2>1, <2>2
<1>8. c = [k \in 1..n |-> l[nth(k)]]
  BY DEF Selected
<1> HIDE DEF nth, To
<1>9. f \in [1..n -> S] /\ \A k \in 1..n : f[k] = nth(k)
  BY <1>7
<1>10. c = [k \in 1..n |-> l[f[k]]]
  BY <1>8, <1>9
<1> HIDE DEF f, c
<1>11. \A k \in 1..n : f[k] \in S /\ rank[f[k]] = k
  BY <1>7, <1>9
<1>12. c \in Seq(X) /\ Len(c) = n /\ DOMAIN c = 1..n
  <2>1. \A k \in 1..n : l[f[k]] \in X
    BY <1>11, LenProperties
  <2>2. c \in [1..n -> X]
    BY <1>10, <2>1
  <2> QED  BY <2>2
<1>13. \A j, k \in 1..n : j < k => f[j] < f[k]
  <2> SUFFICES ASSUME NEW j \in 1..n, NEW k \in 1..n, j < k, ~(f[j] < f[k]) PROVE FALSE
    OBVIOUS
  <2>1. f[j] \in S /\ f[k] \in S /\ rank[f[j]] = j /\ rank[f[k]] = k
    BY <1>11
  <2>2. f[k] < f[j] \/ f[k] = f[j]
    BY <1>1, <2>1
  <2>3. rank[f[k]] < rank[f[j]] \/ rank[f[k]] = rank[f[j]]
    BY <1>3, <2>1, <2>2
  <2> QED  BY <2>1, <2>3
<1>14. \A i \in S : \E k \in 1..n : f[k] = i
  BY <1>4, <1>5, <1>11
<1>15. Picks(l, S, c, n, f)
  BY <1>1, <1>9, <1>10, <1>12, <1>13, <1>14 DEF Picks
<1> QED  BY <1>9, <1>12, <1>15 DEF c

-----------------------------------------------------------------------------
(* The oldest datagram *)

LEMMA LeastIn ==
  ASSUME NEW S, S \subseteq Nat, S # {}
  PROVE  \E x \in S : \A y \in S : x <= y
<1> DEFINE R == OpToRel(<, Nat)
<1>1. IsWellFoundedOn(R, Nat)
  BY NatLessThanWellFounded
<1>2. PICK x \in S : \A y \in S : <<y, x>> \notin R
  <2> HIDE DEF R
  <2> QED  BY <1>1, WFMin
<1>3. \A y \in S : x <= y
  <2> SUFFICES ASSUME NEW y \in S, ~(x <= y) PROVE FALSE
    OBVIOUS
  <2> HIDE DEF R
  <2>1. x \in Nat /\ y \in Nat /\ y < x
    OBVIOUS
  <2> USE DEF R
  <2>2. <<y, x>> \in R
    BY <2>1 DEF OpToRel
  <2> QED  BY <2>2, <1>2
<1> QED  BY <1>3

(* As the newest come first, it is the last one of those it is sought among.  *)
LEMMA OldestIsLast ==
  ASSUME NEW l, ListSound(l), NEW S, S \subseteq DOMAIN l, S # {}
  PROVE  Oldest(l, S) \in S /\ \A j \in S : j <= Oldest(l, S)
<1> PICK n \in Nat : n = Len(l)
  BY Different
<1>1. S \subseteq 1..n
  BY Different
<1> DEFINE G == {n - i : i \in S}
<1>2. G \subseteq Nat /\ G # {}
  BY <1>1
<1>3. PICK x \in G : \A y \in G : x <= y
  <2> HIDE DEF G
  <2> QED  BY <1>2, LeastIn
<1>4. PICK m \in S : \A j \in S : j <= m
  <2>1. PICK m \in S : x = n - m
    OBVIOUS
  <2>2. \A j \in S : n - m <= n - j
    BY <1>3, <2>1
  <2> QED  BY <1>1, <2>2
<1>5. \A i, j \in S : i < j => l[j].timer <= l[i].timer
  BY DEF ListSound
<1>6. \A i \in S : l[i].timer \in Nat /\ i \in Nat
  <2> SUFFICES ASSUME NEW i \in S PROVE l[i].timer \in Nat
    BY <1>1
  <2>1. l[i] \in Datagrams
    BY ElementOfSeq, Different
  <2> QED  BY <2>1, ReassAssumption DEF Datagrams
<1>7. \A j \in S : /\ l[m].timer <= l[j].timer
                   /\ l[m].timer = l[j].timer => j <= m
  <2> SUFFICES ASSUME NEW j \in S
               PROVE  l[m].timer <= l[j].timer /\ (l[m].timer = l[j].timer => j <= m)
    OBVIOUS
  <2>1. j <= m
    BY <1>4
  <2> QED  BY <1>5, <1>6, <2>1
<1>8. \E i \in S : \A j \in S : /\ l[i].timer <= l[j].timer
                                /\ l[i].timer = l[j].timer => j <= i
  BY <1>7
<1> PICK o \in S : /\ o = Oldest(l, S)
                   /\ \A j \in S : l[o].timer <= l[j].timer /\ (l[o].timer = l[j].timer => j <= o)
  BY <1>8 DEF Oldest
<1>9. \A j \in S : j <= o
  <2> SUFFICES ASSUME NEW j \in S, ~(j <= o) PROVE FALSE
    OBVIOUS
  <2>1. o < j
    BY <1>6
  <2>2. l[j].timer <= l[o].timer /\ l[o].timer <= l[j].timer /\ (l[o].timer = l[j].timer => j <= o)
    BY <1>5, <2>1
  <2> QED  BY <1>6, <2>2
<1> QED  BY <1>9

-----------------------------------------------------------------------------
(* Room is made *)

LEMMA RemoveOldestKeeps ==
  ASSUME NEW id, NEW r, RecordSound(r, {id}), ~r.event.dangling
  PROVE  LET s == RemoveOldest(r, id)
         IN  /\ RecordSound(s, {id}) /\ Evicted(r.list, s.list, id)
             /\ s.count <= r.count /\ s.event.whole = r.event.whole
             /\ s.event.dangling => s.blocks > 0
             /\ s # r => s.blocks > 0
<1> DEFINE S == Others(r.list, id)
           i == Oldest(r.list, S)
           s == RemoveOldest(r, id)
<1>1. CASE S = {}
  <2>1. s = r
    BY <1>1 DEF RemoveOldest
  <2>2. r.count \in Nat
    BY DEF RecordSound, ReassType
  <2> QED  BY <2>1, <2>2 DEF Evicted
<1>2. CASE S # {}
  <2>0. /\ r \in ReassType /\ ListSound(r.list) /\ r.list \in Seq(Datagrams)
        /\ r.blocks \in Nat /\ r.count \in Nat /\ r.event \in EventType
        /\ Accounted(r, ToSet(r.list))
        /\ \A k \in DOMAIN r.list : r.list[k].p = <<>> => r.list[k].id = id
    BY DEF RecordSound, ReassType
  <2>1. /\ i \in DOMAIN r.list /\ r.list[i].id # id
        /\ \A j \in DOMAIN r.list : i < j => r.list[j].id = id
    <3>1. S \subseteq DOMAIN r.list /\ \A j \in DOMAIN r.list : j \in S <=> r.list[j].id # id
      BY DEF Others
    <3>2. i \in S /\ \A j \in S : j <= i
      BY <1>2, <2>0, <3>1, OldestIsLast
    <3>3. DOMAIN r.list \subseteq Nat
      BY <2>0
    <3> HIDE DEF i, S
    <3> QED  BY <3>1, <3>2, <3>3
  <2>2. s = FreeComplete(r, i)
    BY <1>2 DEF RemoveOldest
  <2> HIDE DEF i, S, s
  <2> DEFINE d == r.list[i]
             prev == Len(r.list) - 1
             kept == i > 1 /\ prev = i
             rest == IF kept THEN r.list ELSE RemoveAt(r.list, i)
             ev == [r.event EXCEPT !.dangling = kept]
  <2>3. s = [r EXCEPT !.list = rest, !.blocks = @ + 1, !.count = @ - Len(d.p), !.event = ev]
    BY <2>2, <2>0 DEF FreeComplete, ReassType
  <2>4. /\ ListSound(RemoveAt(r.list, i)) /\ ToSet(RemoveAt(r.list, i)) = ToSet(r.list) \ {d}
    BY <2>0, <2>1, ListRemove
  <2>5. /\ d \in ToSet(r.list) /\ ToSet(r.list) \subseteq Datagrams /\ IsFiniteSet(ToSet(r.list))
        /\ \A e \in ToSet(r.list) : e.id = d.id => e = d
    <3>1. d \in ToSet(r.list)
      BY <2>1 DEF ToSet
    <3> QED  BY <2>0, <3>1, Different
  <2> DEFINE T == ToSet(r.list)
             D == T \ {d}
  <2>6. /\ PbufsIn(D) = PbufsIn(T) - Len(d.p) /\ PbufsIn(D) \in Nat /\ Len(d.p) \in Nat
        /\ Cardinality(D) = Cardinality(T) - 1 /\ Cardinality(T) \in Nat
    BY <2>5, PbufsLess
  <2>7. rest \in Seq(Datagrams) /\ ListSound(rest)
    BY <2>0, <2>4 DEF ListSound
  <2>8. ev \in EventType /\ ev.dangling = kept /\ ev.whole = r.event.whole
    <3> DEFINE z == kept
    <3>1. z \in BOOLEAN
      OBVIOUS
    <3>2. ev = [r.event EXCEPT !.dangling = z]
      OBVIOUS
    <3> HIDE DEF z
    <3>3. [r.event EXCEPT !.dangling = z] \in EventType
          /\ [r.event EXCEPT !.dangling = z].dangling = z
          /\ [r.event EXCEPT !.dangling = z].whole = r.event.whole
      BY <2>0, <3>1 DEF EventType
    <3> QED  BY <3>2, <3>3 DEF z
  <2>9. rest = r.list \/ rest = RemoveAt(r.list, i)
    OBVIOUS
  <2>10. D \in SUBSET ToSet(rest) /\ (~kept => D = ToSet(rest))
    BY <2>4
  <2> DEFINE count == r.count - Len(d.p)
  <2>11. count = PbufsIn(D) /\ count \in Nat /\ count <= r.count
         /\ r.blocks + 1 + Cardinality(D) = MEMP_NUM_REASSDATA /\ r.blocks + 1 \in Nat
         /\ r.blocks + 1 > 0
    <3> PICK m \in Nat, n \in Nat : m = r.blocks /\ n = r.count
      BY <2>0
    <3> PICK c \in Nat, k \in Nat : c = Cardinality(T) /\ k = Len(d.p)
      BY <2>6
    <3>1. m + c = MEMP_NUM_REASSDATA /\ n = PbufsIn(T)
      BY <2>0 DEF Accounted
    <3>2. n - k \in Nat /\ PbufsIn(D) = n - k /\ Cardinality(D) = c - 1
      BY <2>6, <3>1
    <3>3. n - k <= n /\ m + 1 + (c - 1) = m + c /\ m + 1 \in Nat /\ m + 1 > 0
      BY SMTT(30)
    <3> QED  BY <3>1, <3>2, <3>3
  <2> HIDE DEF rest, ev, kept, D, count
  <2>12. s = [r EXCEPT !.list = rest, !.blocks = @ + 1, !.count = count, !.event = ev]
    BY <2>3 DEF count
  <2>13. /\ s \in ReassType /\ s.list = rest /\ s.blocks = r.blocks + 1 /\ s.count = count
         /\ s.event = ev
    BY <2>0, <2>7, <2>8, <2>11, <2>12 DEF ReassType
  <2>14. \A k \in DOMAIN rest : rest[k].p = <<>> => rest[k].id \in {id}
    <3>1. ToSet(rest) \subseteq ToSet(r.list)
      BY <2>4, <2>9
    <3>2. \A e \in ToSet(r.list) : e.p = <<>> => e.id = id
      BY <2>0 DEF ToSet
    <3> QED  BY <3>1, <3>2 DEF ToSet
  <2>15. \A e \in ToSet(rest) : e.id \in {id} => e \in D
    <3>1. ToSet(rest) \subseteq ToSet(r.list)
      BY <2>4, <2>9
    <3> QED  BY <2>1, <3>1 DEF D
  <2>16. RecordSound(s, {id})
    <3>1. Accounted(s, D)
      BY <2>11, <2>13 DEF Accounted
    <3>2. ~s.event.dangling => D = ToSet(s.list)
      BY <2>8, <2>10, <2>13
    <3> QED  BY <2>7, <2>10, <2>13, <2>14, <2>15, <3>1, <3>2 DEF RecordSound
  <2>17. Evicted(r.list, s.list, id)
    BY <2>1, <2>9, <2>13 DEF Evicted
  <2> QED  BY <2>8, <2>11, <2>13, <2>16, <2>17 DEF s
<1> QED  BY <1>1, <1>2

LEMMA EvictedKeepsSet ==
  ASSUME NEW id, NEW l, ListSound(l), NEW m, Evicted(l, m, id)
  PROVE  /\ ToSet(m) \subseteq ToSet(l)
         /\ \A d \in ToSet(l) : d.id = id => d \in ToSet(m)
         /\ NonEmpty(l) => NonEmpty(m)
         /\ \A i, j \in DOMAIN l : i < j /\ l[i] \notin ToSet(m) => l[j].id = id
<1>1. CASE m = l
  BY <1>1 DEF ToSet
<1>2. CASE \E i \in DOMAIN l : /\ l[i].id # id /\ m = RemoveAt(l, i)
                              /\ \A j \in DOMAIN l : i < j => l[j].id = id
  <2> PICK i \in DOMAIN l : /\ l[i].id # id /\ m = RemoveAt(l, i)
                            /\ \A j \in DOMAIN l : i < j => l[j].id = id
    BY <1>2
  <2>1. ToSet(m) = ToSet(l) \ {l[i]}
    BY ListRemove
  <2>2. NonEmpty(l) => NonEmpty(m)
    <3>1. NonEmpty(l) => \A d \in ToSet(l) : d.p # <<>>
      BY DEF NonEmpty, ToSet
    <3>2. \A k \in DOMAIN m : m[k] \in ToSet(m)
      BY DEF ToSet
    <3> QED  BY <2>1, <3>1, <3>2 DEF NonEmpty
  <2>3. \A k \in DOMAIN l : l[k] \in ToSet(l)
    BY DEF ToSet
  <2>4. \A k \in DOMAIN l : l[k] \notin ToSet(m) => k = i
    BY <2>1, <2>3, Different
  <2> QED  BY <2>1, <2>2, <2>3, <2>4
<1> QED  BY <1>1, <1>2 DEF Evicted

(* From r to s the datagram id was begun, if need be in place of another, or   *)
(* there was no block for it.                                                 *)
Begun(r, s, id) ==
  \E m : /\ Evicted(r.list, m, id) /\ (r.blocks > 0 => m = r.list)
         /\ \/ s.list = m
            \/ ToSet(m) \subseteq ToSet(s.list) /\ \E d \in ToSet(s.list) : d.id = id

(* A new datagram comes first, if a block can be had.                         *)
LEMMA EnqueueNewKeeps ==
  ASSUME NEW id \in IpIds, NEW r, RecordSound(r, {id}), r.event.dangling => r.blocks > 0,
         \A d \in ToSet(r.list) : d.id # id
  PROVE  LET s == EnqueueNew(r, id)
         IN  /\ RecordSound(s, {id}) /\ s.count <= r.count /\ s.event.whole = r.event.whole
             /\ Begun(r, s, id)
<1> DEFINE t == IF r.blocks = 0 THEN RemoveOldest(r, id) ELSE r
           s == EnqueueNew(r, id)
<1>0. r.blocks \in Nat /\ r.count \in Nat /\ ListSound(r.list)
  BY DEF RecordSound, ReassType
<1>1. /\ RecordSound(t, {id}) /\ t.count <= r.count /\ t.event.whole = r.event.whole
      /\ Evicted(r.list, t.list, id) /\ (r.blocks > 0 => t.list = r.list)
  <2>1. CASE r.blocks = 0
    <3>1. ~r.event.dangling
      BY <2>1 DEF RecordSound, ReassType, EventType
    <3> QED  BY <2>1, <3>1, RemoveOldestKeeps
  <2>2. CASE r.blocks # 0
    BY <1>0, <2>2 DEF Evicted
  <2> QED  BY <2>1, <2>2
<1>2. s = IF t.blocks = 0 THEN t
          ELSE [t EXCEPT !.list = <<[id |-> id, p |-> <<>>, last |-> FALSE,
                                     timer |-> IP_REASS_MAXAGE]>> \o @,
                         !.blocks = @ - 1]
  BY DEF EnqueueNew
<1> HIDE DEF t, s
<1>3. CASE t.blocks = 0
  BY <1>1, <1>2, <1>3 DEF s, Begun
<1>4. CASE t.blocks # 0
  <2> DEFINE d == [id |-> id, p |-> <<>>, last |-> FALSE, timer |-> IP_REASS_MAXAGE]
             l == <<d>> \o t.list
  <2>0. /\ t \in ReassType /\ ListSound(t.list) /\ t.blocks \in Nat \ {0} /\ t.count \in Nat
        /\ \A k \in DOMAIN t.list : t.list[k].p = <<>> => t.list[k].id \in {id}
    BY <1>1, <1>4 DEF RecordSound, ReassType
  <2>1. s = [t EXCEPT !.list = l, !.blocks = @ - 1]
    BY <1>2, <1>4, <2>0 DEF ReassType
  <2>2. d \in Datagrams /\ d.timer = IP_REASS_MAXAGE /\ d.id = id /\ d.p = <<>>
    <3>1. /\ IP_REASS_MAXAGE \in 0..IP_REASS_MAXAGE
          /\ <<>> \in Seq(FragmentSet) /\ DOMAIN <<>> = {}
      BY ReassAssumption
    <3> QED  BY <3>1 DEF Datagrams
  <2>3. \A e \in ToSet(t.list) : e.id # id
    BY <1>0, <1>1, EvictedKeepsSet
  <2> HIDE DEF d
  <2>4. /\ ListSound(l) /\ ToSet(l) = ToSet(t.list) \cup {d} /\ Len(l) = Len(t.list) + 1
    BY <2>0, <2>2, <2>3, ListPush
  <2>5. l \in Seq(Datagrams) /\ t.blocks - 1 \in Nat
    BY <2>0, <2>4 DEF ListSound
  <2> HIDE DEF l
  <2>6. /\ s \in ReassType /\ s.list = l /\ s.blocks = t.blocks - 1 /\ s.count = t.count
        /\ s.event = t.event
    BY <2>0, <2>1, <2>5 DEF ReassType
  <2>7. \A k \in DOMAIN l : l[k].p = <<>> => l[k].id \in {id}
    <3>1. \A e \in ToSet(t.list) : e.p = <<>> => e.id \in {id}
      BY <2>0 DEF ToSet
    <3>2. \A k \in DOMAIN l : l[k] \in ToSet(l)
      BY DEF ToSet
    <3> QED  BY <2>2, <2>4, <3>1, <3>2
  <2>8. PICK D \in SUBSET ToSet(t.list) :
          /\ Accounted(t, D)
          /\ ~t.event.dangling => D = ToSet(t.list)
    BY <1>1 DEF RecordSound
  <2> DEFINE E == D \cup {d}
  <2>9. Accounted(s, E)
    <3>1. IsFiniteSet(D) /\ D \subseteq Datagrams
      BY <2>0, Different, FS_Subset
    <3>2. \A e \in D : e.id # d.id
      BY <2>2, <2>3
    <3>3. PbufsIn(E) = PbufsIn(D) + Len(d.p) /\ Cardinality(E) = Cardinality(D) + 1
          /\ PbufsIn(D) \in Nat /\ Cardinality(D) \in Nat
      BY <2>2, <3>1, <3>2, PbufsAdd
    <3>4. Len(d.p) = 0
      BY <2>2
    <3> PICK c \in Nat, n \in Nat, b \in Nat : c = Cardinality(D) /\ n = PbufsIn(D) /\ b = t.blocks
      BY <2>0, <3>3
    <3>5. b - 1 + (c + 1) = b + c /\ n + 0 = n
      OBVIOUS
    <3> HIDE DEF E
    <3> QED  BY <2>6, <2>8, <3>3, <3>4, <3>5 DEF Accounted
  <2>10. RecordSound(s, {id})
    <3>1. ~s.event.dangling => E = ToSet(s.list)
      BY <2>4, <2>6, <2>8
    <3>2. \A e \in ToSet(s.list) : e.id \in {id} => e \in E
      BY <2>3, <2>4, <2>6
    <3>3. E \in SUBSET ToSet(s.list)
      BY <2>4, <2>6
    <3> HIDE DEF E
    <3> QED  BY <2>4, <2>6, <2>7, <2>9, <3>1, <3>2, <3>3 DEF RecordSound
  <2>11. ToSet(t.list) \subseteq ToSet(s.list) /\ d \in ToSet(s.list) /\ d.id = id
    BY <2>2, <2>4, <2>6
  <2> QED  BY <1>1, <2>6, <2>10, <2>11 DEF s, Begun
<1> QED  BY <1>3, <1>4

-----------------------------------------------------------------------------
(* A fragment joins its datagram *)

LEMMA InsertAtProperties ==
  ASSUME NEW X, NEW l \in Seq(X), NEW n \in 0..Len(l), NEW e \in X
  PROVE  LET c == InsertAt(l, n + 1, e)
         IN  c \in Seq(X) /\ Len(c) = Len(l) + 1 /\ ToSet(c) = ToSet(l) \cup {e}
<1> DEFINE a == SubSeq(l, 1, n)
           m == <<e>>
           b == SubSeq(l, n + 1, Len(l))
           c == InsertAt(l, n + 1, e)
<1> PICK len \in Nat : len = Len(l)
  BY LenProperties
<1>0. n \in 0..len /\ DOMAIN l = 1..len
  BY LenProperties
<1>1. a \in Seq(X) /\ Len(a) = n /\ \A k \in 1..n : a[k] = l[k]
  <2>1. \A k \in 1..n : l[k] \in X
    BY <1>0, ElementOfSeq
  <2>2. /\ a \in Seq(X) /\ Len(a) = (IF 1 <= n THEN n - 1 + 1 ELSE 0)
        /\ \A k \in 1..(n - 1 + 1) : a[k] = l[1 + k - 1]
    BY <1>0, <2>1, SubSeqProperties
  <2> HIDE DEF a
  <2> QED  BY <1>0, <2>2
<1>2. b \in Seq(X) /\ Len(b) = len - n /\ \A k \in 1..(len - n) : b[k] = l[n + k]
  <2>1. \A k \in (n + 1)..len : l[k] \in X
    BY <1>0, ElementOfSeq
  <2>2. /\ b \in Seq(X) /\ Len(b) = (IF n + 1 <= len THEN len - (n + 1) + 1 ELSE 0)
        /\ \A k \in 1..(len - (n + 1) + 1) : b[k] = l[(n + 1) + k - 1]
    BY <1>0, <2>1, SubSeqProperties
  <2> HIDE DEF b
  <2>3. len - (n + 1) + 1 = len - n
    BY <1>0
  <2>4. \A k \in 1..(len - n) : (n + 1) + k - 1 = n + k
    BY <1>0
  <2>5. Len(b) = len - n
    BY <1>0, <2>2
  <2> QED  BY <2>2, <2>3, <2>4, <2>5
<1>3. m \in Seq(X) /\ Len(m) = 1 /\ m[1] = e
  OBVIOUS
<1>4. c = (a \o m) \o b
  <2>1. (n + 1) - 1 = n
    BY <1>0
  <2> QED  BY <2>1 DEF InsertAt
<1> HIDE DEF a, b, m, c
<1> DEFINE h == a \o m
<1>5. h \in Seq(X) /\ Len(h) = n + 1 /\ \A k \in 1..(n + 1) : h[k] = IF k <= n THEN a[k] ELSE m[k - n]
  <2>1. /\ h \in Seq(X) /\ Len(h) = Len(a) + Len(m)
        /\ \A k \in 1..(Len(a) + Len(m)) : h[k] = IF k <= Len(a) THEN a[k] ELSE m[k - Len(a)]
    BY <1>1, <1>3, ConcatProperties
  <2> HIDE DEF h
  <2> QED  BY <1>1, <1>3, <2>1
<1> HIDE DEF h
<1>6. /\ c \in Seq(X) /\ Len(c) = (n + 1) + (len - n)
      /\ \A k \in 1..((n + 1) + (len - n)) : c[k] = IF k <= n + 1 THEN h[k] ELSE b[k - (n + 1)]
  <2>1. /\ h \o b \in Seq(X) /\ Len(h \o b) = Len(h) + Len(b)
        /\ \A k \in 1..(Len(h) + Len(b)) : (h \o b)[k] = IF k <= Len(h) THEN h[k] ELSE b[k - Len(h)]
    BY <1>2, <1>5, ConcatProperties
  <2>2. c = h \o b
    BY <1>4 DEF h
  <2> QED  BY <1>2, <1>5, <2>1, <2>2
<1>7. (n + 1) + (len - n) = len + 1
  BY <1>0
<1>8. DOMAIN c = 1..(len + 1) /\ Len(c) = len + 1
  BY <1>6, <1>7, LenProperties
<1>9. ASSUME NEW k \in 1..(len + 1)
      PROVE  c[k] = IF k <= n THEN l[k] ELSE IF k = n + 1 THEN e ELSE l[k - 1]
  <2>0. c[k] = IF k <= n + 1 THEN h[k] ELSE b[k - (n + 1)]
    BY <1>6, <1>7
  <2>1. CASE k <= n
    BY <1>0, <1>1, <1>5, <2>0, <2>1
  <2>2. CASE k = n + 1
    <3>1. k - n = 1 /\ ~(k <= n) /\ k \in 1..(n + 1)
      BY <1>0, <2>2
    <3> QED  BY <1>0, <1>3, <1>5, <2>0, <2>2, <3>1
  <2>3. CASE k > n + 1
    <3>1. ~(k <= n + 1) /\ k - (n + 1) \in 1..(len - n) /\ n + (k - (n + 1)) = k - 1 /\ ~(k <= n)
      BY <1>0, <2>3
    <3>2. b[k - (n + 1)] = l[k - 1]
      BY <1>2, <3>1
    <3> QED  BY <2>0, <2>3, <3>1, <3>2
  <2> QED  BY <1>0, <2>1, <2>2, <2>3
<1>10. ASSUME NEW k \in 1..(len + 1) PROVE c[k] \in ToSet(l) \cup {e}
  <2>1. /\ k <= n => k \in 1..len
        /\ ~(k <= n) /\ k # n + 1 => k - 1 \in 1..len
    BY <1>0
  <2> QED  BY <1>0, <1>9, <2>1 DEF ToSet
<1>11. ASSUME NEW k \in 1..len PROVE l[k] \in ToSet(c)
  <2>1. CASE k <= n
    <3>1. k \in 1..(len + 1)
      OBVIOUS
    <3> QED  BY <1>8, <1>9, <2>1, <3>1 DEF ToSet
  <2>2. CASE ~(k <= n)
    <3>1. k + 1 \in 1..(len + 1) /\ ~(k + 1 <= n) /\ k + 1 # n + 1 /\ (k + 1) - 1 = k
      BY <1>0, <2>2
    <3>2. c[k + 1] = l[k]
      BY <1>9, <3>1
    <3> QED  BY <1>8, <3>1, <3>2 DEF ToSet
  <2> QED  BY <2>1, <2>2
<1>12. e \in ToSet(c)
  <2>1. n + 1 \in 1..(len + 1) /\ ~(n + 1 <= n)
    BY <1>0
  <2>2. c[n + 1] = e
    BY <1>9, <2>1
  <2> QED  BY <1>8, <2>1, <2>2 DEF ToSet
<1>13. ToSet(c) = ToSet(l) \cup {e}
  BY <1>0, <1>8, <1>10, <1>11, <1>12 DEF ToSet
<1> QED  BY <1>6, <1>8, <1>13 DEF c

LEMMA PlaceIn ==
  ASSUME NEW p \in Seq(FragmentSet), NEW f \in FragmentSet
  PROVE  Place(p, f) \in 0..Len(p)
<1> PICK n \in Nat : n = Len(p)
  BY LenProperties
<1>1. Before(p, f) \in SUBSET (1..n)
  BY LenProperties DEF Before
<1>2. IsFiniteSet(1..n) /\ Cardinality(1..n) = n
  BY UpToSize
<1> DEFINE N == 1..n
<1> HIDE DEF N
<1>3. IsFiniteSet(Before(p, f)) /\ Cardinality(Before(p, f)) <= n
  BY <1>1, <1>2, FS_Subset DEF N
<1>4. Cardinality(Before(p, f)) \in Nat
  BY <1>3, FS_CardinalityType
<1> QED  BY <1>3, <1>4 DEF Place

(* The first fragment overlaps with none.                                     *)
LEMMA FirstFits ==
  ASSUME NEW f
  PROVE  ~Overlaps(<<>>, f)
<1>1. Before(<<>>, f) = {}
  BY DEF Before
<1>2. Place(<<>>, f) = 0
  BY <1>1, FS_EmptySet DEF Place
<1> QED  BY <1>1, <1>2 DEF Overlaps

(* The i-th datagram gives way to d, which has e pbufs more.                  *)
Replaced(r, i, d, e) == [r EXCEPT !.list[i] = d, !.count = @ + e]

LEMMA ReplaceKeeps ==
  ASSUME NEW r, NEW i \in DOMAIN r.list, RecordSound(r, {r.list[i].id}), NEW d \in Datagrams,
         d.id = r.list[i].id, d.timer = r.list[i].timer, d.p # <<>>, NEW e \in {0, 1},
         Len(d.p) = Len(r.list[i].p) + e
  PROVE  LET s == Replaced(r, i, d, e)
         IN  /\ RecordSound(s, {}) /\ s.count = r.count + e /\ s.event = r.event
             /\ s.list = [r.list EXCEPT ![i] = d]
<1> DEFINE l == r.list
             m == [l EXCEPT ![i] = d]
             s == Replaced(r, i, d, e)
             id == l[i].id
<1>1. /\ r \in ReassType /\ ListSound(l) /\ r.count \in Nat /\ l \in Seq(Datagrams)
      /\ \A k \in DOMAIN l : l[k].p = <<>> => l[k].id = id
  BY DEF RecordSound, ReassType
<1>2. /\ ListSound(m) /\ ToSet(m) = (ToSet(l) \ {l[i]}) \cup {d} /\ DOMAIN m = DOMAIN l
      /\ \A k \in DOMAIN l : m[k] = IF k = i THEN d ELSE l[k]
  BY <1>1, ListReplace
<1>3. m \in Seq(Datagrams) /\ r.count + e \in Nat
  BY <1>1, <1>2 DEF ListSound
<1>4. s = [r EXCEPT !.list = m, !.count = @ + e]
  BY <1>1 DEF Replaced, ReassType
<1>5. l[i] \in ToSet(l) /\ l[i] \in Datagrams
  BY <1>1, ElementOfSeq, LenProperties DEF ToSet
<1>6. \A g \in ToSet(l) : g.id = id => g = l[i]
  BY <1>1, <1>5, Different
<1> HIDE DEF m, s
<1>7. s \in ReassType /\ s.list = m /\ s.count = r.count + e /\ s.blocks = r.blocks /\ s.event = r.event
  BY <1>1, <1>3, <1>4 DEF ReassType
<1>8. \A k \in DOMAIN m : m[k].p # <<>>
  <2>1. \A k \in DOMAIN l : l[k].p = <<>> => k = i
    BY <1>1 DEF ListSound
  <2> QED  BY <1>2, <2>1
<1>9. PICK D \in SUBSET ToSet(l) :
        /\ Accounted(r, D)
        /\ ~r.event.dangling => D = ToSet(l)
        /\ \A g \in ToSet(l) : g.id \in {id} => g \in D
  BY DEF RecordSound
<1> DEFINE C == D \ {l[i]}
           E == C \cup {d}
<1>10. l[i] \in D
  BY <1>5, <1>9
<1>11. IsFiniteSet(D) /\ D \subseteq Datagrams
  BY <1>1, Different, FS_Subset
<1>12. /\ PbufsIn(C) = PbufsIn(D) - Len(l[i].p) /\ IsFiniteSet(C)
       /\ Cardinality(C) = Cardinality(D) - 1
       /\ PbufsIn(D) \in Nat /\ PbufsIn(C) \in Nat /\ Len(l[i].p) \in Nat
       /\ Cardinality(D) \in Nat /\ Cardinality(C) \in Nat
  BY <1>6, <1>10, <1>11, PbufsLess
<1>13. C \subseteq Datagrams /\ \A g \in C : g.id # d.id
  BY <1>6, <1>11
<1> HIDE DEF C
<1>14. /\ PbufsIn(E) = PbufsIn(C) + Len(d.p) /\ Cardinality(E) = Cardinality(C) + 1
  BY <1>12, <1>13, PbufsAdd
<1> HIDE DEF E
<1>15. Accounted(s, E)
  <2> PICK a \in Nat, b \in Nat, c \in Nat :
        a = PbufsIn(D) /\ b = Len(l[i].p) /\ c = Cardinality(D)
    BY <1>12
  <2>1. PbufsIn(E) = a - b + (b + e) /\ Cardinality(E) = c - 1 + 1
    BY <1>12, <1>14
  <2>2. a - b + (b + e) = a + e /\ c - 1 + 1 = c
    OBVIOUS
  <2>3. r.count = a /\ r.blocks + c = MEMP_NUM_REASSDATA
    BY <1>9 DEF Accounted
  <2> QED  BY <1>7, <2>1, <2>2, <2>3 DEF Accounted
<1>16. E \in SUBSET ToSet(m) /\ (~s.event.dangling => E = ToSet(m))
  BY <1>2, <1>7, <1>9 DEF E, C
<1>17. RecordSound(s, {})
  BY <1>2, <1>7, <1>8, <1>15, <1>16 DEF RecordSound
<1> QED  BY <1>7, <1>17 DEF s, m

(* What a fragment does to a datagram: it grows, unless it is passed on.      *)
Grown(l, m) == \A d \in ToSet(l) : \E e \in ToSet(m) : e.id = d.id /\ ToSet(d.p) \subseteq ToSet(e.p)

LEMMA JoinKeeps ==
  ASSUME NEW r, NEW i \in DOMAIN r.list, NEW f \in FragmentSet, r.list[i].id = f.id,
         RecordSound(r, {f.id})
  PROVE  LET s == Join(r, i, f)
         IN  /\ RecordSound(s, {}) /\ s.count <= r.count + 1
             /\ s.event.whole = <<>> => Grown(r.list, s.list)
<1> DEFINE d == Received(r.list[i], f)
           n == Place(d.p, f)
           q == InsertAt(d.p, n + 1, f)
           s == Join(r, i, f)
           l == r.list
<1>1. /\ r \in ReassType /\ ListSound(l) /\ r.count \in Nat /\ r.blocks \in Nat
      /\ l \in Seq(Datagrams) /\ r.event \in EventType
      /\ \A k \in DOMAIN l : l[k].p = <<>> => l[k].id = f.id
  BY DEF RecordSound, ReassType
<1>2. l[i] \in ToSet(l) /\ l[i] \in Datagrams
  BY <1>1, ElementOfSeq, LenProperties DEF ToSet
<1>3. d \in Datagrams /\ d.id = l[i].id /\ d.timer = l[i].timer /\ d.p = l[i].p
  <2> DEFINE b == l[i].last \/ f.end = IpLength
  <2>0. b \in BOOLEAN /\ l[i].last \in BOOLEAN
    BY <1>2 DEF Datagrams
  <2>1. d = [l[i] EXCEPT !.last = b]
    BY <1>2 DEF Received, Datagrams
  <2> HIDE DEF b
  <2> QED  BY <1>2, <2>0, <2>1 DEF Datagrams
<1>4. d.p \in Seq(FragmentSet) /\ n \in 0..Len(d.p) /\ Len(d.p) \in Nat
  BY <1>3, PlaceIn, LenProperties DEF Datagrams
<1>5. q \in Seq(FragmentSet) /\ Len(q) = Len(d.p) + 1 /\ ToSet(q) = ToSet(d.p) \cup {f}
  <2> PICK p \in Seq(FragmentSet) : p = d.p
    BY <1>4
  <2> PICK k \in 0..Len(p) : k = n
    BY <1>4
  <2>1. /\ InsertAt(p, k + 1, f) \in Seq(FragmentSet) /\ Len(InsertAt(p, k + 1, f)) = Len(p) + 1
        /\ ToSet(InsertAt(p, k + 1, f)) = ToSet(p) \cup {f}
    BY InsertAtProperties
  <2> HIDE DEF d, n
  <2> QED  BY <2>1
<1>6. s = CASE Overlaps(d.p, f) -> [r EXCEPT !.list[i] = d]
            [] ~Overlaps(d.p, f) /\ d.last /\ NoHoleSeen(q, n) ->
                 [r EXCEPT !.list = RemoveAt(@, i), !.blocks = @ + 1,
                           !.count = @ - Len(d.p), !.event.whole = q]
            [] OTHER -> [r EXCEPT !.list[i] = [d EXCEPT !.p = q], !.count = @ + 1]
  BY DEF Join
<1>7. q # <<>>
  BY <1>4, <1>5
<1>0. RecordSound(r, {l[i].id}) /\ 0 \in {0, 1} /\ 1 \in {0, 1}
  OBVIOUS
<1> HIDE DEF d, n, q, s
<1>8. CASE Overlaps(d.p, f)
  <2>1. d.p # <<>>
    BY <1>8, FirstFits
  <2>2. Len(d.p) = Len(l[i].p) + 0
    BY <1>3, <1>4
  <2> DEFINE t == Replaced(r, i, d, 0)
  <2>3. /\ RecordSound(t, {}) /\ t.count = r.count + 0 /\ t.event = r.event
        /\ t.list = [l EXCEPT ![i] = d]
    BY <1>0, <1>3, <2>1, <2>2, ReplaceKeeps
  <2>4. s = t
    <3>1. s = [r EXCEPT !.list[i] = d]
      BY <1>6, <1>8
    <3>2. r.count + 0 = r.count
      BY <1>1
    <3> QED  BY <1>1, <3>1, <3>2 DEF Replaced, ReassType
  <2> HIDE DEF t
  <2>5. Grown(l, s.list)
    <3>1. ToSet([l EXCEPT ![i] = d]) = (ToSet(l) \ {l[i]}) \cup {d}
      BY <1>1, <1>3, ListReplace
    <3> QED  BY <1>3, <2>3, <2>4, <3>1 DEF Grown
  <2> QED  BY <1>1, <2>3, <2>4, <2>5 DEF s
<1>9. CASE ~Overlaps(d.p, f) /\ ~(d.last /\ NoHoleSeen(q, n))
  <2> DEFINE g == [d EXCEPT !.p = q]
  <2>1. g \in Datagrams /\ g.id = l[i].id /\ g.timer = l[i].timer /\ g.p = q
    <3>1. \A k \in DOMAIN q : q[k].id = d.id
      <4>1. \A x \in ToSet(d.p) : x.id = d.id
        BY <1>3 DEF Datagrams, ToSet
      <4>2. \A k \in DOMAIN q : q[k] \in ToSet(q)
        BY DEF ToSet
      <4> QED  BY <1>3, <1>5, <4>1, <4>2
    <3> QED  BY <1>3, <1>5, <3>1 DEF Datagrams
  <2> PICK e \in {0, 1} : e = 1
    OBVIOUS
  <2>2. Len(g.p) = Len(l[i].p) + e /\ g.p # <<>>
    BY <1>3, <1>5, <1>7, <2>1
  <2> HIDE DEF g
  <2> DEFINE t == Replaced(r, i, g, e)
  <2>3. /\ RecordSound(t, {}) /\ t.count = r.count + e /\ t.event = r.event
        /\ t.list = [l EXCEPT ![i] = g]
    BY <1>0, <2>1, <2>2, ReplaceKeeps, SMTT(60)
  <2>4. s = t
    BY <1>6, <1>9 DEF g, Replaced
  <2> HIDE DEF t
  <2>5. Grown(l, s.list)
    <3>1. ToSet([l EXCEPT ![i] = g]) = (ToSet(l) \ {l[i]}) \cup {g}
      BY <1>1, <2>1, ListReplace
    <3> QED  BY <1>3, <1>5, <2>1, <2>3, <2>4, <3>1 DEF Grown
  <2> QED  BY <1>1, <2>3, <2>4, <2>5 DEF s
<1>10. CASE ~Overlaps(d.p, f) /\ d.last /\ NoHoleSeen(q, n)
  <2> DEFINE m == RemoveAt(l, i)
             ev == [r.event EXCEPT !.whole = q]
  <2>1. s = [r EXCEPT !.list = m, !.blocks = @ + 1, !.count = @ - Len(d.p), !.event = ev]
    BY <1>1, <1>6, <1>10 DEF ReassType, EventType
  <2>2. ListSound(m) /\ ToSet(m) = ToSet(l) \ {l[i]}
    BY <1>1, ListRemove
  <2>3. ev \in EventType /\ ev.whole = q /\ ev.dangling = r.event.dangling
    BY <1>1, <1>5 DEF EventType
  <2>4. m \in Seq(Datagrams)
    BY <2>2 DEF ListSound
  <2>5. PICK D \in SUBSET ToSet(l) :
          /\ Accounted(r, D)
          /\ ~r.event.dangling => D = ToSet(l)
          /\ \A g \in ToSet(l) : g.id \in {f.id} => g \in D
    BY DEF RecordSound
  <2> DEFINE C == D \ {l[i]}
             count == r.count - Len(d.p)
  <2>6. l[i] \in D
    BY <1>2, <2>5
  <2>7. IsFiniteSet(D) /\ D \subseteq Datagrams
    BY <1>1, Different, FS_Subset
  <2>8. \A g \in ToSet(l) : g.id = f.id => g = l[i]
    BY <1>1, <1>2, Different
  <2>9. /\ PbufsIn(C) = PbufsIn(D) - Len(l[i].p) /\ Cardinality(C) = Cardinality(D) - 1
        /\ PbufsIn(C) \in Nat /\ Cardinality(D) \in Nat
    BY <2>6, <2>7, <2>8, PbufsLess
  <2>10. count = PbufsIn(C) /\ count \in Nat /\ count <= r.count + 1 /\ r.blocks + 1 \in Nat
         /\ r.blocks + 1 + Cardinality(C) = MEMP_NUM_REASSDATA
    <3> PICK c \in Nat, b \in Nat, k \in Nat, o \in Nat :
           c = Cardinality(D) /\ b = r.blocks /\ k = Len(d.p) /\ o = r.count
      BY <1>1, <1>4, <2>9
    <3>1. b + c = MEMP_NUM_REASSDATA /\ o = PbufsIn(D)
      BY <2>5 DEF Accounted
    <3>2. PbufsIn(C) = o - k /\ Cardinality(C) = c - 1 /\ o - k \in Nat
      BY <1>3, <2>9, <3>1
    <3>3. o - k <= o + 1 /\ b + 1 + (c - 1) = b + c /\ b + 1 \in Nat
      OBVIOUS
    <3> HIDE DEF C
    <3> QED  BY <3>1, <3>2, <3>3
  <2> HIDE DEF m, ev, count, C
  <2>11. s = [r EXCEPT !.list = m, !.blocks = @ + 1, !.count = count, !.event = ev]
    BY <2>1 DEF count
  <2>12. /\ s \in ReassType /\ s.list = m /\ s.blocks = r.blocks + 1 /\ s.count = count
         /\ s.event = ev
    BY <1>1, <2>3, <2>4, <2>10, <2>11 DEF ReassType
  <2>13. NonEmpty(m)
    <3>1. \A g \in ToSet(m) : g.p # <<>>
      <4>1. \A g \in ToSet(l) : g.p = <<>> => g.id = f.id
        BY <1>1 DEF ToSet
      <4> QED  BY <2>2, <2>8, <4>1
    <3> QED  BY <3>1 DEF NonEmpty, ToSet
  <2>14. Accounted(s, C)
    BY <2>10, <2>12 DEF Accounted
  <2>15. C \in SUBSET ToSet(s.list) /\ (~s.event.dangling => C = ToSet(s.list))
    BY <2>2, <2>3, <2>5, <2>12 DEF C
  <2>16. RecordSound(s, {})
    BY <2>2, <2>12, <2>13, <2>14, <2>15 DEF RecordSound, NonEmpty
  <2> QED  BY <1>7, <2>3, <2>10, <2>12, <2>16 DEF s
<1> QED  BY <1>8, <1>9, <1>10

-----------------------------------------------------------------------------
(* The handlers *)

LEMMA Settled ==
  ASSUME NEW id, NEW r, RecordSound(r, {id}), NonEmpty(r.list)
  PROVE  RecordSound(r, {})
BY DEF RecordSound, NonEmpty

LEMMA GotKeeps ==
  ASSUME NEW r, RecordSound(r, {}), NEW id \in IpIds
  PROVE  LET s == [r EXCEPT !.event.got = {id}]
         IN  /\ RecordSound(s, {}) /\ s.list = r.list /\ s.count = r.count /\ s.blocks = r.blocks
             /\ s.event.got = {id} /\ s.event.whole = r.event.whole
<1> DEFINE ev == [r.event EXCEPT !.got = {id}]
           s == [r EXCEPT !.event = ev]
<1>1. r \in ReassType /\ ListSound(r.list)
  BY DEF RecordSound
<1>2. ev \in EventType /\ ev.got = {id} /\ ev.whole = r.event.whole /\ ev.dangling = r.event.dangling
  BY <1>1 DEF ReassType, EventType
<1>3. [r EXCEPT !.event.got = {id}] = s
  BY <1>1 DEF ReassType
<1> HIDE DEF ev
<1>4. s \in ReassType /\ s.list = r.list /\ s.count = r.count /\ s.blocks = r.blocks /\ s.event = ev
  BY <1>1, <1>2 DEF ReassType
<1> HIDE DEF s
<1>5. RecordSound(s, {})
  BY <1>2, <1>4 DEF RecordSound, Accounted
<1> QED  BY <1>2, <1>3, <1>4, <1>5

LEMMA NowSettled ==
  ASSUME ReassInv, ~reassevent.dangling, NEW id
  PROVE  /\ RecordSound(Reass, {id}) /\ ~Reass.event.dangling /\ Reass.event.whole = <<>>
         /\ NonEmpty(Reass.list) /\ ListSound(Reass.list)
         /\ Reass.list = reassdatagrams /\ Reass.count = ip_reass_pbufcount
         /\ Reass.count \in Nat /\ Reass.count <= IP_REASS_MAX_PBUFS
<1>1. NoEvent \in EventType /\ ~NoEvent.dangling /\ NoEvent.whole = <<>>
  BY DEF NoEvent, EventType
<1>2. /\ Reass \in ReassType /\ Reass.list = reassdatagrams /\ Reass.count = ip_reass_pbufcount
      /\ Reass.blocks = reassblocks /\ Reass.event = NoEvent /\ Reass.count \in Nat
  BY <1>1 DEF Reass, ReassInv, RecordSound, Now, ReassType
<1>3. /\ ListSound(reassdatagrams) /\ NonEmpty(reassdatagrams)
      /\ Accounted(Now, ToSet(reassdatagrams))
  BY DEF ReassInv, RecordSound, Now, NonEmpty
<1>4. Accounted(Reass, ToSet(reassdatagrams))
  BY <1>2, <1>3 DEF Accounted, Now
<1>5. RecordSound(Reass, {id})
  BY <1>1, <1>2, <1>3, <1>4 DEF RecordSound, NonEmpty
<1> QED  BY <1>1, <1>2, <1>3, <1>5 DEF ReassInv

LEMMA FindIn ==
  ASSUME NEW l, NEW id, \E d \in ToSet(l) : d.id = id
  PROVE  Find(l, id) \in DOMAIN l /\ l[Find(l, id)].id = id
<1>1. \E i \in DOMAIN l : l[i].id = id
  BY DEF ToSet
<1> QED  BY <1>1 DEF Find

(* From l to m a fragment for id may have evicted a datagram and grown its own. *)
Served(l, m, whole, id) ==
  \E k : Evicted(l, k, id) /\ (whole = <<>> => Grown(k, m))

LEMMA IpReassembleKeeps ==
  ASSUME ReassInv, ~reassevent.dangling, NEW f \in FragmentSet, IpReassemble(f)
  PROVE  /\ ReassInv' /\ reassevent'.got = {f.id}
         /\ Served(reassdatagrams, reassdatagrams', reassevent'.whole, f.id)
<1> DEFINE id == f.id
           r1 == IF Reass.count + 1 > IP_REASS_MAX_PBUFS THEN RemoveOldest(Reass, id) ELSE Reass
           known == \E d \in ToSet(r1.list) : d.id = id
           r2 == IF known THEN r1 ELSE EnqueueNew(r1, id)
           fits == r1.count + 1 <= IP_REASS_MAX_PBUFS
           room == \E d \in ToSet(r2.list) : d.id = id
           r3 == CASE ~fits        -> r1
                   [] fits /\ ~room -> r2
                   [] OTHER         -> Join(r2, Find(r2.list, id), f)
           l == reassdatagrams
<1>0. id \in IpIds
  BY DEF FragmentSet
<1>1. /\ RecordSound(Reass, {id}) /\ ~Reass.event.dangling /\ Reass.event.whole = <<>>
      /\ NonEmpty(l) /\ ListSound(l) /\ Reass.list = l
      /\ Reass.count \in Nat /\ Reass.count <= IP_REASS_MAX_PBUFS
  BY NowSettled
<1>2. /\ RecordSound(r1, {id}) /\ Evicted(l, r1.list, id) /\ r1.count <= Reass.count
      /\ r1.event.dangling => r1.blocks > 0
      /\ r1.list # l => r1.blocks > 0
  <2>1. CASE Reass.count + 1 > IP_REASS_MAX_PBUFS
    <3>1. r1 = RemoveOldest(Reass, id)
      BY <2>1
    <3> HIDE DEF r1
    <3> QED  BY <1>1, <3>1, RemoveOldestKeeps
  <2>2. CASE ~(Reass.count + 1 > IP_REASS_MAX_PBUFS)
    <3>1. r1 = Reass
      BY <2>2
    <3> HIDE DEF r1
    <3> QED  BY <1>1, <3>1 DEF Evicted
  <2> QED  BY <2>1, <2>2
<1>3. /\ NonEmpty(r1.list) /\ ListSound(r1.list) /\ r1.count \in Nat
      /\ r1.count <= IP_REASS_MAX_PBUFS
  <2>1. NonEmpty(r1.list) /\ ListSound(r1.list) /\ r1.count \in Nat
    BY <1>1, <1>2, EvictedKeepsSet DEF RecordSound, ReassType
  <2> PICK a \in Nat, b \in Nat : a = r1.count /\ b = Reass.count
    BY <1>1, <2>1
  <2> HIDE DEF r1
  <2> QED  BY <1>1, <1>2, <2>1, ReassAssumption
<1>4. \E m : /\ RecordSound(r2, {id}) /\ r2.count <= r1.count /\ Evicted(l, m, id)
             /\ ToSet(m) \subseteq ToSet(r2.list)
             /\ ~room => r2.list = m
  <2>1. CASE known
    <3>1. r2 = r1 /\ room
      BY <2>1
    <3> HIDE DEF r2, r1
    <3> QED  BY <1>2, <1>3, <2>1, <3>1
  <2>2. CASE ~known
    <3>1. r2 = EnqueueNew(r1, id)
      BY <2>2
    <3> HIDE DEF r2, r1
    <3>0. /\ \A d \in ToSet(r1.list) : d.id # id
          /\ r1.event.dangling => r1.blocks > 0
      BY <1>2, <2>2
    <3> HIDE DEF known, id
    <3>2. RecordSound(r2, {id}) /\ r2.count <= r1.count /\ Begun(r1, r2, id)
      BY <1>0, <1>2, <3>0, <3>1, EnqueueNewKeeps
    <3>3. PICK m : /\ Evicted(r1.list, m, id) /\ (r1.blocks > 0 => m = r1.list)
                   /\ \/ r2.list = m
                      \/ ToSet(m) \subseteq ToSet(r2.list) /\ \E d \in ToSet(r2.list) : d.id = id
      BY <3>2 DEF Begun
    <3>4. Evicted(l, m, id)
      BY <1>2, <3>3
    <3> QED  BY <3>2, <3>3, <3>4 DEF id
  <2> QED  BY <2>1, <2>2
<1>5. PICK m : /\ RecordSound(r2, {id}) /\ r2.count <= r1.count /\ Evicted(l, m, id)
               /\ ToSet(m) \subseteq ToSet(r2.list)
               /\ ~room => r2.list = m
  BY <1>4
<1> HIDE DEF r1, r2
<1>6. /\ RecordSound(r3, {}) /\ r3.count <= IP_REASS_MAX_PBUFS
      /\ Served(l, r3.list, r3.event.whole, id)
  <2>1. CASE ~fits
    <3>1. r3 = r1
      BY <2>1
    <3> HIDE DEF r3
    <3>2. Grown(r1.list, r1.list)
      BY DEF Grown
    <3> QED  BY <1>2, <1>3, <3>1, <3>2, Settled DEF Served
  <2>2. CASE fits /\ ~room
    <3>1. r3 = r2 /\ r2.list = m
      BY <1>5, <2>2
    <3> HIDE DEF r3
    <3>2. Grown(m, m)
      BY DEF Grown
    <3>3. NonEmpty(m)
      BY <1>1, <1>5, EvictedKeepsSet
    <3>4. r2.count <= IP_REASS_MAX_PBUFS
      <4>1. r2.count \in Nat
        BY <1>5 DEF RecordSound, ReassType
      <4> QED  BY <1>3, <1>5, <4>1, ReassAssumption
    <3> QED  BY <1>5, <3>1, <3>2, <3>3, <3>4, Settled DEF Served
  <2>3. CASE fits /\ room
    <3> DEFINE i == Find(r2.list, id)
    <3>1. r3 = Join(r2, i, f)
      BY <2>3
    <3>2. i \in DOMAIN r2.list /\ r2.list[i].id = id
      BY <2>3, FindIn
    <3> HIDE DEF r3, i
    <3>3. /\ RecordSound(r3, {}) /\ r3.count <= r2.count + 1
          /\ r3.event.whole = <<>> => Grown(r2.list, r3.list)
      BY <1>5, <3>1, <3>2, JoinKeeps
    <3>4. r3.count <= IP_REASS_MAX_PBUFS
      <4>1. r2.count \in Nat /\ r3.count \in Nat
        BY <1>5, <3>3 DEF RecordSound, ReassType
      <4> QED  BY <1>3, <1>5, <2>3, <3>3, <4>1, ReassAssumption
    <3>5. Grown(r2.list, r3.list) => Grown(m, r3.list)
      BY <1>5 DEF Grown
    <3> QED  BY <1>5, <3>3, <3>4, <3>5 DEF Served
  <2> QED  BY <2>1, <2>2, <2>3
<1>7. SetReass([r3 EXCEPT !.event.got = {id}])
  BY DEF IpReassemble, r1, r2
<1> HIDE DEF r3
<1> DEFINE s == [r3 EXCEPT !.event.got = {id}]
<1>8. /\ RecordSound(s, {}) /\ s.list = r3.list /\ s.count = r3.count
      /\ s.event.got = {id} /\ s.event.whole = r3.event.whole
  BY <1>0, <1>6, GotKeeps
<1> HIDE DEF s
<1>9. /\ reassdatagrams' = s.list /\ reassblocks' = s.blocks
      /\ ip_reass_pbufcount' = s.count /\ reassevent' = s.event
  BY <1>7 DEF SetReass, s
<1>10. Now' = s
  BY <1>8, <1>9 DEF Now, RecordSound, ReassType
<1> QED  BY <1>6, <1>8, <1>9, <1>10 DEF ReassInv, RecordSound, Accounted, ListSound, ReassType

LEMMA TickedProperties ==
  ASSUME NEW d \in Datagrams, d.timer > 0
  PROVE  LET e == Ticked(d)
         IN  /\ e \in Datagrams /\ e.id = d.id /\ e.p = d.p /\ e.timer = d.timer - 1
<1> PICK t \in Nat : t = d.timer /\ t \in 0..IP_REASS_MAXAGE
  BY ReassAssumption DEF Datagrams
<1>1. t - 1 \in 0..IP_REASS_MAXAGE
  BY ReassAssumption
<1>2. Ticked(d) = [d EXCEPT !.timer = t - 1]
  BY DEF Ticked
<1> DEFINE u == t - 1
<1> HIDE DEF u
<1> QED  BY <1>1, <1>2 DEF Datagrams, u

(* What the timer leaves of a list. *)
Left(l) ==
  LET live == Selected(l, {i \in DOMAIN l : l[i].timer > 0})
  IN  [i \in DOMAIN live |-> Ticked(live[i])]

Dead(l) == {d \in ToSet(l) : d.timer = 0}

LEMMA LeftSound ==
  ASSUME NEW l, ListSound(l), NonEmpty(l)
  PROVE  /\ ListSound(Left(l)) /\ NonEmpty(Left(l))
         /\ PbufsIn(ToSet(Left(l))) + PbufsIn(Dead(l)) = PbufsIn(ToSet(l))
         /\ Cardinality(ToSet(Left(l))) + Cardinality(Dead(l)) = Cardinality(ToSet(l))
         /\ PbufsIn(Dead(l)) \in Nat /\ PbufsIn(ToSet(Left(l))) \in Nat
         /\ Cardinality(Dead(l)) \in Nat /\ Cardinality(ToSet(Left(l))) \in Nat
<1> DEFINE S == {i \in DOMAIN l : l[i].timer > 0}
           live == Selected(l, S)
           m == [i \in DOMAIN live |-> Ticked(live[i])]
           alive == ToSet(l) \ Dead(l)
<1>1. /\ \A j, k \in 1..Len(l) : l[j] = l[k] => j = k
      /\ Len(l) \in Nat /\ DOMAIN l = 1..Len(l) /\ l \in Seq(Datagrams)
      /\ Cardinality(ToSet(l)) = Len(l) /\ IsFiniteSet(ToSet(l)) /\ ToSet(l) \subseteq Datagrams
      /\ \A d, e \in ToSet(l) : d.id = e.id => d = e
  BY Different
<1>2. \A i \in DOMAIN l : l[i] \in Datagrams /\ l[i].timer \in Nat
  <2>1. \A d \in Datagrams : d.timer \in Nat
    BY ReassAssumption DEF Datagrams
  <2> QED  BY <1>1, <2>1, ElementOfSeq
<1>3. S \subseteq DOMAIN l
  OBVIOUS
<1>4. PICK n \in Nat :
        \E f \in [1..n -> S] :
          /\ live \in Seq(Datagrams) /\ Len(live) = n /\ DOMAIN live = 1..n
          /\ \A k \in 1..n : live[k] = l[f[k]]
          /\ \A j, k \in 1..n : j < k => f[j] < f[k]
          /\ \A i \in S : \E k \in 1..n : f[k] = i
  <2> HIDE DEF S
  <2>1. live \in Seq(Datagrams) /\ \E k \in Nat : \E f \in [1..k -> S] : Picks(l, S, live, k, f)
    BY <1>1, <1>3, SelectedProperties
  <2> HIDE DEF live
  <2> QED  BY <2>1 DEF Picks
<1>5. PICK f \in [1..n -> S] :
        /\ live \in Seq(Datagrams) /\ Len(live) = n /\ DOMAIN live = 1..n
        /\ \A k \in 1..n : live[k] = l[f[k]]
        /\ \A j, k \in 1..n : j < k => f[j] < f[k]
        /\ \A i \in S : \E k \in 1..n : f[k] = i
  BY <1>4
<1> HIDE DEF live
<1>6. \A k \in 1..n : /\ f[k] \in DOMAIN l /\ f[k] \in Nat
                      /\ live[k] = l[f[k]] /\ live[k] \in Datagrams /\ live[k].timer > 0
  <2> SUFFICES ASSUME NEW k \in 1..n
               PROVE  /\ f[k] \in DOMAIN l /\ f[k] \in Nat
                      /\ live[k] = l[f[k]] /\ live[k] \in Datagrams /\ live[k].timer > 0
    OBVIOUS
  <2>1. f[k] \in S
    OBVIOUS
  <2>2. f[k] \in DOMAIN l /\ l[f[k]].timer > 0
    BY <2>1
  <2> QED  BY <1>1, <1>2, <1>5, <2>2
<1>7. \A k \in 1..n : /\ m[k] = Ticked(live[k]) /\ m[k] \in Datagrams /\ m[k].id = live[k].id
                      /\ m[k].p = live[k].p /\ m[k].timer = live[k].timer - 1
  BY <1>5, <1>6, TickedProperties
<1>8. DOMAIN m = 1..n /\ Left(l) = m
  BY <1>5 DEF Left, live
<1>9. m \in Seq(Datagrams) /\ Len(m) = n
  <2>1. m \in [1..n -> Datagrams]
    BY <1>5, <1>7
  <2> HIDE DEF m
  <2> QED  BY <1>8, <2>1, SeqDef, LenProperties
<1> HIDE DEF m
<1>10. \A j, k \in 1..n : m[j].id = m[k].id => j = k
  <2> SUFFICES ASSUME NEW j \in 1..n, NEW k \in 1..n, m[j].id = m[k].id
               PROVE  j = k
    OBVIOUS
  <2>1. l[f[j]].id = l[f[k]].id
    BY <1>6, <1>7
  <2>2. f[j] = f[k]
    BY <1>6, <2>1 DEF ListSound
  <2> QED  BY <1>5, <1>6, <2>2
<1>11. ListSound(m)
  <2>1. \A j, k \in 1..n : j < k => m[k].timer <= m[j].timer
    <3> SUFFICES ASSUME NEW j \in 1..n, NEW k \in 1..n, j < k
                 PROVE  m[k].timer <= m[j].timer
      OBVIOUS
    <3>1. l[f[k]].timer <= l[f[j]].timer
      BY <1>5, <1>6 DEF ListSound
    <3> PICK a \in Nat, b \in Nat : a = l[f[k]].timer /\ b = l[f[j]].timer
      BY <1>2, <1>6
    <3>2. m[k].timer = a - 1 /\ m[j].timer = b - 1
      BY <1>6, <1>7
    <3> QED  BY <3>1, <3>2
  <2> QED  BY <1>8, <1>9, <1>10, <2>1 DEF ListSound
<1>12. NonEmpty(m)
  BY <1>6, <1>7, <1>8 DEF NonEmpty
<1>13. ToSet(live) = alive
  <2>1. \A d : d \in ToSet(live) <=> \E k \in 1..n : d = l[f[k]]
    <3>1. ToSet(live) = {live[k] : k \in 1..n}
      BY <1>5 DEF ToSet
    <3> QED  BY <1>6, <3>1
  <2>2. \A d : d \in alive <=> \E i \in S : d = l[i]
    <3>1. \A i \in DOMAIN l : l[i].timer > 0 <=> l[i].timer # 0
      BY <1>2
    <3> QED  BY <3>1 DEF ToSet, Dead
  <2> HIDE DEF S
  <2> QED  BY <1>5, <2>1, <2>2
<1>14. PbufsIn(ToSet(m)) = PbufsIn(alive)
  <2>1. PbufsOf(ToSet(m)) = UNION {{m[k].id} \X DOMAIN m[k].p : k \in 1..n}
    <3>1. ToSet(m) = {m[k] : k \in 1..n}
      BY <1>8 DEF ToSet
    <3> QED  BY <3>1 DEF PbufsOf
  <2>2. PbufsOf(alive) = UNION {{live[k].id} \X DOMAIN live[k].p : k \in 1..n}
    <3>1. alive = {live[k] : k \in 1..n}
      BY <1>5, <1>13 DEF ToSet
    <3> HIDE DEF alive
    <3> QED  BY <3>1 DEF PbufsOf
  <2>3. \A k \in 1..n : m[k].id = live[k].id /\ m[k].p = live[k].p
    BY <1>7
  <2> QED  BY <2>1, <2>2, <2>3 DEF PbufsIn
<1>15. Cardinality(ToSet(m)) = n
  BY <1>9, <1>11, Different
<1>16. Cardinality(alive) = n
  <2>1. \A j, k \in 1..n : live[j] = live[k] => j = k
    BY <1>7, <1>10
  <2> QED  BY <1>5, <1>13, <2>1, ElementsOf
<1>17. IsFiniteSet(alive) /\ IsFiniteSet(Dead(l)) /\ alive \subseteq ToSet(l) /\ Dead(l) \subseteq ToSet(l)
  BY <1>1, FS_Subset DEF Dead
<1>18. /\ alive \cup Dead(l) = ToSet(l) /\ alive \cap Dead(l) = {}
       /\ alive \subseteq Datagrams /\ Dead(l) \subseteq Datagrams
  BY <1>1, <1>17
<1>19. PbufsIn(ToSet(l)) = PbufsIn(alive) + PbufsIn(Dead(l))
  <2>1. \A d \in alive, e \in Dead(l) : d.id # e.id
    BY <1>1, <1>17
  <2> HIDE DEF alive
  <2> QED  BY <1>17, <1>18, <2>1, PbufsSplit
<1>20. Cardinality(ToSet(l)) = Cardinality(alive) + Cardinality(Dead(l)) /\ Cardinality(Dead(l)) \in Nat
  <2> HIDE DEF alive
  <2>1. Cardinality(alive \cup Dead(l)) = Cardinality(alive) + Cardinality(Dead(l)) - Cardinality(alive \cap Dead(l))
    BY <1>17, FS_Union
  <2>2. Cardinality(alive) \in Nat /\ Cardinality(Dead(l)) \in Nat
    BY <1>17, FS_CardinalityType
  <2>3. Cardinality(alive \cap Dead(l)) = 0
    BY <1>18, FS_EmptySet DEF alive
  <2> PICK a \in Nat, b \in Nat : a = Cardinality(alive) /\ b = Cardinality(Dead(l))
    BY <2>2
  <2>4. Cardinality(alive \cup Dead(l)) = a + b - 0
    BY <2>1, <2>3
  <2>5. a + b - 0 = a + b
    OBVIOUS
  <2> QED  BY <1>18, <2>2, <2>4, <2>5 DEF alive
<1>21. PbufsIn(alive) \in Nat /\ PbufsIn(Dead(l)) \in Nat
  BY <1>17, <1>18, PbufsFinite
<1> HIDE DEF alive
<1> QED  BY <1>8, <1>11, <1>12, <1>14, <1>15, <1>16, <1>19, <1>20, <1>21

LEMMA TmrKeeps ==
  ASSUME ReassInv, ~reassevent.dangling, ip_reass_tmr
  PROVE  ReassInv' /\ reassevent'.got = {}
<1> DEFINE l == reassdatagrams
           gone == Cardinality(Dead(l))
           freed == PbufsIn(Dead(l))
<1>1. /\ ListSound(l) /\ NonEmpty(l) /\ reassblocks \in Nat /\ ip_reass_pbufcount \in Nat
      /\ Accounted(Now, ToSet(l)) /\ ip_reass_pbufcount <= IP_REASS_MAX_PBUFS
  BY DEF ReassInv, RecordSound, Now, NonEmpty, ReassType
<1>2. /\ reassdatagrams' = Left(l) /\ reassblocks' = reassblocks + gone
      /\ ip_reass_pbufcount' = ip_reass_pbufcount - freed /\ reassevent' = NoEvent
  BY DEF ip_reass_tmr, SetReass, Reass, Left, Dead
<1>3. /\ ListSound(Left(l)) /\ NonEmpty(Left(l))
      /\ PbufsIn(ToSet(Left(l))) + freed = PbufsIn(ToSet(l))
      /\ Cardinality(ToSet(Left(l))) + gone = Cardinality(ToSet(l))
      /\ freed \in Nat /\ PbufsIn(ToSet(Left(l))) \in Nat
      /\ gone \in Nat /\ Cardinality(ToSet(Left(l))) \in Nat
  BY <1>1, LeftSound
<1> HIDE DEF gone, freed
<1>4. /\ reassblocks + Cardinality(ToSet(l)) = MEMP_NUM_REASSDATA
      /\ ip_reass_pbufcount = PbufsIn(ToSet(l))
  BY <1>1 DEF Accounted, Now
<1> DEFINE m == Left(l)
<1> HIDE DEF m
<1>5. /\ reassblocks' + Cardinality(ToSet(m)) = MEMP_NUM_REASSDATA
      /\ ip_reass_pbufcount' = PbufsIn(ToSet(m))
      /\ reassblocks' \in Nat /\ ip_reass_pbufcount' \in Nat
      /\ ip_reass_pbufcount' <= IP_REASS_MAX_PBUFS
  <2> PICK b \in Nat, c \in Nat, g \in Nat, k \in Nat, h \in Nat, q \in Nat :
         /\ b = reassblocks /\ c = ip_reass_pbufcount /\ g = gone /\ k = freed
         /\ h = Cardinality(ToSet(m)) /\ q = PbufsIn(ToSet(m))
    BY <1>1, <1>3 DEF m
  <2>1. h + g = Cardinality(ToSet(l)) /\ q + k = PbufsIn(ToSet(l))
    BY <1>3 DEF m
  <2>2. b + (h + g) = MEMP_NUM_REASSDATA /\ c = q + k
    BY <1>4, <2>1
  <2>3. b + g + h = MEMP_NUM_REASSDATA /\ c - k = q /\ q <= IP_REASS_MAX_PBUFS
    BY <1>1, <2>2, ReassAssumption
  <2> QED  BY <1>2, <2>3
<1>6. NoEvent \in EventType /\ NoEvent.got = {} /\ NoEvent.dangling = FALSE
  BY DEF NoEvent, EventType
<1>7. /\ Now' \in ReassType /\ Now'.list = m /\ Now'.event = NoEvent
      /\ Now'.blocks = reassblocks' /\ Now'.count = ip_reass_pbufcount'
  <2>1. m \in Seq(Datagrams)
    BY <1>3 DEF m, ListSound
  <2> QED  BY <1>2, <1>5, <1>6, <2>1 DEF Now, ReassType, m
<1>8. Accounted(Now', ToSet(m))
  BY <1>5, <1>7 DEF Accounted
<1>9. RecordSound(Now', {})
  BY <1>3, <1>6, <1>7, <1>8 DEF RecordSound, NonEmpty, m
<1>10. RecordSound(Now, {})' <=> RecordSound(Now', {})
  BY DEF RecordSound, ReassType, Datagrams, ListSound, Accounted, EventType, PbufsIn, PbufsOf, FragmentSet
<1> QED  BY <1>2, <1>5, <1>6, <1>9, <1>10 DEF ReassInv

LEMMA ReassInitSound == ReassInit => ReassInv
<1> SUFFICES ASSUME ReassInit PROVE ReassInv
  OBVIOUS
<1>1. NoEvent \in EventType
  BY DEF NoEvent, EventType
<1>2. <<>> \in Seq(Datagrams) /\ DOMAIN <<>> = {} /\ ToSet(<<>>) = {}
  BY DEF ToSet
<1>3. /\ Now \in ReassType /\ Now.list = <<>> /\ Now.blocks = MEMP_NUM_REASSDATA /\ Now.count = 0
  BY <1>1, <1>2, ReassAssumption DEF ReassInit, Now, ReassType
<1>4. ListSound(<<>>)
  BY <1>2 DEF ListSound
<1>5. Cardinality({}) = 0 /\ PbufsIn({}) = 0
  <2>1. PbufsOf({}) = {}
    BY DEF PbufsOf
  <2> QED  BY <2>1, FS_EmptySet DEF PbufsIn
<1>6. Accounted(Now, {})
  <2>1. MEMP_NUM_REASSDATA + 0 = MEMP_NUM_REASSDATA
    BY ReassAssumption
  <2> QED  BY <1>3, <1>5, <2>1 DEF Accounted
<1>7. RecordSound(Now, {})
  BY <1>2, <1>3, <1>4, <1>6 DEF RecordSound
<1> QED  BY <1>7, ReassAssumption DEF ReassInit, ReassInv

(* Every step keeps the invariant, and one that takes a fragment serves it.   *)
LEMMA ReassNextKeeps ==
  ASSUME ReassInv, [ReassNext]_reassVars
  PROVE  /\ ReassInv'
         /\ \/ UNCHANGED reassVars
            \/ reassevent'.got = {}
            \/ \E id : /\ reassevent'.got = {id}
                       /\ Served(reassdatagrams, reassdatagrams', reassevent'.whole, id)
<1>1. CASE ReassNext
  <2>1. ~reassevent.dangling
    BY <1>1 DEF ReassNext
  <2>2. CASE ip_reass
    BY <2>1, <2>2, IpReassembleKeeps DEF ip_reass
  <2>3. CASE ip_reass_tmr
    BY <2>1, <2>3, TmrKeeps
  <2> QED  BY <1>1, <2>2, <2>3 DEF ReassNext
<1>2. CASE UNCHANGED reassVars
  BY <1>2 DEF reassVars, ReassInv, Now, RecordSound, ReassType, ListSound, Accounted
<1> QED  BY <1>1, <1>2

LEMMA ReassInvGivesTypes ==
  ASSUME ReassInv PROVE ReassTypeOK
<1> DEFINE l == reassdatagrams
<1>1. /\ ListSound(l) /\ NonEmpty(l) /\ reassblocks \in Nat /\ ip_reass_pbufcount \in Nat
      /\ ip_reass_pbufcount <= IP_REASS_MAX_PBUFS
      /\ \E D \in SUBSET ToSet(l) : reassblocks + Cardinality(D) = MEMP_NUM_REASSDATA
  BY DEF ReassInv, RecordSound, Now, NonEmpty, ReassType, Accounted
<1>2. ToSet(l) \subseteq Datagrams /\ IsFiniteSet(ToSet(l))
  BY <1>1, Different
<1>3. reassblocks \in 0..MEMP_NUM_REASSDATA
  <2> PICK D \in SUBSET ToSet(l) : reassblocks + Cardinality(D) = MEMP_NUM_REASSDATA
    BY <1>1
  <2>1. Cardinality(D) \in Nat
    BY <1>2, FS_Subset, FS_CardinalityType
  <2> QED  BY <1>1, <2>1, ReassAssumption
<1>4. ASSUME NEW d \in ToSet(l)
      PROVE  /\ d.id \in IpIds /\ d.last \in BOOLEAN /\ d.timer \in 0..IP_REASS_MAXAGE
             /\ d.p # <<>> /\ \A f \in ToSet(d.p) : f \in FragmentSet /\ f.id = d.id
  <2>1. d \in Datagrams /\ d.p # <<>>
    BY <1>1, <1>2 DEF NonEmpty, ToSet
  <2>2. d.p \in Seq(FragmentSet) /\ \A k \in DOMAIN d.p : d.p[k].id = d.id
    BY <2>1 DEF Datagrams
  <2>3. \A k \in DOMAIN d.p : d.p[k] \in FragmentSet
    BY <2>2, ElementOfSeq, LenProperties
  <2> QED  BY <2>1, <2>2, <2>3 DEF Datagrams, ToSet
<1> QED  BY <1>1, <1>3, <1>4, ReassAssumption DEF ReassTypeOK

LEMMA ReassInvAccounts ==
  ASSUME ReassInv, ~reassevent.dangling PROVE ReassAccounted
<1> DEFINE l == reassdatagrams
<1>1. ListSound(l) /\ Accounted(Now, ToSet(l))
  BY DEF ReassInv, RecordSound, Now
<1>2. Cardinality(ToSet(l)) = Len(l)
  BY <1>1, Different
<1> QED  BY <1>1, <1>2 DEF ReassAccounted, Accounted, Now, ListSound

-----------------------------------------------------------------------------
(* What it gives *)

(* The inductive invariant, for any number of datagrams, of any length, cut   *)
(* in any way, and any number of blocks and pbufs.                            *)
THEOREM ReassInvariant == ReassSpec => []ReassInv
BY ReassInitSound, ReassNextKeeps, PTL DEF ReassSpec

(* The list, the free blocks and ip_reass_pbufcount keep their ranges.        *)
THEOREM ReassTypes == ReassSpec => []ReassTypeOK
BY ReassInvariant, ReassInvGivesTypes, PTL

(* No pbuf and no block is lost, whichever way datagrams leave, until one is  *)
(* freed that is its own predecessor and stays in the list.                   *)
THEOREM ReassAccountedFor == ReassSpec => [](~reassevent.dangling => ReassAccounted)
BY ReassInvariant, ReassInvAccounts, PTL

LEMMA RightOneStep ==
  ASSUME ReassInv, [ReassNext]_reassVars
  PROVE  /\ [\A d \in ToSet(reassdatagrams) :
               d.id \in reassevent'.got /\ reassevent'.whole = <<>>
                 => \E e \in ToSet(reassdatagrams') :
                      e.id = d.id /\ ToSet(d.p) \subseteq ToSet(e.p)]_reassVars
         /\ [reassevent'.got # {} =>
               \A i, j \in DOMAIN reassdatagrams :
                 LET gone(k) == reassdatagrams[k].id \notin {d.id : d \in ToSet(reassdatagrams')}
                 IN  i < j /\ gone(i) /\ reassevent'.whole = <<>>
                       => gone(j) \/ reassdatagrams[j].id \in reassevent'.got]_reassVars
<1> DEFINE l == reassdatagrams
           m == reassdatagrams'
           whole == reassevent'.whole
<1>1. CASE \E id : reassevent'.got = {id} /\ Served(l, m, whole, id)
  <2> PICK id : reassevent'.got = {id} /\ Served(l, m, whole, id)
    BY <1>1
  <2> PICK k : Evicted(l, k, id) /\ (whole = <<>> => Grown(k, m))
    BY DEF Served
  <2>1. ListSound(l)
    BY DEF ReassInv, RecordSound, Now
  <2>2. /\ \A d \in ToSet(l) : d.id = id => d \in ToSet(k)
        /\ \A i, j \in DOMAIN l : i < j /\ l[i] \notin ToSet(k) => l[j].id = id
    BY <2>1, EvictedKeepsSet
  <2>3. ASSUME NEW d \in ToSet(l), d.id \in reassevent'.got, whole = <<>>
        PROVE  \E e \in ToSet(m) : e.id = d.id /\ ToSet(d.p) \subseteq ToSet(e.p)
    BY <2>2, <2>3 DEF Grown
  <2>4. ASSUME NEW i \in DOMAIN l, NEW j \in DOMAIN l, i < j, whole = <<>>,
               l[i].id \notin {d.id : d \in ToSet(m)}
        PROVE  l[j].id \in reassevent'.got
    <3>1. l[i] \notin ToSet(k)
      BY <2>4 DEF Grown
    <3> QED  BY <2>2, <2>4, <3>1
  <2> QED  BY <2>3, <2>4
<1>2. CASE reassevent'.got = {}
  BY <1>2
<1>3. CASE UNCHANGED reassVars
  BY <1>3
<1> QED  BY <1>1, <1>2, <1>3, ReassNextKeeps

(* Room is made by freeing the datagram begun first, never the one the        *)
(* fragment belongs to, which keeps what it has until it is complete.         *)
THEOREM ReassRightOneEvicted == ReassSpec => RightOneEvicted
BY ReassInvariant, RightOneStep, PTL DEF ReassSpec, RightOneEvicted, OwnDatagramKept, OldestMakesRoom

-----------------------------------------------------------------------------
(* The Ethernet controller *)

RingSize == RXSTOP_INIT + 1

(* How far behind first the place x is. *)
Offset(first, x) == IF first <= x THEN x - first ELSE x - first + RingSize

Frame == [at : Ring, size : FrameSizes, header : {"good", "bad", "lies"}]

EncTypes ==
  /\ chip \in [wrpt : Ring, rdpt : Ring, rxen : BOOLEAN, hung : BOOLEAN, frames : Seq(Frame)]
  /\ enc \in [pc : {"idle", "header", "copy", "decrement", "reset", "clock"},
              NextPacketPtr : Ring, BreakDown : Nat, stray : BOOLEAN]

(* The frames u lie one after the other from first to wrpt, at even places,   *)
(* and do not go round: this is what keeps one from another.                  *)
Laid(u, first, wrpt) ==
  /\ first \in Ring /\ first % 2 = 0 /\ wrpt \in Ring /\ wrpt % 2 = 0
  /\ u \in Seq(Frame)
  /\ first = IF u = <<>> THEN wrpt ELSE u[1].at
  /\ \A i \in 1..Len(u) :
       /\ Offset(first, u[i].at) + u[i].size <= Offset(first, wrpt)
       /\ After(u[i].at, u[i].size) = IF i = Len(u) THEN wrpt ELSE u[i + 1].at
  /\ \A i, j \in 1..Len(u) :
       i < j => Offset(first, u[i].at) + u[i].size <= Offset(first, u[j].at)

(* ERXRDPT is where the initialization put it until a frame is taken, and     *)
(* just before the first frame from then on.                                  *)
RoomGiven == IF chip.rdpt = RXSTART_INIT THEN FirstUnread = RXSTART_INIT
             ELSE chip.rdpt = nextpackptr_odd(FirstUnread)

(* What the driver knows at each of its steps. *)
DriverKnows ==
  /\ enc.pc = "idle"      => enc.NextPacketPtr = FirstUnread
  /\ enc.pc = "header"    => chip.frames # <<>> /\ enc.NextPacketPtr = FirstUnread
  /\ enc.pc = "copy"      => /\ chip.frames # <<>>
                             /\ enc.NextPacketPtr = After(chip.frames[1].at, chip.frames[1].size)
  /\ enc.pc = "decrement" => chip.frames # <<>> /\ enc.NextPacketPtr = FirstUnread

EncInv ==
  /\ EncTypes
  /\ chip.rxen /\ ~enc.stray => Laid(Unread, FirstUnread, chip.wrpt) /\ RoomGiven /\ DriverKnows
  /\ ~chip.rxen => chip.frames = <<>> /\ enc.pc \in {"idle", "reset", "clock"}
  /\ enc.pc = "clock" => ~chip.rxen

-----------------------------------------------------------------------------
(* Arithmetic of the ring *)

(* The constants are numbers, and the ring has an even size. *)
LEMMA EncConstants ==
  /\ RXSTOP_INIT \in Nat /\ RXSTOP_INIT >= 1 /\ RXSTART_INIT = 0
  /\ RingSize \in Nat \ {0} /\ RingSize = RXSTOP_INIT + 1 /\ RingSize % 2 = 0
  /\ Ring = 0..RXSTOP_INIT
  /\ \A s \in FrameSizes : /\ s \in Nat /\ s \in 1..RXSTOP_INIT /\ s % 2 = 0
                           /\ s \in 0..RXSTOP_INIT /\ s \in 0..RingSize
BY EncAssumption, SMT DEF Ring, RXSTART_INIT, RingSize

(* A remainder of a number below the modulus, or one modulus above that. *)
LEMMA RingRemainder ==
  ASSUME NEW m \in Nat \ {0}, NEW x \in 0..(m - 1)
  PROVE  x % m = x /\ (x + m) % m = x
BY SMT

(* After without the remainder. *)
LEMMA AfterCases ==
  ASSUME NEW a \in Ring, NEW n \in 0..RingSize
  PROVE  /\ After(a, n) = IF a + n < RingSize THEN a + n ELSE a + n - RingSize
         /\ After(a, n) \in Ring
<1>1. a \in 0..(RingSize - 1) /\ RingSize \in Nat \ {0} /\ Ring = 0..(RingSize - 1)
  BY EncConstants
<1>2. CASE a + n < RingSize
  <2>1. a + n \in 0..(RingSize - 1)
    BY <1>1, <1>2
  <2>2. QED
    BY <2>1, <1>1, <1>2, RingRemainder DEF After, RingSize
<1>3. CASE a + n >= RingSize
  <2>1. DEFINE x == a + n - RingSize
  <2>2. x \in 0..(RingSize - 1) /\ x + RingSize = a + n
    BY <1>1, <1>3
  <2>3. (x + RingSize) % RingSize = x
    BY <2>2, <1>1, RingRemainder
  <2>4. QED
    BY <2>2, <2>3, <1>1, <1>3 DEF After, RingSize
<1>4. QED
  BY <1>1, <1>2, <1>3

(* From an even place an even distance leads to an even place. *)
LEMMA AfterEven ==
  ASSUME NEW a \in Ring, NEW n \in 0..RingSize, a % 2 = 0, n % 2 = 0
  PROVE  After(a, n) % 2 = 0
<1>1. After(a, n) = a + n \/ After(a, n) = a + n - RingSize
  BY AfterCases
<1>2. a \in Nat /\ n \in Nat /\ RingSize \in Nat /\ RingSize % 2 = 0
  BY EncConstants
<1>3. QED
  BY <1>1, <1>2

(* Going on by n adds n to the distance, as long as that does not go round. *)
LEMMA OffsetAfter ==
  ASSUME NEW first \in Ring, NEW x \in Ring, NEW n \in Nat, Offset(first, x) + n < RingSize
  PROVE  Offset(first, After(x, n)) = Offset(first, x) + n
<1>1. /\ first \in Nat /\ x \in Nat /\ RingSize \in Nat
      /\ first < RingSize /\ x < RingSize
  BY EncConstants
<1>2. n \in 0..RingSize
  BY <1>1 DEF Offset
<1>3. After(x, n) = IF x + n < RingSize THEN x + n ELSE x + n - RingSize
  BY <1>2, AfterCases
<1>4. QED
  BY <1>1, <1>2, <1>3 DEF Offset

LEMMA OffsetType ==
  ASSUME NEW first \in Ring, NEW x \in Ring
  PROVE  /\ Offset(first, x) \in 0..RXSTOP_INIT
         /\ Offset(first, x) \in Nat
         /\ Offset(first, first) = 0
BY EncConstants DEF Offset

(* Seen from a place s further on, what lies behind it is s nearer. *)
LEMMA OffsetFrom ==
  ASSUME NEW first \in Ring, NEW x \in Ring, NEW s \in 0..RXSTOP_INIT,
         s <= Offset(first, x)
  PROVE  Offset(After(first, s), x) = Offset(first, x) - s
<1>1. /\ first \in Nat /\ x \in Nat /\ RingSize \in Nat /\ RingSize = RXSTOP_INIT + 1
      /\ first < RingSize /\ x < RingSize /\ RXSTOP_INIT \in Nat
  BY EncConstants
<1>2. After(first, s) = IF first + s < RingSize THEN first + s ELSE first + s - RingSize
  BY <1>1, AfterCases
<1>3. QED
  BY <1>1, <1>2 DEF Offset

-----------------------------------------------------------------------------
(* Frames in the ring *)

LEMMA LaidEmpty ==
  ASSUME NEW w \in Ring, w % 2 = 0
  PROVE  Laid(<<>>, w, w)
BY DEF Laid

(* A frame for which there is room goes behind the last. *)
LEMMA LaidAppend ==
  ASSUME NEW u, NEW first, NEW w, NEW size \in FrameSizes, NEW header \in {"good", "bad", "lies"},
         Laid(u, first, w), Offset(first, w) + size < RingSize
  PROVE  Laid(Append(u, [at |-> w, size |-> size, header |-> header]), first, After(w, size))
<1>1. DEFINE f == [at |-> w, size |-> size, header |-> header]
             v == Append(u, f)
             z == After(w, size)
<1>2. /\ size \in 1..RXSTOP_INIT /\ size % 2 = 0 /\ size \in 0..RingSize /\ size \in Nat
      /\ RXSTOP_INIT \in Nat /\ RingSize \in Nat
  BY EncConstants
<1>3. /\ first \in Ring /\ first % 2 = 0 /\ w \in Ring /\ w % 2 = 0 /\ u \in Seq(Frame)
      /\ first = IF u = <<>> THEN w ELSE u[1].at
  BY DEF Laid
<1>4. z \in Ring /\ z % 2 = 0
  BY <1>2, <1>3, AfterCases, AfterEven
<1>5. Offset(first, z) = Offset(first, w) + size
  BY <1>2, <1>3, OffsetAfter
<1>6. f \in Frame
  BY <1>3 DEF Frame
<1>7. /\ v \in Seq(Frame) /\ Len(v) = Len(u) + 1 /\ Len(u) \in Nat
      /\ \A i \in 1..Len(u) : v[i] = u[i]
      /\ v[Len(u) + 1] = f /\ v # <<>> /\ f.at = w /\ f.size = size /\ After(f.at, f.size) = z
  BY <1>3, <1>6, AppendProperties, LenProperties
<1>8. \A i \in 1..Len(u) : u[i] \in Frame
  BY <1>3
<1> HIDE DEF f, v, z
<1>9. first = v[1].at
  <2>1. CASE u = <<>>
    BY <2>1, <1>3, <1>7
  <2>2. CASE u # <<>>
    BY <2>2, <1>3, <1>7, EmptySeq
  <2>3. QED
    BY <2>1, <2>2
<1>10. /\ Offset(first, w) \in Nat
       /\ \A i \in 1..Len(u) : Offset(first, u[i].at) \in Nat /\ u[i].size \in Nat
  <2>1. \A i \in 1..Len(u) : u[i].at \in Ring /\ u[i].size \in FrameSizes
    BY <1>8 DEF Frame
  <2>2. QED
    BY <2>1, <1>3, OffsetType, EncConstants
<1>11. \A i \in 1..Len(v) :
         /\ Offset(first, v[i].at) + v[i].size <= Offset(first, z)
         /\ After(v[i].at, v[i].size) = IF i = Len(v) THEN z ELSE v[i + 1].at
  <2>1. SUFFICES ASSUME NEW i \in 1..Len(v)
                 PROVE  /\ Offset(first, v[i].at) + v[i].size <= Offset(first, z)
                        /\ After(v[i].at, v[i].size) = IF i = Len(v) THEN z ELSE v[i + 1].at
    OBVIOUS
  <2>2. CASE i = Len(u) + 1
    BY <2>2, <1>2, <1>5, <1>7, <1>10
  <2>3. CASE i \in 1..Len(u)
    <3>1. /\ Offset(first, u[i].at) + u[i].size <= Offset(first, w)
          /\ After(u[i].at, u[i].size) = IF i = Len(u) THEN w ELSE u[i + 1].at
      BY <2>3 DEF Laid
    <3>2. i # Len(u) => v[i + 1] = u[i + 1]
      BY <2>3, <1>6, <1>7
    <3>3. i = Len(u) => v[i + 1].at = w
      BY <1>7
    <3>4. QED
      BY <2>3, <3>1, <3>2, <3>3, <1>2, <1>5, <1>6, <1>7, <1>10, SMTT(30)
  <2>4. QED
    BY <2>2, <2>3, <1>7
<1>12. \A i, j \in 1..Len(v) :
         i < j => Offset(first, v[i].at) + v[i].size <= Offset(first, v[j].at)
  <2>1. SUFFICES ASSUME NEW i \in 1..Len(v), NEW j \in 1..Len(v), i < j
                 PROVE  Offset(first, v[i].at) + v[i].size <= Offset(first, v[j].at)
    OBVIOUS
  <2>2. i \in 1..Len(u) /\ v[i] = u[i]
    BY <2>1, <1>7
  <2>3. CASE j = Len(u) + 1
    BY <2>2, <2>3, <1>7 DEF Laid
  <2>4. CASE j \in 1..Len(u)
    BY <2>1, <2>2, <2>4, <1>7 DEF Laid
  <2>5. QED
    BY <2>3, <2>4, <1>7
<1>13. QED
  BY <1>3, <1>4, <1>6, <1>7, <1>9, <1>11, <1>12 DEF Laid, f, v, z

(* The first frame is taken: the others lie as before. *)
LEMMA LaidTail ==
  ASSUME NEW u, NEW first, NEW w, Laid(u, first, w), u # <<>>
  PROVE  Laid(Tail(u), After(u[1].at, u[1].size), w)
<1>1. DEFINE v == Tail(u)
             s == u[1].size
             z == After(u[1].at, s)
<1>2. /\ first \in Ring /\ first % 2 = 0 /\ w \in Ring /\ w % 2 = 0 /\ u \in Seq(Frame)
      /\ first = u[1].at
  BY DEF Laid
<1>3. /\ Len(u) \in Nat /\ Len(u) >= 1 /\ v \in Seq(Frame) /\ Len(v) = Len(u) - 1
      /\ \A i \in 1..Len(v) : v[i] = u[i + 1]
      /\ \A i \in 1..Len(u) : u[i] \in Frame
      /\ v = <<>> <=> Len(u) = 1
  <2>1. /\ Len(u) \in Nat \ {0} /\ v \in Seq(Frame) /\ Len(v) = Len(u) - 1
        /\ \A i \in 1..Len(v) : v[i] = u[i + 1]
    BY <1>2, EmptySeq, HeadTailProperties
  <2>2. \A i \in 1..Len(u) : u[i] \in Frame
    BY <1>2
  <2>3. v = <<>> <=> Len(v) = 0
    BY <2>1, EmptySeq
  <2>4. QED
    BY <2>1, <2>2, <2>3
<1>4. /\ u[1] \in Frame /\ s \in 0..RingSize /\ s \in 0..RXSTOP_INIT /\ s % 2 = 0
  <2>1. u[1] \in Frame /\ s \in FrameSizes
    BY <1>3 DEF Frame
  <2>2. QED
    BY <2>1, EncConstants
<1>5. z \in Ring /\ z % 2 = 0
  BY <1>2, <1>4, AfterCases, AfterEven
<1>6. z = IF Len(u) = 1 THEN w ELSE u[2].at
  <2>1. After(u[1].at, u[1].size) = IF 1 = Len(u) THEN w ELSE u[1 + 1].at
    <3>1. 1 \in 1..Len(u)
      BY <1>3
    <3>2. QED
      BY <3>1 DEF Laid
  <2>2. QED
    BY <2>1
<1>7. z = IF v = <<>> THEN w ELSE v[1].at
  BY <1>3, <1>6
<1> HIDE DEF v
<1>8. \A x \in Ring : s <= Offset(first, x) => Offset(z, x) = Offset(first, x) - s
  BY <1>2, <1>4, OffsetFrom
<1>9. Offset(first, first) = 0
  BY <1>2, OffsetType
<1>10. Offset(z, w) = Offset(first, w) - s
  <2>1. Offset(first, u[1].at) + u[1].size <= Offset(first, w)
    <3>1. 1 \in 1..Len(u)
      BY <1>3
    <3>2. QED
      BY <3>1 DEF Laid
  <2>2. QED
    BY <2>1, <1>2, <1>4, <1>8, <1>9
<1>15. z = After(first, s) /\ s = u[1].size
  BY <1>2
<1> HIDE DEF z, s
<1>11. \A i \in 1..Len(v) : /\ v[i] = u[i + 1] /\ i + 1 \in 1..Len(u)
                            /\ v[i].at \in Ring /\ v[i].size \in Nat
                            /\ Offset(first, v[i].at) \in Nat
                            /\ Offset(z, v[i].at) = Offset(first, v[i].at) - s
  <2>1. SUFFICES ASSUME NEW i \in 1..Len(v)
                 PROVE  /\ v[i] = u[i + 1] /\ i + 1 \in 1..Len(u)
                        /\ v[i].at \in Ring /\ v[i].size \in Nat
                        /\ Offset(first, v[i].at) \in Nat
                        /\ Offset(z, v[i].at) = Offset(first, v[i].at) - s
    OBVIOUS
  <2>2. v[i] = u[i + 1] /\ i + 1 \in 1..Len(u) /\ u[i + 1] \in Frame /\ 1 < i + 1 /\ 1 \in 1..Len(u)
    BY <1>3
  <2>3. Offset(first, u[1].at) + u[1].size <= Offset(first, u[i + 1].at)
    BY <2>2 DEF Laid
  <2>4. u[i + 1].at \in Ring /\ u[i + 1].size \in Nat
    BY <2>2, EncConstants DEF Frame
  <2>5. /\ Offset(first, u[1].at) = 0 /\ u[1].size = s
        /\ Offset(first, u[i + 1].at) \in Nat
    BY <2>4, <1>2, <1>9, <1>15, OffsetType
  <2>6. s <= Offset(first, u[i + 1].at)
    BY <2>3, <2>5, <1>4
  <2>7. Offset(z, u[i + 1].at) = Offset(first, u[i + 1].at) - s
    BY <2>4, <2>6, <1>8
  <2>8. QED
    BY <2>2, <2>4, <2>5, <2>7
<1>12. Offset(first, w) \in Nat /\ s \in Nat
  BY <1>2, <1>4, OffsetType
<1>13. \A i \in 1..Len(v) :
         /\ Offset(z, v[i].at) + v[i].size <= Offset(z, w)
         /\ After(v[i].at, v[i].size) = IF i = Len(v) THEN w ELSE v[i + 1].at
  <2>1. SUFFICES ASSUME NEW i \in 1..Len(v)
                 PROVE  /\ Offset(z, v[i].at) + v[i].size <= Offset(z, w)
                        /\ After(v[i].at, v[i].size) = IF i = Len(v) THEN w ELSE v[i + 1].at
    OBVIOUS
  <2>2. /\ v[i] = u[i + 1] /\ i + 1 \in 1..Len(u) /\ v[i].size \in Nat
        /\ Offset(first, v[i].at) \in Nat /\ Offset(z, v[i].at) = Offset(first, v[i].at) - s
    BY <1>11
  <2>3. /\ Offset(first, u[i + 1].at) + u[i + 1].size <= Offset(first, w)
        /\ After(u[i + 1].at, u[i + 1].size) = IF i + 1 = Len(u) THEN w ELSE u[(i + 1) + 1].at
    BY <2>2 DEF Laid
  <2>4. Offset(z, v[i].at) + v[i].size <= Offset(z, w)
    BY <2>2, <2>3, <1>10, <1>12
  <2>5. i # Len(v) => v[i + 1] = u[(i + 1) + 1]
    BY <1>3
  <2>6. i + 1 = Len(u) <=> i = Len(v)
    BY <1>3
  <2>7. QED
    BY <2>2, <2>3, <2>4, <2>5, <2>6
<1>14. \A i, j \in 1..Len(v) :
         i < j => Offset(z, v[i].at) + v[i].size <= Offset(z, v[j].at)
  <2>1. SUFFICES ASSUME NEW i \in 1..Len(v), NEW j \in 1..Len(v), i < j
                 PROVE  Offset(z, v[i].at) + v[i].size <= Offset(z, v[j].at)
    OBVIOUS
  <2>2. i + 1 \in 1..Len(u) /\ j + 1 \in 1..Len(u) /\ i + 1 < j + 1
    BY <2>1, <1>11
  <2>3. Offset(first, u[i + 1].at) + u[i + 1].size <= Offset(first, u[j + 1].at)
    BY <2>2 DEF Laid
  <2>4. /\ v[i] = u[i + 1] /\ v[j] = u[j + 1] /\ v[i].size \in Nat
        /\ Offset(first, v[i].at) \in Nat /\ Offset(z, v[i].at) = Offset(first, v[i].at) - s
        /\ Offset(first, v[j].at) \in Nat /\ Offset(z, v[j].at) = Offset(first, v[j].at) - s
    BY <2>1, <1>11
  <2>5. QED
    BY <2>3, <2>4, <1>12
<1>16. QED
  BY <1>2, <1>3, <1>5, <1>7, <1>13, <1>14 DEF Laid, z, s, v

(* Damage to a header moves no frame. *)
LEMMA LaidDamaged ==
  ASSUME NEW u, NEW first, NEW w, NEW header \in {"bad", "lies"},
         Laid(u, first, w), u # <<>>
  PROVE  Laid([u EXCEPT ![1].header = header], first, w)
<1>1. DEFINE v == [u EXCEPT ![1].header = header]
             f == [u[1] EXCEPT !.header = header]
<1>2. u \in Seq(Frame) /\ Len(u) \in Nat \ {0} /\ 1 \in 1..Len(u) /\ u[1] \in Frame
  BY EmptySeq DEF Laid
<1>3. f \in Frame /\ f.at = u[1].at /\ f.size = u[1].size
  BY <1>2 DEF Frame
<1>4. v = [u EXCEPT ![1] = f]
  BY <1>2
<1>5. /\ v \in Seq(Frame) /\ Len(v) = Len(u)
      /\ \A i \in 1..Len(u) : v[i] = IF i = 1 THEN f ELSE u[i]
  BY <1>2, <1>3, <1>4, ExceptSeq
<1> HIDE DEF v, f
<1>6. /\ v # <<>>
      /\ \A i \in 1..Len(u) : v[i].at = u[i].at /\ v[i].size = u[i].size
  BY <1>2, <1>3, <1>5, EmptySeq
<1>7. \A i \in 1..Len(u) : i # Len(u) => v[i + 1].at = u[i + 1].at
  BY <1>2, <1>6
<1>8. v[1].at = u[1].at
  BY <1>2, <1>6
<1>9. Laid(v, first, w)
  BY <1>2, <1>5, <1>6, <1>7, <1>8 DEF Laid
<1>10. QED
  BY <1>9 DEF v

(* No byte of a frame is among the room behind the last. *)
LEMMA LaidApart ==
  ASSUME NEW u, NEW first, NEW w, NEW room \in Nat, NEW i \in 1..Len(u),
         Laid(u, first, w), Offset(first, w) + room <= RXSTOP_INIT
  PROVE  Area(u[i].at, u[i].size) \cap Area(w, room) = {}
<1>1. SUFFICES ASSUME NEW m \in 0..(u[i].size - 1), NEW n \in 0..(room - 1),
                      After(u[i].at, m) = After(w, n)
               PROVE  FALSE
  BY DEF Area
<1>2. first \in Ring /\ w \in Ring /\ u \in Seq(Frame) /\ u[i] \in Frame
  BY DEF Laid
<1>3. u[i].at \in Ring /\ u[i].size \in Nat
  BY <1>2, EncConstants DEF Frame
<1>4. /\ Offset(first, w) \in Nat /\ Offset(first, u[i].at) \in Nat
      /\ Offset(first, u[i].at) + u[i].size <= Offset(first, w)
  BY <1>2, <1>3, OffsetType DEF Laid
<1>5. m \in Nat /\ n \in Nat /\ RingSize = RXSTOP_INIT + 1 /\ RXSTOP_INIT \in Nat
  BY <1>3, EncConstants
<1>6. Offset(first, After(u[i].at, m)) = Offset(first, u[i].at) + m
  <2>1. Offset(first, u[i].at) + m < RingSize
    BY <1>3, <1>4, <1>5
  <2>2. QED
    BY <2>1, <1>2, <1>3, <1>5, OffsetAfter
<1>7. Offset(first, After(w, n)) = Offset(first, w) + n
  <2>1. Offset(first, w) + n < RingSize
    BY <1>4, <1>5
  <2>2. QED
    BY <2>1, <1>2, <1>5, OffsetAfter
<1>8. QED
  BY <1>1, <1>3, <1>4, <1>5, <1>6, <1>7

-----------------------------------------------------------------------------
(* The room of the controller *)

(* Frames that lie from first on make first the place of the oldest. *)
LEMMA FirstOfLaid ==
  ASSUME NEW first, Laid(Unread, first, chip.wrpt)
  PROVE  FirstUnread = first
BY DEF Laid, FirstUnread

(* The next address is even, so what ERXRDPT gets is odd, and just before. *)
LEMMA OddPlace ==
  ASSUME NEW first \in Ring, first % 2 = 0
  PROVE  /\ nextpackptr_odd(first) \in Ring /\ nextpackptr_odd(first) % 2 = 1
         /\ nextpackptr_odd(first) # RXSTART_INIT
         /\ After(nextpackptr_odd(first), 1) = first
<1>1. /\ first \in Nat /\ RXSTART_INIT = 0 /\ RXSTOP_INIT \in Nat /\ RXSTOP_INIT >= 1
      /\ RingSize = RXSTOP_INIT + 1 /\ RingSize % 2 = 0 /\ first <= RXSTOP_INIT
  BY EncConstants
<1>2. DEFINE odd == nextpackptr_odd(first)
<1>3. /\ odd \in Ring /\ odd % 2 = 1 /\ odd # RXSTART_INIT
      /\ odd + 1 = IF first = 0 THEN RingSize ELSE first
  BY <1>1, EncConstants DEF nextpackptr_odd
<1> HIDE DEF odd
<1>4. After(odd, 1) = IF odd + 1 < RingSize THEN odd + 1 ELSE odd + 1 - RingSize
  BY <1>1, <1>3, AfterCases
<1>5. After(odd, 1) = first
  BY <1>1, <1>3, <1>4
<1>6. QED
  BY <1>3, <1>5 DEF odd

(* What the controller may write ends before it comes round to the oldest    *)
(* frame. *)
LEMMA RoomBehind ==
  ASSUME EncInv, chip.rxen, ~enc.stray
  PROVE  FreeSpace \in Nat /\ Offset(FirstUnread, chip.wrpt) + FreeSpace <= RXSTOP_INIT
<1>1. DEFINE first == FirstUnread
             w == chip.wrpt
             n == RXSTOP_INIT - w
<1>2. /\ first \in Ring /\ first % 2 = 0 /\ w \in Ring /\ w % 2 = 0
      /\ chip.rdpt = IF chip.rdpt = RXSTART_INIT THEN RXSTART_INIT ELSE nextpackptr_odd(first)
      /\ chip.rdpt = RXSTART_INIT => first = RXSTART_INIT
  BY DEF EncInv, Laid, RoomGiven
<1>3. /\ first \in Nat /\ w \in Nat /\ RXSTART_INIT = 0 /\ RXSTOP_INIT \in Nat
      /\ RingSize = RXSTOP_INIT + 1 /\ RingSize % 2 = 0 /\ first <= RXSTOP_INIT /\ w <= RXSTOP_INIT
  BY <1>2, EncConstants
<1>4. FreeSpace = After(chip.rdpt, n)
  BY DEF FreeSpace
<1> HIDE DEF first, w
<1>5. n \in 0..RingSize /\ n = RXSTOP_INIT - w
  BY <1>3
<1>6. CASE chip.rdpt = RXSTART_INIT
  <2>1. After(RXSTART_INIT, n) = n
    <3>1. RXSTART_INIT \in Ring
      BY <1>2, <1>6
    <3>2. QED
      BY <3>1, <1>3, <1>5, AfterCases
  <2>2. Offset(first, w) = w
    BY <1>2, <1>3, <1>6 DEF Offset
  <2>3. QED
    BY <2>1, <2>2, <1>3, <1>4, <1>5, <1>6 DEF first, w
<1>7. CASE chip.rdpt # RXSTART_INIT
  <2>1. DEFINE r == nextpackptr_odd(first)
  <2>2. r \in Ring /\ r = IF first = 0 THEN RXSTOP_INIT ELSE first - 1
    BY <1>2, <1>3, OddPlace DEF nextpackptr_odd
  <2> HIDE DEF r
  <2>3. After(r, n) = IF r + n < RingSize THEN r + n ELSE r + n - RingSize
    BY <2>2, <1>5, AfterCases
  <2>4. w # RXSTOP_INIT /\ first # w + 1
    BY <1>2, <1>3
  <2>5. After(r, n) \in Nat /\ Offset(first, w) + After(r, n) <= RXSTOP_INIT
    BY <2>2, <2>3, <2>4, <1>3, <1>5 DEF Offset
  <2>6. QED
    BY <2>5, <1>2, <1>4, <1>7 DEF r, first, w
<1>8. QED
  BY <1>6, <1>7

-----------------------------------------------------------------------------
(* The steps *)

LEMMA EncInitInv == EncInit => EncInv
<1>1. SUFFICES ASSUME EncInit PROVE EncInv
  OBVIOUS
<1>2. 0 \in Ring /\ RXSTART_INIT = 0 /\ 0 % 2 = 0
  BY EncConstants
<1>3. chip = [wrpt |-> 0, rdpt |-> 0, rxen |-> TRUE, hung |-> FALSE, frames |-> <<>>]
  BY <1>1, <1>2 DEF EncInit, Initialized
<1>4. enc = [pc |-> "idle", NextPacketPtr |-> 0, BreakDown |-> 0, stray |-> FALSE]
  BY <1>1, <1>2 DEF EncInit
<1>5. Unread = <<>> /\ FirstUnread = 0
  BY <1>3, <1>4 DEF Unread, FirstUnread
<1>6. EncTypes
  BY <1>2, <1>3, <1>4 DEF EncTypes
<1>7. QED
  BY <1>2, <1>3, <1>4, <1>5, <1>6, LaidEmpty DEF EncInv, RoomGiven, DriverKnows

LEMMA ArriveKeeps ==
  ASSUME EncInv, NEW size \in FrameSizes, Arrive(size)
  PROVE  EncInv'
<1>1. DEFINE f == [at |-> chip.wrpt, size |-> size, header |-> "good"]
             first == FirstUnread
<1>2. /\ chip.rxen /\ size <= FreeSpace /\ enc' = enc
      /\ chip' = [chip EXCEPT !.wrpt = After(chip.wrpt, size), !.frames = Append(chip.frames, f)]
  BY DEF Arrive
<1>3. EncTypes /\ chip.frames \in Seq(Frame) /\ chip.wrpt \in Ring
  BY DEF EncInv, EncTypes
<1>4. f \in Frame /\ After(chip.wrpt, size) \in Ring
  <2>1. After(chip.wrpt, size) \in Ring
    BY <1>3, EncConstants, AfterCases
  <2>2. QED
    BY <1>3, <2>1 DEF Frame
<1> HIDE DEF f
<1>5. /\ chip'.wrpt = After(chip.wrpt, size) /\ chip'.frames = Append(chip.frames, f)
      /\ chip'.rdpt = chip.rdpt /\ chip'.rxen
  BY <1>2, <1>3 DEF EncTypes
<1>6. EncTypes'
  BY <1>2, <1>3, <1>4, AppendProperties DEF EncTypes
<1>7. enc.pc # "clock"
  BY <1>2 DEF EncInv
<1>8. ASSUME ~enc.stray
      PROVE  Laid(Unread, FirstUnread, chip.wrpt)' /\ RoomGiven' /\ DriverKnows'
  <2>1. Laid(Unread, first, chip.wrpt) /\ RoomGiven /\ DriverKnows
    BY <1>2, <1>8 DEF EncInv
  <2>2. Offset(first, chip.wrpt) + size < RingSize
    <3>1. FreeSpace \in Nat /\ Offset(first, chip.wrpt) + FreeSpace <= RXSTOP_INIT
      BY <1>2, <1>8, RoomBehind
    <3>2. Offset(first, chip.wrpt) \in Nat
      BY <2>1, OffsetType DEF Laid
    <3>3. QED
      BY <3>1, <3>2, <1>2, EncConstants
  <2>3. Laid(Append(Unread, f), first, After(chip.wrpt, size))
    BY <1>3, <2>1, <2>2, LaidAppend DEF f
  <2>4. Unread' = Append(Unread, f)
    <3>1. CASE enc.pc = "decrement"
      <4>1. chip.frames # <<>>
        BY <3>1, <2>1 DEF DriverKnows
      <4>2. Tail(Append(chip.frames, f)) = Append(Tail(chip.frames), f)
        BY <4>1, <1>3, <1>4, HeadTailAppend
      <4>3. QED
        BY <4>2, <3>1, <1>2, <1>5 DEF Unread
    <3>2. CASE enc.pc # "decrement"
      BY <3>2, <1>2, <1>5 DEF Unread
    <3>3. QED
      BY <3>1, <3>2
  <2>5. Laid(Unread, first, chip.wrpt)' /\ FirstUnread' = first
    <3>1. Laid(Unread', first, chip'.wrpt)
      BY <2>3, <1>5, <2>4
    <3>2. FirstUnread' = first
      BY <3>1 DEF Laid, FirstUnread
    <3>3. QED
      BY <3>1, <3>2
  <2>6. chip'.frames # <<>> /\ (chip.frames # <<>> => chip'.frames[1] = chip.frames[1])
    BY <1>3, <1>4, <1>5, AppendProperties, EmptySeq
  <2>7. DriverKnows'
    BY <1>2, <2>1, <2>5, <2>6 DEF DriverKnows
  <2>8. RoomGiven'
    BY <2>1, <1>5, <2>5 DEF RoomGiven
  <2>9. QED
    BY <2>5, <2>7, <2>8
<1>9. QED
  BY <1>2, <1>5, <1>6, <1>7, <1>8 DEF EncInv

LEMMA HangKeeps ==
  ASSUME EncInv, Hang
  PROVE  EncInv'
<1>1. /\ chip.rxen /\ enc' = enc /\ chip' = [chip EXCEPT !.hung = TRUE]
  BY DEF Hang
<1>2. EncTypes
  BY DEF EncInv
<1>3. /\ chip'.wrpt = chip.wrpt /\ chip'.frames = chip.frames /\ chip'.rdpt = chip.rdpt
      /\ chip'.rxen = chip.rxen
  BY <1>1, <1>2 DEF EncTypes
<1>4. EncTypes'
  BY <1>1, <1>2 DEF EncTypes
<1>5. Unread' = Unread /\ FirstUnread' = FirstUnread
  BY <1>1, <1>3 DEF Unread, FirstUnread
<1>6. QED
  BY <1>1, <1>3, <1>4, <1>5 DEF EncInv, RoomGiven, DriverKnows

LEMMA DamageKeeps ==
  ASSUME EncInv, Damage
  PROVE  EncInv'
<1>h. PICK header \in {"bad", "lies"} :
        /\ chip.frames # <<>> /\ enc' = enc
        /\ chip' = [chip EXCEPT !.frames = [chip.frames EXCEPT ![1].header = header]]
  BY DEF Damage
<1>1. DEFINE v == [chip.frames EXCEPT ![1].header = header]
             f == [chip.frames[1] EXCEPT !.header = header]
<1>2. /\ chip.frames # <<>> /\ enc' = enc /\ chip' = [chip EXCEPT !.frames = v]
  BY <1>h
<1>3. EncTypes /\ chip.rxen
  BY <1>2 DEF EncInv
<1>4. /\ chip.frames \in Seq(Frame) /\ 1 \in 1..Len(chip.frames) /\ chip.frames[1] \in Frame
  BY <1>2, <1>3, EmptySeq DEF EncTypes
<1>5. f \in Frame /\ f.at = chip.frames[1].at /\ f.size = chip.frames[1].size
  BY <1>4 DEF Frame
<1>6. v = [chip.frames EXCEPT ![1] = f]
  BY <1>4
<1>7. /\ v \in Seq(Frame) /\ Len(v) = Len(chip.frames)
      /\ \A i \in 1..Len(v) : v[i] = IF i = 1 THEN f ELSE chip.frames[i]
  BY <1>4, <1>5, <1>6, ExceptSeq
<1>8. /\ chip'.wrpt = chip.wrpt /\ chip'.frames = v /\ chip'.rdpt = chip.rdpt
      /\ chip'.rxen = chip.rxen
  BY <1>2, <1>3 DEF EncTypes
<1>9. EncTypes'
  BY <1>2, <1>3, <1>7 DEF EncTypes
<1>10. v # <<>> /\ v[1].at = chip.frames[1].at /\ v[1].size = chip.frames[1].size
  BY <1>2, <1>4, <1>5, <1>7, EmptySeq
<1>11. ASSUME ~enc.stray
       PROVE  Laid(Unread, FirstUnread, chip.wrpt)' /\ RoomGiven' /\ DriverKnows'
  <2>1. Laid(Unread, FirstUnread, chip.wrpt) /\ RoomGiven /\ DriverKnows
    BY <1>3, <1>11 DEF EncInv
  <2>2. Laid(Unread', FirstUnread, chip.wrpt)
    <3>1. CASE enc.pc = "decrement"
      <4>1. Tail(v) = Tail(chip.frames)
        <5>1. /\ Tail(v) \in Seq(Frame) /\ Len(Tail(v)) = Len(v) - 1
              /\ \A i \in 1..Len(Tail(v)) : Tail(v)[i] = v[i + 1]
          BY <1>7, <1>10, HeadTailProperties
        <5>2. /\ Tail(chip.frames) \in Seq(Frame) /\ Len(Tail(chip.frames)) = Len(chip.frames) - 1
              /\ \A i \in 1..Len(Tail(chip.frames)) : Tail(chip.frames)[i] = chip.frames[i + 1]
          BY <1>2, <1>4, HeadTailProperties
        <5>3. Len(v) \in Nat /\ Len(chip.frames) \in Nat
          BY <1>4, <1>7, LenProperties
        <5> HIDE DEF v
        <5>4. \A i \in 1..Len(Tail(v)) : Tail(v)[i] = Tail(chip.frames)[i]
          BY <5>1, <5>2, <5>3, <1>7
        <5>5. QED
          BY <5>1, <5>2, <5>4, <1>7, SeqEqual
      <4>2. QED
        BY <4>1, <3>1, <1>2, <2>1, <1>8 DEF Unread
    <3>2. CASE enc.pc # "decrement"
      <4>1. Unread = chip.frames /\ Unread' = v
        BY <3>2, <1>2, <1>8 DEF Unread
      <4>2. Laid([chip.frames EXCEPT ![1].header = header], FirstUnread, chip.wrpt)
        BY <4>1, <1>2, <2>1, LaidDamaged
      <4>3. QED
        BY <4>1, <4>2
    <3>3. QED
      BY <3>1, <3>2
  <2> HIDE DEF v, f
  <2>3. Laid(Unread, FirstUnread, chip.wrpt)' /\ FirstUnread' = FirstUnread
    <3>1. Laid(Unread', FirstUnread, chip'.wrpt)
      BY <1>8, <2>2
    <3>2. FirstUnread' = FirstUnread
      BY <3>1 DEF Laid, FirstUnread
    <3>3. QED
      BY <3>1, <3>2
  <2>4. RoomGiven' /\ DriverKnows'
    BY <1>2, <2>1, <1>8, <1>10, <2>3 DEF RoomGiven, DriverKnows
  <2>5. QED
    BY <2>3, <2>4
<1> HIDE DEF v, f
<1>12. QED
  BY <1>2, <1>3, <1>8, <1>9, <1>11 DEF EncInv

(* A step of the driver that does not touch the controller and leaves what it *)
(* has to read as it is. *)
LEMMA LeavesChip ==
  ASSUME EncInv, chip' = chip, EncTypes', enc.pc # "decrement", enc'.pc # "decrement",
         enc.stray => enc'.stray, chip.rxen => enc'.pc # "clock",
         chip.rxen /\ ~enc'.stray => DriverKnows',
         ~chip.rxen => enc'.pc \in {"idle", "reset", "clock"}
  PROVE  EncInv'
<1>1. Unread' = Unread /\ FirstUnread' = FirstUnread
  BY DEF Unread, FirstUnread
<1>2. QED
  BY <1>1 DEF EncInv, RoomGiven

LEMMA PollKeeps ==
  ASSUME EncInv, Poll
  PROVE  EncInv'
<1>1. /\ enc.pc = "idle" /\ chip' = chip
      /\ IF chip.frames # <<>> THEN enc' = [enc EXCEPT !.BreakDown = 0, !.pc = "header"]
         ELSE \/ enc' = [enc EXCEPT !.BreakDown = 0, !.pc = "reset"]
              \/ enc' = [enc EXCEPT !.BreakDown = enc.BreakDown + 1]
  BY DEF Poll, Counted
<1>2. EncTypes
  BY DEF EncInv
<1>3. EncTypes' /\ enc'.NextPacketPtr = enc.NextPacketPtr /\ enc'.stray = enc.stray
  <2>1. CASE enc' = [enc EXCEPT !.BreakDown = 0, !.pc = "header"]
    BY <2>1, <1>1, <1>2 DEF EncTypes
  <2>2. CASE enc' = [enc EXCEPT !.BreakDown = 0, !.pc = "reset"]
    BY <2>2, <1>1, <1>2 DEF EncTypes
  <2>3. CASE enc' = [enc EXCEPT !.BreakDown = enc.BreakDown + 1]
    <3>1. enc.BreakDown + 1 \in Nat
      BY <1>2 DEF EncTypes
    <3>2. QED
      BY <2>3, <3>1, <1>1, <1>2 DEF EncTypes
  <2>4. QED
    BY <2>1, <2>2, <2>3, <1>1
<1>4. enc'.pc \in {"idle", "header", "reset"} /\ (enc'.pc = "header" => chip.frames # <<>>)
  BY <1>1, <1>2 DEF EncTypes
<1>5. FirstUnread' = FirstUnread
  BY <1>1, <1>4 DEF Unread, FirstUnread
<1>6. chip.rxen /\ ~enc.stray => DriverKnows'
  BY <1>1, <1>3, <1>4, <1>5 DEF EncInv, DriverKnows
<1>7. ~chip.rxen => enc'.pc \in {"idle", "reset", "clock"}
  BY <1>4 DEF EncInv
<1>8. QED
  BY <1>1, <1>3, <1>4, <1>6, <1>7, LeavesChip

(* The header that is read is that of the oldest frame, unless the driver has *)
(* followed a wrong address. *)
LEMMA HeaderKeeps ==
  ASSUME EncInv, Header
  PROVE  EncInv'
<1>1. enc.pc = "header" /\ chip' = chip
  BY DEF Header
<1>2. EncTypes /\ chip.rxen
  BY <1>1 DEF EncInv
<1>3. PICK next \in Ring, ok \in BOOLEAN, stray \in BOOLEAN :
        /\ stray <=> enc.stray \/ (ok /\ next # After(chip.frames[1].at, chip.frames[1].size))
        /\ enc' = [enc EXCEPT !.NextPacketPtr = next, !.pc = IF ok THEN "copy" ELSE "reset",
                              !.stray = stray]
  BY DEF Header
<1>4. /\ EncTypes' /\ enc'.NextPacketPtr = next /\ enc'.pc = (IF ok THEN "copy" ELSE "reset")
      /\ enc'.stray = stray
  BY <1>1, <1>2, <1>3 DEF EncTypes
<1>5. ASSUME ~enc'.stray
      PROVE  DriverKnows'
  <2>1. ~enc.stray /\ (ok => next = After(chip.frames[1].at, chip.frames[1].size))
    BY <1>3, <1>4, <1>5
  <2>2. chip.frames # <<>>
    BY <1>1, <1>2, <2>1 DEF EncInv, DriverKnows
  <2>3. QED
    BY <1>1, <1>4, <2>1, <2>2 DEF DriverKnows
<1>6. enc.stray => enc'.stray
  BY <1>3, <1>4
<1>7. QED
  BY <1>1, <1>2, <1>4, <1>5, <1>6, LeavesChip

(* Once the frame is copied its room is the controller's, and the next frame  *)
(* is the oldest. *)
LEMMA CopyKeeps ==
  ASSUME EncInv, Copy
  PROVE  EncInv'
<1>1. DEFINE next == enc.NextPacketPtr
<1>2. /\ enc.pc = "copy" /\ chip' = [chip EXCEPT !.rdpt = nextpackptr_odd(next)]
      /\ enc' = [enc EXCEPT !.pc = "decrement"]
  BY DEF Copy
<1>3. EncTypes /\ chip.rxen /\ next \in Ring
  BY <1>2 DEF EncInv, EncTypes
<1>4. nextpackptr_odd(next) \in Ring
  BY <1>3, EncConstants DEF nextpackptr_odd
<1>5. /\ EncTypes' /\ chip'.frames = chip.frames /\ chip'.wrpt = chip.wrpt /\ chip'.rxen
      /\ chip'.rdpt = nextpackptr_odd(next) /\ enc'.stray = enc.stray
      /\ enc'.pc = "decrement" /\ enc'.NextPacketPtr = next
  BY <1>2, <1>3, <1>4 DEF EncTypes
<1>6. ASSUME ~enc.stray
      PROVE  Laid(Unread, FirstUnread, chip.wrpt)' /\ RoomGiven' /\ DriverKnows'
  <2>1. /\ Laid(chip.frames, FirstUnread, chip.wrpt) /\ chip.frames # <<>>
        /\ next = After(chip.frames[1].at, chip.frames[1].size)
    BY <1>2, <1>3, <1>6 DEF EncInv, DriverKnows, Unread
  <2>2. Laid(Tail(chip.frames), next, chip.wrpt)
    BY <2>1, LaidTail
  <2>3. next % 2 = 0 /\ nextpackptr_odd(next) # RXSTART_INIT
    BY <2>2, OddPlace DEF Laid
  <2>4. Unread' = Tail(chip.frames)
    BY <1>5 DEF Unread
  <2>5. Laid(Unread, FirstUnread, chip.wrpt)' /\ FirstUnread' = next
    <3>1. Laid(Unread', next, chip'.wrpt)
      BY <2>2, <1>5, <2>4
    <3>2. FirstUnread' = next
      BY <3>1 DEF Laid, FirstUnread
    <3>3. QED
      BY <3>1, <3>2
  <2>6. RoomGiven' /\ DriverKnows'
    BY <2>1, <2>3, <1>5, <2>5 DEF RoomGiven, DriverKnows
  <2>7. QED
    BY <2>5, <2>6
<1>7. QED
  BY <1>5, <1>6 DEF EncInv

LEMMA DecrementKeeps ==
  ASSUME EncInv, Decrement
  PROVE  EncInv'
<1>1. EncTypes /\ chip.rxen /\ enc.pc = "decrement"
  BY DEF EncInv, Decrement
<1>2. PICK left \in Seq(Frame) :
        /\ left = IF chip.frames = <<>> THEN chip.frames ELSE Tail(chip.frames)
        /\ chip' = [chip EXCEPT !.frames = left] /\ enc' = [enc EXCEPT !.pc = "idle"]
  <2>1. chip.frames \in Seq(Frame)
    BY <1>1 DEF EncTypes
  <2>2. chip.frames # <<>> => Tail(chip.frames) \in Seq(Frame)
    BY <2>1, HeadTailProperties
  <2>3. QED
    BY <2>1, <2>2 DEF Decrement
<1>3. /\ EncTypes' /\ chip'.frames = left /\ chip'.wrpt = chip.wrpt /\ chip'.rxen
      /\ chip'.rdpt = chip.rdpt /\ enc'.stray = enc.stray
      /\ enc'.pc = "idle" /\ enc'.NextPacketPtr = enc.NextPacketPtr
  BY <1>1, <1>2 DEF EncTypes
<1>4. ASSUME ~enc.stray
      PROVE  Laid(Unread, FirstUnread, chip.wrpt)' /\ RoomGiven' /\ DriverKnows'
  <2>1. /\ Laid(Unread, FirstUnread, chip.wrpt) /\ RoomGiven /\ chip.frames # <<>>
        /\ enc.NextPacketPtr = FirstUnread
    BY <1>1, <1>4 DEF EncInv, DriverKnows
  <2>2. Unread' = Unread
    BY <1>1, <1>2, <1>3, <2>1 DEF Unread
  <2>3. FirstUnread' = FirstUnread
    BY <1>3, <2>2 DEF FirstUnread
  <2>4. QED
    BY <2>1, <1>3, <2>2, <2>3 DEF RoomGiven, DriverKnows
<1>5. QED
  BY <1>3, <1>4 DEF EncInv

LEMMA ResetKeeps ==
  ASSUME EncInv, SoftReset \/ ResetFails \/ KeyReset
  PROVE  EncInv'
<1>1. EncTypes
  BY DEF EncInv
<1>2. CASE SoftReset
  <2>1. /\ chip' = [chip EXCEPT !.rxen = FALSE, !.hung = FALSE, !.frames = <<>>]
        /\ enc' = [enc EXCEPT !.pc = "clock"]
    BY <1>2 DEF SoftReset
  <2>2. EncTypes' /\ ~chip'.rxen /\ chip'.frames = <<>> /\ enc'.pc = "clock"
    <3>1. <<>> \in Seq(Frame)
      OBVIOUS
    <3>2. QED
      BY <1>1, <2>1, <3>1 DEF EncTypes
  <2>3. QED
    BY <2>2 DEF EncInv
<1>3. CASE ResetFails
  <2>1. /\ chip' = chip /\ enc.pc = "clock" /\ enc' = [enc EXCEPT !.pc = "idle"]
    BY <1>3 DEF ResetFails
  <2>2. EncTypes' /\ enc'.pc = "idle" /\ ~chip.rxen /\ enc'.stray = enc.stray
    BY <1>1, <2>1 DEF EncInv, EncTypes
  <2>3. QED
    BY <2>1, <2>2, LeavesChip
<1>4. CASE KeyReset
  <2>1. PICK next \in {enc.NextPacketPtr, RXSTART_INIT} :
          /\ chip' = chip /\ enc.pc = "idle"
          /\ enc' = [enc EXCEPT !.NextPacketPtr = next, !.pc = "reset"]
    BY <1>4 DEF KeyReset
  <2>2. next \in Ring
    BY <1>1, <2>1, EncConstants DEF EncTypes
  <2>3. EncTypes' /\ enc'.pc = "reset" /\ enc'.stray = enc.stray
    BY <1>1, <2>1, <2>2 DEF EncTypes
  <2>4. DriverKnows'
    BY <2>3 DEF DriverKnows
  <2>5. QED
    BY <2>1, <2>3, <2>4, LeavesChip
<1>5. QED
  BY <1>2, <1>3, <1>4

LEMMA InitializeKeeps ==
  ASSUME EncInv, Initialize
  PROVE  EncInv'
<1>1. EncTypes
  BY DEF EncInv
<1>2. 0 \in Ring /\ RXSTART_INIT = 0 /\ 0 % 2 = 0
  BY EncConstants
<1>3. chip' = [wrpt |-> 0, rdpt |-> 0, rxen |-> TRUE, hung |-> FALSE, frames |-> <<>>]
  BY <1>2 DEF Initialize, Initialized
<1>4. enc' = [enc EXCEPT !.pc = "idle", !.NextPacketPtr = 0, !.stray = FALSE]
  BY <1>2 DEF Initialize, RestartedAt
<1>5. EncTypes' /\ enc'.pc = "idle" /\ enc'.NextPacketPtr = 0
  <2>1. <<>> \in Seq(Frame)
    OBVIOUS
  <2>2. QED
    BY <1>1, <1>2, <1>3, <1>4, <2>1 DEF EncTypes
<1>6. Unread' = <<>> /\ FirstUnread' = 0
  BY <1>3, <1>5 DEF Unread, FirstUnread
<1>7. QED
  BY <1>2, <1>3, <1>5, <1>6, LaidEmpty DEF EncInv, RoomGiven, DriverKnows

(* Every step keeps the invariant. *)
LEMMA EncInvInductive == EncInv /\ [EncNext]_encVars => EncInv'
<1>1. SUFFICES ASSUME EncInv, [EncNext]_encVars PROVE EncInv'
  OBVIOUS
<1>2. CASE ENC28J60_Packet_Receive
  BY <1>1, <1>2, PollKeeps, HeaderKeeps, CopyKeeps, DecrementKeeps, ResetKeeps, InitializeKeeps
     DEF ENC28J60_Packet_Receive
<1>3. CASE KeyReset \/ Hang \/ Damage
  BY <1>1, <1>3, ResetKeeps, HangKeeps, DamageKeeps
<1>4. ASSUME NEW size \in FrameSizes, Arrive(size) PROVE EncInv'
  BY <1>1, <1>4, ArriveKeeps
<1>5. CASE UNCHANGED encVars
  BY <1>1, <1>5 DEF encVars, EncInv, EncTypes, RoomGiven, DriverKnows, Unread, FirstUnread
<1>6. QED
  BY <1>1, <1>2, <1>3, <1>4, <1>5 DEF EncNext

-----------------------------------------------------------------------------
(* What it gives *)

LEMMA EncInvInStep ==
  ASSUME EncInv PROVE RingInStep
<1>1. SUFFICES ASSUME chip.rxen, ~enc.stray
               PROVE  /\ enc.pc = "idle" => enc.NextPacketPtr = FirstUnread
                      /\ enc.pc = "decrement" => chip.frames # <<>>
                      /\ chip.rdpt # RXSTART_INIT =>
                           chip.rdpt % 2 = 1 /\ After(chip.rdpt, 1) = FirstUnread
                      /\ \A i \in DOMAIN Unread :
                           Area(Unread[i].at, Unread[i].size) \cap Area(chip.wrpt, FreeSpace) = {}
  BY DEF RingInStep
<1>2. Laid(Unread, FirstUnread, chip.wrpt) /\ RoomGiven /\ DriverKnows
  BY <1>1 DEF EncInv
<1>3. FirstUnread \in Ring /\ FirstUnread % 2 = 0 /\ Unread \in Seq(Frame) /\ chip.wrpt \in Ring
  BY <1>2 DEF Laid
<1>4. chip.rdpt # RXSTART_INIT => chip.rdpt % 2 = 1 /\ After(chip.rdpt, 1) = FirstUnread
  BY <1>2, <1>3, OddPlace DEF RoomGiven
<1>5. FreeSpace \in Nat /\ Offset(FirstUnread, chip.wrpt) + FreeSpace <= RXSTOP_INIT
  BY <1>1, RoomBehind
<1>6. DOMAIN Unread = 1..Len(Unread)
  BY <1>3, LenProperties
<1>7. \A i \in DOMAIN Unread :
        Area(Unread[i].at, Unread[i].size) \cap Area(chip.wrpt, FreeSpace) = {}
  BY <1>2, <1>5, <1>6, LaidApart
<1>8. QED
  BY <1>2, <1>4, <1>7 DEF DriverKnows

(* The inductive invariant, for every ring and every size of frames: unless   *)
(* the driver followed a wrong address since the last reset, frames lie one   *)
(* behind the other, and it knows at each step where the first one is; a      *)
(* reset leads back there from wherever it went.                              *)
THEOREM RingInvariant == EncSpec => []EncInv
BY EncInitInv, EncInvInductive, PTL DEF EncSpec

(* Driver and controller agree on the ring, across wraps, headers that show   *)
(* their damage, and resets, those that fail too: no frame that is to be read *)
(* yet, or being read, is where the controller may write.  A header that lies *)
(* about the next place breaks this until the next reset that succeeds, and   *)
(* not beyond.                                                                *)
THEOREM RingStaysInStep == EncSpec => []RingInStep
BY RingInvariant, EncInvInStep, PTL

-----------------------------------------------------------------------------
(* The board *)

(* What a step of the board is to each of its parts: a step, or none. *)
LEMMA BoardStep ==
  ASSUME [BoardNext]_boardVars
  PROVE  /\ [ClockNext]_clockVars /\ [KeysNext]_keysVars /\ [NetifNext]_netifVars
         /\ [ReassNext]_reassVars /\ [EncNext]_encVars
BY DEF BoardNext, boardVars, OfClock, OfKeys, OfNetif, OfReass, OfEnc

(* The parts share no variable: their invariants hold side by side. *)
BoardInv == ClockInv /\ KeysInv /\ NetifInv /\ ReassInv /\ EncInv

LEMMA BoardInitSound == BoardInit => BoardInv
BY ClockInitInv, KeysInitSound, NetifInitSound, ReassInitSound, EncInitInv DEF BoardInit, BoardInv

LEMMA BoardNextKeeps ==
  ASSUME BoardInv, [BoardNext]_boardVars
  PROVE  BoardInv'
<1>1. /\ [ClockNext]_clockVars /\ [KeysNext]_keysVars /\ [NetifNext]_netifVars
      /\ [ReassNext]_reassVars /\ [EncNext]_encVars
  BY BoardStep
<1>2. ClockInv'
  BY <1>1, ClockInvInductive DEF BoardInv
<1>3. KeysInv'
  BY <1>1, KeysNextKeeps DEF BoardInv
<1>4. NetifInv'
  BY <1>1, NetifNextKeeps DEF BoardInv
<1>5. ReassInv'
  BY <1>1, ReassNextKeeps DEF BoardInv
<1>6. EncInv'
  BY <1>1, EncInvInductive DEF BoardInv
<1> QED  BY <1>2, <1>3, <1>4, <1>5, <1>6 DEF BoardInv

(* The invariants of the five parts, as the board interleaves them. *)
THEOREM BoardInvariant == BoardSpec => []BoardInv
BY BoardInitSound, BoardNextKeeps, PTL DEF BoardSpec

(* The ages, counters and indices of the parts keep their ranges. *)
THEOREM BoardTypes == BoardSpec => []BoardTypeOK
<1>1. BoardInv => BoardTypeOK
  BY ClockInvGives, KeysInvGivesTypes, NetifInvTypes, ReassInvGivesTypes DEF BoardInv, BoardTypeOK
<1> QED  BY <1>1, BoardInvariant, PTL

(* The board does what its parts promise: timers are exact, keys come in      *)
(* order, the ARP table is sound, packets go to their hosts in order, blocks  *)
(* and pbufs of reassembly are accounted for until a datagram dangles, and    *)
(* driver and controller agree on the ring.                                   *)
THEOREM BoardPromises ==
  BoardSpec => []( /\ TimersExact /\ KeysInOrder /\ ArpTableSound /\ SentRightly /\ RingInStep
                   /\ ~reassevent.dangling => ReassAccounted )
<1>1. BoardInv => /\ TimersExact /\ KeysInOrder /\ ArpTableSound /\ SentRightly /\ RingInStep
                  /\ ~reassevent.dangling => ReassAccounted
  BY ClockInvGives, KeysInvGivesOrder, NetifInvTable, NetifInvSent, ReassInvAccounts, EncInvInStep
     DEF BoardInv
<1> QED  BY <1>1, BoardInvariant, PTL

(* Keys are debounced and the oldest datagram makes room, whatever else the   *)
(* board does.                                                                *)
THEOREM BoardSteps == BoardSpec => Debounced /\ RightOneEvicted
<1>1. BoardInv => KeysInv /\ ReassInv
  BY DEF BoardInv
<1> QED  BY <1>1, BoardStep, BoardInvariant, KeysStepDebounced, RightOneStep, PTL
         DEF BoardSpec, Debounced, RightOneEvicted, OwnDatagramKept, OldestMakesRoom

=============================================================================
