-------------------------- MODULE InterruptedProofs --------------------------
(***************************************************************************)
(* Proofs about the services that interrupts drive or disturb, each for    *)
(* its own specification: the tuning engine, for every set of clocks and   *)
(* durations, every device limit and every way the collector may answer;   *)
(* the interrupt controllers, the dispatcher and the sleep, for every set  *)
(* of wired lines and every width of the tick counter; the process         *)
(* scheduler, for every set of processes and every quantum; and the        *)
(* keyboard's ring with the console's line, for every ring and screen.     *)
(***************************************************************************)
EXTENDS Episode, Interrupts, Processes, Terminal, CommonLemmas

-----------------------------------------------------------------------------
(*                            The tuning engine                            *)


(* The types of current_episode and of the device's registers.             *)
EpisodeRecord == [id : Nat, state : States, total : Nat, done : Nat, utils : Nat,
                  samples : Nat, proposed : Nat, original : Nat]

Device == [clock : Nat, temp : Nat, util : 0 .. (UtilMod - 1)]

EpisodeTypeOK ==
  /\ ep \in EpisodeRecord
  /\ active \in BOOLEAN
  /\ gpu \in Device
  /\ broke \in BOOLEAN

(* What DeviceSafe leaves out and its proof needs: the episode's state     *)
(* tells whether the engine owns the device, which clock is in force and   *)
(* whether a sample may have broken a guardrail.                           *)
OwnedByState ==
  /\ active <=> ep.state # "IDLE"
  /\ active => ep.original = Baseline
  /\ ep.state \in {"PROPOSE", "VALIDATE", "APPLY", "MONITOR", "DECIDE"} => ~broke
  /\ ep.state \in {"MONITOR", "DECIDE"} => gpu.clock = ep.proposed

EpisodeInv == EpisodeTypeOK /\ OwnedByState /\ IdleClockSafe

-----------------------------------------------------------------------------
(* mock_set_clock and mock_get_snapshot keep the device's registers in     *)
(* range; only set_clock touches the clock.                                *)
LEMMA SetClockType ==
  ASSUME NEW c \in Nat, gpu \in Device, SetClock(c)
  PROVE  gpu' \in Device /\ gpu'.clock = c
<1>1. gpu.temp + (IF c > FastClock THEN HeatFast ELSE 1) \in Nat
  <2>1. HeatFast \in Nat /\ 1 \in Nat /\ gpu.temp \in Nat
    BY EpisodeAssumption DEF Device
  <2> QED BY <2>1
<1> QED BY <1>1 DEF SetClock, Device

LEMMA SampledType ==
  ASSUME gpu \in Device, Sampled
  PROVE  gpu' \in Device /\ gpu'.clock = gpu.clock
<1>1. (gpu.util + 1) % UtilMod \in 0 .. (UtilMod - 1)
  BY EpisodeAssumption DEF Device
<1>2. (IF gpu.temp > TempFloor THEN gpu.temp - 1 ELSE gpu.temp) \in Nat
  BY EpisodeAssumption DEF Device
<1> QED BY <1>1, <1>2 DEF Sampled, Device

(* A state change of the engine alone keeps everything else it recorded.   *)
LEMMA GotoType ==
  ASSUME NEW s \in States, ep \in EpisodeRecord, Goto(s)
  PROVE  /\ ep' \in EpisodeRecord
         /\ ep'.state = s
         /\ ep'.original = ep.original
         /\ ep'.proposed = ep.proposed
         /\ ep'.samples = ep.samples
         /\ ep'.utils = ep.utils
BY DEF Goto, EpisodeRecord

-----------------------------------------------------------------------------
(* Every step of the engine, the device and its proposers keeps the        *)
(* inductive invariant.                                                    *)
LEMMA EpisodeStep == EpisodeInv /\ [EpisodeNext]_epVars => EpisodeInv'
<1> SUFFICES ASSUME EpisodeInv, [EpisodeNext]_epVars PROVE EpisodeInv'
  OBVIOUS
<1> USE DEF EpisodeInv
<1>1. ASSUME NEW c \in Clocks, NEW d \in Durations, Propose(c, d) PROVE EpisodeInv'
  <2>1. c \in Nat /\ d \in Nat /\ Baseline \in Nat /\ ep.id + 1 \in Nat
    BY EpisodeAssumption DEF EpisodeTypeOK, EpisodeRecord
  <2>2. /\ ep' \in EpisodeRecord /\ ep'.state = "PROPOSE" /\ ep'.original = Baseline
        /\ active' = TRUE /\ broke' = FALSE /\ gpu' = gpu
    BY <1>1, <2>1 DEF Propose, EpisodeRecord, States
  <2> QED BY <2>2 DEF EpisodeTypeOK, OwnedByState, IdleClockSafe
<1>2. CASE Validate
  <2>1. \E s \in {"VALIDATE", "APPLY"} : Goto(s)
    BY <1>2 DEF Validate
  <2>2. PICK s \in {"VALIDATE", "APPLY"} : Goto(s)
    BY <2>1
  <2> QED BY <1>2, <2>2, GotoType
          DEF Validate, EpisodeTypeOK, States, OwnedByState, IdleClockSafe
<1>3. CASE Apply
  <2>1. ep.proposed \in Nat /\ SetClock(ep.proposed) /\ Goto("MONITOR")
    BY <1>3 DEF Apply, EpisodeTypeOK, EpisodeRecord
  <2> QED BY <1>3, <2>1, GotoType, SetClockType
          DEF Apply, EpisodeTypeOK, States, OwnedByState, IdleClockSafe
<1>4. ASSUME NEW a \in Answers, NEW e \in Ecc, Monitor(a, e) PROVE EpisodeInv'
  <2>1. a \in BOOLEAN /\ gpu.util \in Nat /\ ep.state = "MONITOR" /\ active
    BY <1>4, EpisodeAssumption DEF Monitor, EpisodeTypeOK, Device
  <2>2. /\ ep.utils + gpu.util \in Nat /\ ep.samples + 1 \in Nat /\ ep.done + 1 \in Nat
        /\ ep.total \in Nat
    BY <2>1 DEF EpisodeTypeOK, EpisodeRecord
  <2>3. CASE a /\ Breaks(e)
    <3>1. /\ ep' = [[ep EXCEPT !.utils = @ + gpu.util, !.samples = @ + 1]
                      EXCEPT !.state = "ROLLBACK"]
          /\ broke' = TRUE /\ active' = active /\ Sampled
      BY <1>4, <2>3 DEF Monitor
    <3>2. /\ ep' \in EpisodeRecord /\ ep'.state = "ROLLBACK"
          /\ ep'.original = ep.original
      BY <2>2, <3>1 DEF EpisodeTypeOK, EpisodeRecord, States
    <3> QED BY <2>1, <3>1, <3>2, SampledType
            DEF EpisodeTypeOK, OwnedByState, IdleClockSafe
  <2>4. CASE a /\ ~Breaks(e)
    <3>1. /\ ep' = Monitored([ep EXCEPT !.utils = @ + gpu.util, !.samples = @ + 1])
          /\ broke' = (broke \/ Breaks(e)) /\ active' = active /\ Sampled
      BY <1>4, <2>4 DEF Monitor
    <3>2. /\ ep' \in EpisodeRecord /\ ep'.state \in {"MONITOR", "DECIDE"}
          /\ ep'.original = ep.original /\ ep'.proposed = ep.proposed
      BY <2>2, <3>1 DEF EpisodeTypeOK, EpisodeRecord, States, Monitored
    <3>3. broke = FALSE /\ broke' = FALSE
      BY <2>1, <2>4, <3>1 DEF OwnedByState, EpisodeTypeOK
    <3> QED BY <2>1, <3>1, <3>2, <3>3, SampledType
            DEF EpisodeTypeOK, OwnedByState, IdleClockSafe
  <2>5. CASE ~a
    <3>1. ep' = Monitored(ep) /\ UNCHANGED <<gpu, broke, active>>
      BY <1>4, <2>5 DEF Monitor
    <3>2. /\ ep' \in EpisodeRecord /\ ep'.state \in {"MONITOR", "DECIDE"}
          /\ ep'.original = ep.original /\ ep'.proposed = ep.proposed
      BY <2>2, <3>1 DEF EpisodeTypeOK, EpisodeRecord, States, Monitored
    <3> QED BY <2>1, <3>1, <3>2 DEF EpisodeTypeOK, OwnedByState, IdleClockSafe
  <2> QED BY <2>1, <2>3, <2>4, <2>5
<1>5. CASE Promote
  <2>1. Goto("IDLE") /\ AvgUtil > UtilGoal
    BY <1>5 DEF Promote
  <2>2. ep.samples > 0
    BY <2>1, EpisodeAssumption DEF AvgUtil, EpisodeTypeOK, EpisodeRecord
  <2>3. AvgUtil' = AvgUtil
    BY <2>1, GotoType DEF AvgUtil, EpisodeTypeOK, States
  <2> QED BY <1>5, <2>1, <2>2, <2>3, GotoType
          DEF Promote, EpisodeTypeOK, States, OwnedByState, IdleClockSafe
<1>6. CASE Reject
  <2>1. Goto("ROLLBACK")
    BY <1>6 DEF Reject
  <2> QED BY <1>6, <2>1, GotoType
          DEF Reject, EpisodeTypeOK, States, OwnedByState, IdleClockSafe
<1>7. CASE Rollback
  <2>1. ep.original = Baseline /\ SetClock(ep.original) /\ Goto("IDLE")
    BY <1>7 DEF Rollback, OwnedByState
  <2> QED BY <1>7, <2>1, GotoType, SetClockType, EpisodeAssumption
          DEF Rollback, EpisodeTypeOK, States, OwnedByState, IdleClockSafe
<1>8. CASE UNCHANGED epVars
  BY <1>8 DEF epVars, EpisodeTypeOK, OwnedByState, IdleClockSafe, AvgUtil
<1> QED BY <1>1, <1>2, <1>3, <1>4, <1>5, <1>6, <1>7, <1>8 DEF EpisodeNext, EpisodeTick

(* The device is safe between episodes and while one is rolled back: the   *)
(* clock of an episode with a sample over a guardrail (check_guardrails)   *)
(* never outlives the episode, and episode_tick decides to keep a clock    *)
(* only from samples it took.                                              *)
THEOREM DeviceStaysSafe == EpisodeSpec => []DeviceSafe
<1>1. EpisodeInit => EpisodeInv
  <2> SUFFICES ASSUME EpisodeInit PROVE EpisodeInv
    OBVIOUS
  <2>1. ep \in EpisodeRecord /\ gpu \in Device
    BY EpisodeAssumption DEF EpisodeInit, EpisodeRecord, Device, States
  <2> QED BY <2>1 DEF EpisodeInit, EpisodeInv, EpisodeTypeOK, OwnedByState, IdleClockSafe
<1>2. EpisodeInv => DeviceSafe
  BY DEF EpisodeInv, EpisodeTypeOK, EpisodeRecord, States, OwnedByState, DeviceSafe,
         BrokenRollsBack
<1> QED BY <1>1, <1>2, EpisodeStep, PTL DEF EpisodeSpec

-----------------------------------------------------------------------------
(*                    Interrupt controllers and the sleep                  *)


(* The least element of a singleton, what an EOI takes out of service.     *)
LEMMA MinOfOne ==
  ASSUME NEW x \in Int
  PROVE  Min({x}) = x
BY DEF Min

(* Acknowledging the only line in service at a controller clears it.       *)
LEMMA EoiOfOne ==
  ASSUME NEW s, NEW pic, NEW x \in Int, s \cap pic = {x}
  PROVE  EoiOf(s, pic) = s \ {x}
BY MinOfOne DEF EoiOf

(* A genuine interrupt that found nothing in service leaves nothing in     *)
(* service: pic_send_eoi acknowledges both controllers for a slave line.   *)
LEMMA GenuineServed ==
  ASSUME NEW q \in Lines
  PROVE  AfterIrqHandler(q, {} \cup {q, OnMaster(q)}) = {}
<1>1. q \in (0 .. 15) /\ q # 2
  BY InterruptsAssumption
<1>2. CASE q \in Slave
  <2> DEFINE s == {} \cup {q, OnMaster(q)}
  <2>1. s = {q, 2}
    BY <1>2 DEF OnMaster, Cascade
  <2> HIDE DEF s
  <2>2. s \cap Slave = {q} /\ (s \ {q}) \cap Master = {2} /\ q # 7
    <3>1. q \in Slave /\ q \notin Master /\ 2 \notin Slave /\ 2 \in Master /\ q # 7
      BY <1>1, <1>2 DEF Slave, Master
    <3> QED BY <2>1, <3>1
  <2>3. EoiOf(s, Slave) = s \ {q} /\ EoiOf(s \ {q}, Master) = (s \ {q}) \ {2}
    BY <1>1, <2>2, EoiOfOne
  <2>4. AfterIrqHandler(q, s) = SendEoi(s, q)
    BY <2>1, <2>2 DEF AfterIrqHandler
  <2> QED BY <1>2, <2>1, <2>3, <2>4 DEF SendEoi, s
<1>3. CASE q \notin Slave
  <2> DEFINE s == {} \cup {q, OnMaster(q)}
  <2>1. s = {q}
    BY <1>3 DEF OnMaster
  <2> HIDE DEF s
  <2>2. s \cap Master = {q} /\ q # 15
    <3>1. q \in Master /\ q # 15
      BY <1>1, <1>3 DEF Slave, Master
    <3> QED BY <2>1, <3>1
  <2>3. EoiOf(s, Master) = s \ {q}
    BY <1>1, <2>2, EoiOfOne
  <2>4. AfterIrqHandler(q, s) = SendEoi(s, q)
    BY <2>1, <2>2 DEF AfterIrqHandler
  <2> QED BY <1>3, <2>1, <2>3, <2>4 DEF SendEoi, s
<1> QED BY <1>2, <1>3

(* A spurious one likewise: nothing was in service for a spurious 7, and a *)
(* spurious 15 put only the cascade line in service at the master.         *)
LEMMA SpuriousServed ==
  /\ AfterIrqHandler(15, {} \cup {Cascade}) = {}
  /\ AfterIrqHandler(7, {}) = {}
<1>1. {} \cup {Cascade} = {2} /\ {2} \cap Master = {2}
  BY DEF Cascade, Master
<1>2. EoiOf({2}, Master) = {2} \ {2}
  BY <1>1, EoiOfOne
<1>3. AfterIrqHandler(15, {2}) = EoiOf({2}, Master)
  BY DEF AfterIrqHandler
<1>4. AfterIrqHandler(7, {}) = {}
  BY DEF AfterIrqHandler
<1> QED BY <1>1, <1>2, <1>3, <1>4

(* InterruptsServed is inductive as it stands.                             *)
LEMMA InterruptsStep == InterruptsServed /\ [IrqNext]_irqVars => InterruptsServed'
<1> SUFFICES ASSUME InterruptsServed, [IrqNext]_irqVars PROVE InterruptsServed'
  OBVIOUS
<1> USE DEF InterruptsServed, NothingInService
<1>1. ASSUME NEW q \in Lines, Interrupt(q) PROVE InterruptsServed'
  BY <1>1, GenuineServed DEF Interrupt, UnmaskedReach, Unmasked
<1>2. ASSUME NEW q \in Lines, Spurious(q) PROVE InterruptsServed'
  <2>1. isr' = {}
    BY <1>2, SpuriousServed DEF Spurious
  <2> QED BY <1>2, <2>1 DEF Spurious, UnmaskedReach, Unmasked
<1>3. ASSUME NEW q \in Lines, Raise(q) PROVE InterruptsServed'
  BY <1>3 DEF Raise, UnmaskedReach, Unmasked
<1>4. ASSUME NEW q \in Lines, UnmaskIrq(q) PROVE InterruptsServed'
  BY <1>4 DEF UnmaskIrq, UnmaskedReach, Unmasked
<1>5. ASSUME NEW q \in Lines, MaskIrq(q) PROVE InterruptsServed'
  <2>1. q # Cascade
    BY InterruptsAssumption DEF Cascade
  <2> QED BY <1>5, <2>1 DEF MaskIrq, UnmaskedReach, Unmasked
<1>6. ASSUME NEW n \in Sleeps, SleepStart(n) PROVE InterruptsServed'
  BY <1>6 DEF SleepStart, UnmaskedReach, Unmasked
<1>7. CASE SleepTest
  BY <1>7 DEF SleepTest, UnmaskedReach, Unmasked
<1>8. CASE UNCHANGED irqVars
  BY <1>8 DEF irqVars, UnmaskedReach, Unmasked
<1> QED BY <1>1, <1>2, <1>3, <1>4, <1>5, <1>6, <1>7, <1>8 DEF IrqNext

(* No line is shut out: irq_handler acknowledges every interrupt it is     *)
(* called for, genuine or spurious, and no pic_mask_irq takes the cascade  *)
(* away from an unmasked line of the second controller.                    *)
THEOREM LinesServed == IrqSpec => []InterruptsServed
<1>1. IrqInit => InterruptsServed
  <2> SUFFICES ASSUME IrqInit, NEW q \in Lines, q \notin imr PROVE q \notin Slave
    BY DEF IrqInit, InterruptsServed, NothingInService, UnmaskedReach, Unmasked
  <2> QED BY InterruptsAssumption DEF IrqInit, Slave
<1> QED BY <1>1, InterruptsStep, PTL DEF IrqSpec

-----------------------------------------------------------------------------
(* The sleep.  While a caller of pit_sleep_ms has not returned, the        *)
(* difference of the two counter values is exactly the number of timer     *)
(* interrupts since it began, and a halted caller has not had its fill.    *)
Sleeper == [pc : {"awake", "test", "halted"}, ms : Nat, start : 0 .. (TickSpan - 1),
            need : 0 .. (TickSpan - 1)]

(* What is asked for in ticks, rounded down but at least one.              *)
Enough(ms, n) ==
  n >= 1 /\ (ms * TickRate < WordSpan => (n + 1) * 1000 > ms * TickRate)

SleepCounts ==
  /\ timerTicks \in 0 .. (TickSpan - 1)
  /\ slept \in 0 .. (TickSpan - 1)
  /\ sleeper \in Sleeper
  /\ 0 \in handlers
  /\ sleeper.pc # "awake" => slept = Elapsed
  /\ sleeper.pc = "halted" => slept < sleeper.need
  /\ sleeper.pc # "awake" => Enough(sleeper.ms, sleeper.need)

(* The conversion of pit_sleep_ms.                                         *)
LEMMA TicksAre ==
  ASSUME NEW ms \in Nat
  PROVE  Ticks(ms) \in 0 .. (TickSpan - 1) /\ Enough(ms, Ticks(ms))
<1>1. /\ TickSpan \in Nat \ {0, 1} /\ WordSpan \in Nat \ {0} /\ WordSpan <= 1000 * TickSpan
      /\ TickRate \in Nat
  BY InterruptsAssumption
<1>2. PICK x \in Nat : x = ms * TickRate
  BY <1>1
<1> DEFINE y == x % WordSpan
           t == y \div 1000
<1>3. y \in 0 .. (WordSpan - 1) /\ (x < WordSpan => y = x)
  BY <1>1
<1>4. Ticks(ms) = IF t = 0 THEN 1 ELSE t
  BY <1>2 DEF Ticks
<1> HIDE DEF y
<1>5. t \in Nat /\ 1000 * t <= y /\ y < 1000 * t + 1000
  BY <1>1, <1>3
<1> HIDE DEF t
<1>6. t \in 0 .. (TickSpan - 1)
  BY <1>1, <1>3, <1>5
<1>7. x < WordSpan => (t + 1) * 1000 > x
  BY <1>3, <1>5
<1>8. (t + 1) * 1000 > x => (Ticks(ms) + 1) * 1000 > x
  BY <1>2, <1>4, <1>5
<1>9. Ticks(ms) >= 1 /\ Ticks(ms) \in 0 .. (TickSpan - 1)
  BY <1>1, <1>4, <1>6
<1> QED BY <1>2, <1>7, <1>8, <1>9 DEF Enough

(* The modular arithmetic of the tick counter, without %.                  *)
LEMMA TickNext ==
  ASSUME NEW t \in 0 .. (TickSpan - 1)
  PROVE  (t + 1) % TickSpan = IF t = TickSpan - 1 THEN 0 ELSE t + 1
<1>1. CASE t = TickSpan - 1
  BY <1>1, InterruptsAssumption
<1>2. CASE t # TickSpan - 1
  BY <1>2, InterruptsAssumption
<1> QED BY <1>1, <1>2

LEMMA TickDiff ==
  ASSUME NEW t \in 0 .. (TickSpan - 1), NEW s \in 0 .. (TickSpan - 1)
  PROVE  (t - s) % TickSpan = IF t >= s THEN t - s ELSE t - s + TickSpan
<1>1. CASE t >= s
  BY <1>1, InterruptsAssumption
<1>2. CASE t < s
  BY <1>2, InterruptsAssumption
<1> QED BY <1>1, <1>2

(* One more tick is one more in the difference, also over the wrap, as     *)
(* long as the difference itself does not wrap.                            *)
LEMMA TickCounted ==
  ASSUME NEW t \in 0 .. (TickSpan - 1), NEW s \in 0 .. (TickSpan - 1),
         (t - s) % TickSpan < TickSpan - 1
  PROVE  (((t + 1) % TickSpan) - s) % TickSpan = ((t - s) % TickSpan) + 1
<1> DEFINE u == (t + 1) % TickSpan
<1>1. u = (IF t = TickSpan - 1 THEN 0 ELSE t + 1) /\ u \in 0 .. (TickSpan - 1)
  BY TickNext, InterruptsAssumption
<1>2. (u - s) % TickSpan = IF u >= s THEN u - s ELSE u - s + TickSpan
  BY <1>1, TickDiff
<1>3. (t - s) % TickSpan = IF t >= s THEN t - s ELSE t - s + TickSpan
  BY TickDiff
<1> HIDE DEF u
<1>4. (u - s) % TickSpan = ((t - s) % TickSpan) + 1
  BY <1>1, <1>2, <1>3, InterruptsAssumption
<1> QED BY <1>4 DEF u

LEMMA SleepStep == SleepCounts /\ [IrqNext]_irqVars => SleepCounts'
<1> SUFFICES ASSUME SleepCounts, [IrqNext]_irqVars PROVE SleepCounts'
  OBVIOUS
<1> USE DEF SleepCounts
<1>0. TickSpan \in Nat \ {0}
  BY InterruptsAssumption
<1>1. ASSUME NEW q \in Lines, Interrupt(q) PROVE SleepCounts'
  <2>1. /\ sleeper' \in Sleeper /\ sleeper'.start = sleeper.start
        /\ sleeper'.need = sleeper.need /\ sleeper'.ms = sleeper.ms /\ sleeper'.pc # "halted"
        /\ sleeper'.pc = "awake" <=> sleeper.pc = "awake"
    BY <1>1 DEF Interrupt, Woken, Sleeper
  <2>2. CASE q # 0
    <3>1. UNCHANGED <<timerTicks, slept, handlers>>
      BY <1>1, <2>2 DEF Interrupt
    <3> QED BY <2>1, <3>1 DEF Elapsed
  <2>3. CASE q = 0
    <3>1. /\ timerTicks' = (timerTicks + 1) % TickSpan
          /\ slept' = IF slept < TickSpan - 1 THEN slept + 1 ELSE slept
          /\ handlers' = handlers
      BY <1>1, <2>3 DEF Interrupt
    <3>2. timerTicks' \in 0 .. (TickSpan - 1)
      BY <1>0, <3>1, TickNext
    <3>3. slept' \in 0 .. (TickSpan - 1)
      BY <1>0, <3>1
    <3>4. ASSUME sleeper.pc # "awake" PROVE slept' = Elapsed'
      <4>1. slept < TickSpan - 1
        <5>1. sleeper.pc = "test" => slept < TickSpan - 1
          BY <1>1, <2>3 DEF Interrupt, InTime
        <5>2. sleeper.pc = "halted" => slept < TickSpan - 1
          BY <1>0 DEF Sleeper
        <5> QED BY <3>4, <5>1, <5>2 DEF Sleeper
      <4>2. sleeper.start \in 0 .. (TickSpan - 1) /\ slept = Elapsed
        BY <3>4 DEF Sleeper
      <4>3. Elapsed' = Elapsed + 1
        BY <2>1, <3>1, <4>1, <4>2, TickCounted DEF Elapsed
      <4> QED BY <3>1, <4>1, <4>2, <4>3
    <3> QED BY <2>1, <3>1, <3>2, <3>3, <3>4
  <2> QED BY <2>2, <2>3
<1>2. ASSUME NEW q \in Lines, Spurious(q) PROVE SleepCounts'
  <2>1. /\ sleeper' \in Sleeper /\ sleeper'.start = sleeper.start
        /\ sleeper'.need = sleeper.need /\ sleeper'.ms = sleeper.ms /\ sleeper'.pc # "halted"
        /\ sleeper'.pc = "awake" <=> sleeper.pc = "awake"
    BY <1>2 DEF Spurious, Woken, Sleeper
  <2> QED BY <1>2, <2>1 DEF Spurious, Elapsed
<1>3. ASSUME NEW q \in Lines, Raise(q) PROVE SleepCounts'
  BY <1>3 DEF Raise, Elapsed
<1>4. ASSUME NEW q \in Lines, UnmaskIrq(q) PROVE SleepCounts'
  BY <1>4 DEF UnmaskIrq, Elapsed
<1>5. ASSUME NEW q \in Lines, MaskIrq(q) PROVE SleepCounts'
  BY <1>5 DEF MaskIrq, Elapsed
<1>6. ASSUME NEW n \in Sleeps, SleepStart(n) PROVE SleepCounts'
  <2>1. /\ sleeper' \in Sleeper /\ sleeper'.pc = "test"
        /\ sleeper'.start = timerTicks /\ timerTicks' = timerTicks
        /\ slept' = 0 /\ handlers' = handlers /\ Enough(sleeper'.ms, sleeper'.need)
    <3>1. n \in Nat
      BY InterruptsAssumption
    <3>2. Ticks(n) \in 0 .. (TickSpan - 1) /\ Enough(n, Ticks(n))
      BY <3>1, TicksAre
    <3> QED BY <1>0, <1>6, <3>1, <3>2 DEF SleepStart, Sleeper
  <2>2. Elapsed' = 0
    BY <1>0, <2>1, TickDiff DEF Elapsed
  <2> QED BY <1>0, <2>1, <2>2
<1>7. CASE SleepTest
  <2>1. /\ sleeper' \in Sleeper /\ sleeper'.start = sleeper.start
        /\ sleeper'.need = sleeper.need /\ sleeper'.ms = sleeper.ms /\ slept = Elapsed
        /\ sleeper.pc # "awake" /\ (sleeper'.pc = "halted" => Elapsed < sleeper.need)
    BY <1>7 DEF SleepTest, Sleeper
  <2>2. UNCHANGED <<timerTicks, slept, handlers>>
    BY <1>7 DEF SleepTest
  <2>3. Elapsed' = Elapsed
    BY <2>1, <2>2 DEF Elapsed
  <2> QED BY <2>1, <2>2, <2>3
<1>8. CASE UNCHANGED irqVars
  BY <1>8 DEF irqVars, Elapsed
<1> QED BY <1>1, <1>2, <1>3, <1>4, <1>5, <1>6, <1>7, <1>8 DEF IrqNext

(* pit_sleep_ms never returns a tick early, whatever interrupts wake it    *)
(* and wherever timer_ticks wraps: SleepTest is the only step that ends    *)
(* it.  Sleeps whose product does not fit the word are left out.           *)
THEOREM SleepIsFull == IrqSpec => SleepFull
<1>1. IrqInit => SleepCounts
  BY InterruptsAssumption DEF IrqInit, SleepCounts, Sleeper
<1> DEFINE Done == /\ slept >= 1
                   /\ sleeper.ms * TickRate < WordSpan
                        => (slept + 1) * 1000 > sleeper.ms * TickRate
<1>2. SleepCounts /\ [IrqNext]_irqVars =>
        [sleeper.pc = "test" /\ sleeper'.pc = "awake" => Done]_irqVars
  <2> SUFFICES ASSUME SleepCounts, IrqNext, sleeper.pc = "test", sleeper'.pc = "awake"
               PROVE  Done
    BY DEF SleepCounts
  <2>1. SleepTest
    BY DEF IrqNext, Interrupt, Spurious, Woken, Raise, UnmaskIrq, MaskIrq, SleepStart
  <2>2. ~(Elapsed < sleeper.need) /\ slept = Elapsed
    BY <2>1 DEF SleepTest, SleepCounts, Sleeper
  <2>3. slept >= sleeper.need /\ sleeper.need \in Nat /\ slept \in Nat
    BY <2>2, InterruptsAssumption DEF SleepCounts, Sleeper
  <2>4. Enough(sleeper.ms, sleeper.need)
    BY DEF SleepCounts
  <2>5. PICK x \in Nat : x = sleeper.ms * TickRate
    BY InterruptsAssumption DEF SleepCounts, Sleeper
  <2>6. sleeper.need >= 1 /\ (x < WordSpan => (sleeper.need + 1) * 1000 > x)
    BY <2>4, <2>5 DEF Enough
  <2>7. slept >= 1 /\ (x < WordSpan => (slept + 1) * 1000 > x)
    BY <2>3, <2>6
  <2> QED BY <2>5, <2>7
<1> QED BY <1>1, <1>2, SleepStep, PTL DEF IrqSpec, SleepFull

-----------------------------------------------------------------------------
(*                          The process scheduler                          *)

(* A process that does not have the CPU keeps a whole quantum; within a    *)
(* window of a system call the quantum of the chosen process is counted    *)
(* down by nothing but the timer interrupts that hit the window.           *)
QuantaKept ==
  /\ remaining \in [Tasks -> 0 .. Quantum]
  /\ \A t \in Tasks \ {current} : remaining[t] = Quantum
  /\ nested \in 0 .. MaxNested
  /\ target # None => remaining[current] = Quantum - nested

LinksTyped ==
  /\ current \in Tasks /\ running \in Tasks
  /\ next \in [Tasks -> Tasks \cup {None}]
  /\ saved \in [Tasks -> Tasks]
  /\ target # None => target \in Tasks
  /\ building[2] # 0 => building[1] \in Tasks

ContextsInv == LinksTyped /\ QuantaKept /\ ContextsOwn

(* What schedule() makes of the quanta.                                    *)
LEMMA UsedTicksIs ==
  ASSUME ContextsInv
  PROVE  /\ UsedTicks \in [Tasks -> 0 .. Quantum]
         /\ \A t \in Tasks \ {current} : UsedTicks[t] = Quantum
         /\ Switches => next[current] \in Tasks /\ UsedTicks[current] = Quantum
         /\ remaining[current] > 0 => UsedTicks[current] = remaining[current] - 1
<1>1. /\ current \in Tasks /\ remaining \in [Tasks -> 0 .. Quantum] /\ Quantum \in Nat
      /\ \A t \in Tasks \ {current} : remaining[t] = Quantum
      /\ next[current] \in Tasks \cup {None}
  BY ProcessesAssumption DEF ContextsInv, LinksTyped, QuantaKept
<1>2. UsedTicks \in [Tasks -> 0 .. Quantum]
  BY <1>1 DEF UsedTicks
<1> QED BY <1>1, <1>2 DEF UsedTicks, Switches

(* switch_to from the stack that is running to a task whose context is its *)
(* own: that task runs, in its own directory unless it is the idle task,   *)
(* whose directory is none.                                                *)
LEMMA SwitchOwn ==
  ASSUME ContextsInv, Alive, NEW n \in Tasks, SwitchTo(running, n)
  PROVE  /\ saved' = saved /\ running' = n
         /\ pdbr' # None => pdbr' = IF n = idle THEN "kernel" ELSE n
<1>1. running \in Tasks /\ saved \in [Tasks -> Tasks] /\ \A t \in Tasks : saved[t] = t
  BY DEF ContextsInv, LinksTyped, ContextsOwn
<1>2. saved' = saved
  BY <1>1 DEF SwitchTo
<1>3. running' = n
  BY <1>1 DEF SwitchTo
<1> QED BY <1>2, <1>3 DEF SwitchTo, Cr3Of

(* schedule() called by the running process: its test of the quantum.       *)
LEMMA ScheduleStep ==
  ASSUME ContextsInv, Alive, target = None, ScheduleCall
  PROVE  ContextsInv'
<1>1. /\ UsedTicks \in [Tasks -> 0 .. Quantum]
      /\ \A t \in Tasks \ {current} : UsedTicks[t] = Quantum
  BY UsedTicksIs
<1>2. /\ remaining' \in [Tasks -> 0 .. Quantum]
      /\ \A t \in Tasks \ {current} : remaining'[t] = Quantum
  BY <1>1 DEF ScheduleCall, ContextsInv, QuantaKept
<1> QED BY <1>2 DEF ScheduleCall, ContextsInv, LinksTyped, QuantaKept, ContextsOwn, Alive

(* The rest of it before switch_to: what it chooses has a whole quantum, and *)
(* so has the process it leaves.                                            *)
LEMMA ChooseStep == ContextsInv /\ Choose => ContextsInv'
<1> SUFFICES ASSUME ContextsInv, Choose PROVE ContextsInv'
  OBVIOUS
<1> USE DEF ContextsInv, LinksTyped, QuantaKept, ContextsOwn, Alive
<1>1. /\ current \in Tasks /\ Quantum \in Nat /\ MaxNested \in 0 .. Quantum
      /\ remaining' = [remaining EXCEPT ![current] = Quantum]
      /\ running = current /\ nested' = 0
      /\ UNCHANGED <<next, running, saved, pdbr, building>>
  BY ProcessesAssumption DEF Choose
<1>2. remaining' \in [Tasks -> 0 .. Quantum] /\ \A t \in Tasks : remaining'[t] = Quantum
  BY <1>1
<1>3. CASE next[current] \notin {None, current}
  <2>1. /\ current' = next[current] /\ target' = next[current]
        /\ next[current] \in Tasks /\ target' # None
    BY <1>1, <1>3 DEF Choose
  <2> QED BY <1>1, <1>2, <2>1 DEF Choose
<1>4. CASE next[current] \in {None, current}
  <2>1. UNCHANGED <<current, target>> /\ target = None
    BY <1>4 DEF Choose
  <2> QED BY <1>1, <1>2, <2>1 DEF Choose
<1> QED BY <1>3, <1>4

LEMMA ContextsStep == ContextsInv /\ [ProcNext]_procVars => ContextsInv'
<1> SUFFICES ASSUME ContextsInv, [ProcNext]_procVars PROVE ContextsInv'
  OBVIOUS
<1>0. Quantum \in Nat /\ MaxNested \in 0 .. Quantum /\ nested \in 0 .. MaxNested
  BY ProcessesAssumption DEF ContextsInv, QuantaKept
<1>1. CASE TimerTick
  <2>0. /\ remaining' \in [Tasks -> 0 .. Quantum]
        /\ \A t \in Tasks \ {current} : remaining'[t] = Quantum
        /\ Switches => next[current] \in Tasks /\ remaining'[current] = Quantum
        /\ remaining[current] > 0 => remaining'[current] = remaining[current] - 1
    BY <1>1, UsedTicksIs DEF TimerTick
  <2>1. CASE target # None
    <3>1. nested < MaxNested /\ remaining[current] = Quantum - nested
      BY <1>1, <2>1 DEF TimerTick, ContextsInv, QuantaKept
    <3>2. remaining[current] > 0
      BY <1>0, <3>1
    <3>3. ~Switches /\ remaining'[current] = Quantum - (nested + 1)
      BY <1>0, <2>0, <3>1, <3>2 DEF Switches
    <3>4. /\ UNCHANGED <<current, running, saved, pdbr, target, next, building>>
          /\ nested' = nested + 1
      BY <1>1, <2>1, <3>3 DEF TimerTick
    <3>5. nested' \in 0 .. MaxNested
      BY <1>0, <3>1, <3>4
    <3>6. QuantaKept'
      BY <2>0, <3>3, <3>4, <3>5 DEF QuantaKept
    <3> QED BY <3>4, <3>6 DEF ContextsInv, LinksTyped, ContextsOwn, Alive
  <2>2. CASE target = None /\ Switches
    <3>1. /\ running = current /\ Alive /\ next[current] \in Tasks
          /\ current' = next[current] /\ SwitchTo(running, next[current])
          /\ target' = None /\ nested' = 0 /\ UNCHANGED <<next, building>>
      BY <1>1, <2>0, <2>2 DEF TimerTick, ContextsInv, ContextsOwn
    <3>2. /\ saved' = saved /\ running' = next[current]
          /\ pdbr' # None =>
               pdbr' = IF next[current] = idle THEN "kernel" ELSE next[current]
      BY <3>1, SwitchOwn
    <3>3. QuantaKept'
      BY <1>0, <2>0, <2>2, <3>1 DEF QuantaKept
    <3> QED BY <3>1, <3>2, <3>3 DEF ContextsInv, LinksTyped, ContextsOwn, Alive
  <2>3. CASE target = None /\ ~Switches
    <3>1. /\ UNCHANGED <<current, running, saved, pdbr, target, next, building>>
          /\ nested' = 0
      BY <1>1, <2>3 DEF TimerTick
    <3>2. QuantaKept'
      BY <1>0, <2>0, <2>3, <3>1 DEF QuantaKept
    <3> QED BY <3>1, <3>2 DEF ContextsInv, LinksTyped, ContextsOwn, Alive
  <2> QED BY <2>1, <2>2, <2>3
<1>2. CASE FinishSwitch
  <2>1. /\ Alive /\ target # None /\ target \in Tasks /\ current = target
        /\ SwitchTo(running, target)
        /\ target' = None /\ nested' = 0 /\ UNCHANGED <<next, remaining, current, building>>
    BY <1>2 DEF FinishSwitch, ContextsInv, LinksTyped, ContextsOwn
  <2>2. /\ saved' = saved /\ running' = target
        /\ pdbr' # None => pdbr' = IF target = idle THEN "kernel" ELSE target
    BY <2>1, SwitchOwn
  <2>3. QuantaKept'
    BY <1>0, <2>1 DEF ContextsInv, QuantaKept
  <2> QED BY <2>1, <2>2, <2>3 DEF ContextsInv, LinksTyped, ContextsOwn, Alive
<1>3. CASE SysYield \/ SysExit
  BY <1>3, ScheduleStep DEF SysYield, SysExit, MayCall
<1>8. CASE Choose
  BY <1>8, ChooseStep
<1>4. ASSUME NEW p \in Procs, LinkNew(p) PROVE ContextsInv'
  <2>1. p \in Tasks /\ idle \in Tasks
    BY DEF Tasks
  <2> QED BY <1>4, <2>1 DEF LinkNew, Building, ContextsInv, LinksTyped, QuantaKept,
                            ContextsOwn, Alive
<1>5. CASE LinkList
  BY <1>5 DEF LinkList, Building, ContextsInv, LinksTyped, QuantaKept, ContextsOwn, Alive
<1>6. CASE MarkReady
  BY <1>6 DEF MarkReady, Building, ContextsInv, LinksTyped, QuantaKept, ContextsOwn, Alive
<1>7. CASE UNCHANGED procVars
  BY <1>7 DEF procVars, ContextsInv, LinksTyped, QuantaKept, ContextsOwn, Alive
<1> QED BY <1>1, <1>2, <1>3, <1>4, <1>5, <1>6, <1>7, <1>8 DEF ProcNext

LEMMA ContextsStart == ProcInit => ContextsInv
<1> SUFFICES ASSUME ProcInit PROVE ContextsInv
  OBVIOUS
<1>1. LinksTyped
  BY DEF ProcInit, LinksTyped, Tasks
<1>2. QuantaKept
  BY ProcessesAssumption DEF ProcInit, QuantaKept
<1>3. ContextsOwn
  BY DEF ProcInit, ContextsOwn
<1> QED BY <1>1, <1>2, <1>3 DEF ContextsInv

(* The tasks linked by next from the idle process on come back to it after *)
(* n steps, none twice.                                                    *)
IsCycle(n, q) ==
  /\ n \in Nat \ {0} /\ q \in [1 .. n -> Tasks]
  /\ q[1] = idle
  /\ \A i \in 1 .. n : \A j \in 1 .. n : q[i] = q[j] => i = j
  /\ \A i \in 1 .. n : next[q[i]] = IF i = n THEN idle ELSE q[i+1]

(* The process that is linked to the ring but not yet from it.             *)
NotYet(n, q) == building[2] = 1 =>
  /\ building[1] \in Procs
  /\ next[building[1]] = next[idle]
  /\ \A i \in 1 .. n : q[i] # building[1]

TaskStates == {"NEW", "READY", "RUNNING"}

RingIs ==
  /\ \E n \in Nat \ {0} : \E q \in [1 .. n -> Tasks] : IsCycle(n, q) /\ NotYet(n, q)
  /\ state \in [Tasks -> TaskStates]
  /\ \A t \in Tasks : state[t] = "RUNNING" => t = current

(* One step further round a cycle of n.                                    *)
LEMMA ModNext ==
  ASSUME NEW n \in Nat \ {0}, NEW k \in Nat
  PROVE  /\ k % n \in 0 .. (n - 1)
         /\ (k + 1) % n = IF k % n = n - 1 THEN 0 ELSE (k % n) + 1
<1> DEFINE d == k \div n
           m == k % n
           e == (k + 1) \div n
           r == (k + 1) % n
<1>1. d \in Int /\ m \in 0 .. (n - 1) /\ k = n * d + m
  OBVIOUS
<1>2. e \in Int /\ r \in 0 .. (n - 1) /\ k + 1 = n * e + r
  OBVIOUS
<1> HIDE DEF d, m, e, r
<1>3. n * (e - d) = m + 1 - r
  BY <1>1, <1>2
<1>4. PICK x \in Int : x = e - d
  BY <1>1, <1>2
<1>5. n * x = m + 1 - r
  BY <1>3, <1>4
<1>6. CASE x <= -1
  <2>1. n * x <= -n
    BY <1>6
  <2> QED BY <1>1, <1>2, <1>5, <2>1
<1>7. CASE x = 0
  BY <1>1, <1>2, <1>5, <1>7
<1>8. CASE x = 1
  BY <1>1, <1>2, <1>5, <1>8
<1>9. CASE x >= 2
  <2>1. n * x >= 2 * n
    BY <1>9
  <2> QED BY <1>1, <1>2, <1>5, <2>1
<1>10. r = IF m = n - 1 THEN 0 ELSE m + 1
  BY <1>1, <1>2, <1>4, <1>5, <1>6, <1>7, <1>8, <1>9
<1> QED BY <1>1, <1>10 DEF m, r

(* Reach goes round the cycle.                                             *)
LEMMA ReachIs ==
  ASSUME NEW n \in Nat \ {0}, NEW q \in [1 .. n -> Tasks], IsCycle(n, q)
  PROVE  \A k \in 0 .. Cardinality(Tasks) : Reach[k] = q[(k % n) + 1]
<1> DEFINE C == Cardinality(Tasks)
           g == [k \in 0 .. C |-> q[(k % n) + 1]]
<1>0. C \in Nat
  <2>1. IsFiniteSet(Tasks)
    BY ProcessesAssumption, FS_AddElement DEF Tasks
  <2> QED BY <2>1, FS_CardinalityType
<1> HIDE DEF C
<1>1. \A k \in 0 .. C : g[k] \in Tasks /\ g[k] # None
  <2> SUFFICES ASSUME NEW k \in 0 .. C PROVE g[k] \in Tasks /\ g[k] # None
    OBVIOUS
  <2>0. k \in Nat
    BY <1>0
  <2>1. k % n \in 0 .. (n - 1)
    BY <2>0, ModNext
  <2>2. g[k] = q[(k % n) + 1] /\ (k % n) + 1 \in 1 .. n
    BY <2>1
  <2> QED BY <2>2, ProcessesAssumption
<1>2. ASSUME NEW k \in 0 .. C
      PROVE  g[k] = IF k = 0 THEN idle
                    ELSE IF g[k-1] = None THEN None ELSE next[g[k-1]]
  <2>1. CASE k = 0
    <3>1. 0 % n = 0 /\ g[0] = q[(0 % n) + 1]
      BY <1>0
    <3> QED BY <2>1, <3>1 DEF IsCycle
  <2>2. CASE k # 0
    <3> DEFINE m == (k - 1) % n
    <3>1. k - 1 \in Nat /\ k - 1 \in 0 .. C
      BY <1>0, <2>2
    <3>2. /\ m \in 0 .. (n - 1)
          /\ ((k - 1) + 1) % n = IF m = n - 1 THEN 0 ELSE m + 1
      BY <3>1, ModNext
    <3>3. k % n = IF m = n - 1 THEN 0 ELSE m + 1
      <4>1. (k - 1) + 1 = k
        BY <1>0
      <4> QED BY <3>2, <4>1
    <3>4. g[k - 1] = q[m + 1] /\ g[k] = q[(k % n) + 1] /\ g[k - 1] # None
      BY <1>1, <3>1
    <3> HIDE DEF m, g
    <3>5. next[q[m + 1]] = IF m + 1 = n THEN idle ELSE q[(m + 1) + 1]
      BY <3>2 DEF IsCycle
    <3>6. next[q[m + 1]] = q[(k % n) + 1]
      <4>1. CASE m = n - 1
        BY <3>2, <3>3, <3>5, <4>1 DEF IsCycle
      <4>2. CASE m # n - 1
        BY <3>2, <3>3, <3>5, <4>2
      <4> QED BY <4>1, <4>2
    <3> QED BY <2>2, <3>4, <3>6
  <2> QED BY <2>1, <2>2
<1>3. g = [k \in 0 .. C |-> IF k = 0 THEN idle
                            ELSE IF g[k-1] = None THEN None ELSE next[g[k-1]]]
  BY <1>2
<1>4. Reach = [k \in 0 .. C |-> IF k = 0 THEN idle
                                ELSE IF Reach[k-1] = None THEN None ELSE next[Reach[k-1]]]
  <2> HIDE DEF g
  <2> QED BY <1>3 DEF Reach, C
<1> HIDE DEF g
<1>5. ASSUME NEW k \in 0 .. C, Reach[k] # g[k] PROVE FALSE
  <2> DEFINE Bad == {i \in 0 .. C : Reach[i] # g[i]}
             b == Min(Bad)
  <2>1. b \in Bad /\ \A i \in Bad : b <= i
    <3>1. Bad \in SUBSET Nat /\ Bad # {}
      BY <1>0, <1>5
    <3> HIDE DEF Bad
    <3> QED BY <3>1, LeastElement
  <2>2. b \in 0 .. C /\ Reach[b] # g[b]
    <3> HIDE DEF b
    <3> QED BY <2>1
  <2>3. b # 0
    BY <1>0, <1>3, <1>4, <2>2
  <2>4. b - 1 \in 0 .. C /\ b - 1 \notin Bad
    <3> HIDE DEF b
    <3> QED BY <1>0, <2>1, <2>2, <2>3
  <2>5. Reach[b - 1] = g[b - 1]
    <3> HIDE DEF b
    <3> QED BY <2>4
  <2> HIDE DEF b, Bad
  <2>6. Reach[b] = g[b]
    BY <1>3, <1>4, <2>2, <2>3, <2>5
  <2> QED BY <2>2, <2>6
<1> QED BY <1>5 DEF g, C

(* A cycle is no longer than there are tasks, and it is what Reach sees.   *)
LEMMA CycleCloses == ContextsInv /\ RingIs => RingClosed
<1> SUFFICES ASSUME ContextsInv, RingIs PROVE RingClosed
  OBVIOUS
<1>1. PICK n \in Nat \ {0} : \E q \in [1 .. n -> Tasks] : IsCycle(n, q)
  BY DEF RingIs
<1>2. PICK q \in [1 .. n -> Tasks] : IsCycle(n, q)
  BY <1>1
<1>3. IsFiniteSet(Tasks) /\ Cardinality(Tasks) = Cardinality(Procs) + 1
      /\ Cardinality(Procs) \in Nat
  BY ProcessesAssumption, FS_AddElement, FS_CardinalityType DEF Tasks
<1>4. n <= Cardinality(Tasks)
  <2>1. q \in Injection(1 .. n, Tasks)
    BY <1>2 DEF IsCycle, Injection, IsInjective
  <2>2. Cardinality(1 .. n) <= Cardinality(Tasks)
    BY <1>3, <2>1, FS_Injection
  <2> QED BY <2>2, FS_Interval
<1>5. \A k \in 0 .. Cardinality(Tasks) : Reach[k] \in Tasks
  <2> SUFFICES ASSUME NEW k \in 0 .. Cardinality(Tasks) PROVE Reach[k] \in Tasks
    OBVIOUS
  <2>1. k \in Nat /\ k % n \in 0 .. (n - 1)
    BY <1>3, ModNext
  <2>2. Reach[k] = q[(k % n) + 1] /\ (k % n) + 1 \in 1 .. n
    BY <1>2, <2>1, ReachIs
  <2> QED BY <2>2
<1>6. Reach[n] = idle /\ n \in 1 .. Cardinality(Tasks)
  <2>1. n \in 0 .. Cardinality(Tasks) /\ n \in 1 .. Cardinality(Tasks)
    BY <1>3, <1>4
  <2>2. Reach[n] = q[(n % n) + 1]
    BY <1>2, <2>1, ReachIs
  <2>3. n % n = 0
    OBVIOUS
  <2> QED BY <1>2, <2>1, <2>2, <2>3 DEF IsCycle
<1> DEFINE ring == {Reach[k] : k \in 0 .. Cardinality(Procs)}
<1>7. \A t \in ring : t \in Tasks
  BY <1>3, <1>5
<1>8. \A t \in ring : state[t] = "RUNNING" => t = current
  BY <1>7 DEF RingIs
<1> QED BY <1>6, <1>7, <1>8, ProcessesAssumption DEF RingClosed

(* While next and building stay, so does the cycle.                        *)
LEMMA CycleKept ==
  ASSUME RingIs, UNCHANGED <<next, building>>
  PROVE  \E n \in Nat \ {0} : \E q \in [1 .. n -> Tasks] : (IsCycle(n, q) /\ NotYet(n, q))'
<1>1. PICK n \in Nat \ {0} : \E q \in [1 .. n -> Tasks] : IsCycle(n, q) /\ NotYet(n, q)
  BY DEF RingIs
<1>2. PICK q \in [1 .. n -> Tasks] : IsCycle(n, q) /\ NotYet(n, q)
  BY <1>1
<1>3. (IsCycle(n, q) /\ NotYet(n, q))'
  BY <1>2 DEF IsCycle, NotYet
<1> QED BY <1>3

(* schedule() leaves one task marked as running, the one it chose.         *)
LEMMA TurnedIs ==
  ASSUME RingIs, NEW n \in Tasks
  PROVE  /\ Turned(n) \in [Tasks -> TaskStates]
         /\ \A t \in Tasks : Turned(n)[t] = "RUNNING" => t = n
  BY DEF RingIs, Turned, TaskStates

LEMMA RingStep == ContextsInv /\ RingIs /\ [ProcNext]_procVars => RingIs'
<1> SUFFICES ASSUME ContextsInv, RingIs, [ProcNext]_procVars PROVE RingIs'
  OBVIOUS
<1>0. Switches => next[current] \in Tasks
  BY UsedTicksIs
<1>1. CASE TimerTick
  <2>1. UNCHANGED <<next, building>>
    BY <1>1 DEF TimerTick
  <2>2. \/ UNCHANGED <<state, current>>
        \/ /\ current' \in Tasks /\ state' = Turned(current')
    BY <1>0, <1>1 DEF TimerTick
  <2> QED BY <2>1, <2>2, CycleKept, TurnedIs DEF RingIs
<1>2. CASE FinishSwitch
  BY <1>2, CycleKept DEF FinishSwitch, RingIs
<1>3. CASE SysYield \/ SysExit
  <2>1. UNCHANGED <<next, building, state, current>>
    BY <1>3 DEF SysYield, SysExit, ScheduleCall
  <2> QED BY <2>1, CycleKept DEF RingIs
<1>8. CASE Choose
  <2>1. UNCHANGED <<next, building>>
    BY <1>8 DEF Choose
  <2>2. \/ UNCHANGED <<state, current>>
        \/ /\ current' \in Tasks /\ state' = Turned(current')
    BY <1>8 DEF Choose, ContextsInv, LinksTyped
  <2> QED BY <2>1, <2>2, CycleKept, TurnedIs DEF RingIs
<1>4. ASSUME NEW p \in Procs, LinkNew(p) PROVE RingIs'
  <2>1. PICK n \in Nat \ {0} : \E q \in [1 .. n -> Tasks] : IsCycle(n, q)
    BY DEF RingIs
  <2>2. PICK q \in [1 .. n -> Tasks] : IsCycle(n, q)
    BY <2>1
  <2>3. /\ next[p] = None /\ p \in Tasks /\ p # idle /\ idle \in Tasks
        /\ next' = [next EXCEPT ![p] = next[idle]] /\ building' = <<p, 1>>
        /\ next \in [Tasks -> Tasks \cup {None}]
        /\ UNCHANGED <<state, current>>
    BY <1>4, ProcessesAssumption DEF LinkNew, Building, Tasks, ContextsInv, LinksTyped
  <2>4. \A i \in 1 .. n : q[i] # p
    <3> SUFFICES ASSUME NEW i \in 1 .. n PROVE q[i] # p
      OBVIOUS
    <3>1. next[q[i]] \in Tasks
      <4>1. CASE i = n
        BY <2>2, <2>3, <4>1 DEF IsCycle
      <4>2. CASE i # n
        <5>1. i + 1 \in 1 .. n
          BY <4>2
        <5> QED BY <2>2, <4>2, <5>1 DEF IsCycle
      <4> QED BY <4>1, <4>2
    <3> QED BY <2>3, <3>1, ProcessesAssumption
  <2>5. \A i \in 1 .. n : next'[q[i]] = next[q[i]]
    BY <2>3, <2>4
  <2>6. IsCycle(n, q)'
    BY <2>2, <2>5 DEF IsCycle
  <2>7. NotYet(n, q)'
    BY <1>4, <2>3, <2>4 DEF NotYet
  <2> QED BY <2>3, <2>6, <2>7 DEF RingIs
<1>5. CASE LinkList
  <2>1. PICK n \in Nat \ {0} : \E q \in [1 .. n -> Tasks] : IsCycle(n, q) /\ NotYet(n, q)
    BY DEF RingIs
  <2>2. PICK q \in [1 .. n -> Tasks] : IsCycle(n, q) /\ NotYet(n, q)
    BY <2>1
  <2>3. PICK p : p = building[1]
    OBVIOUS
  <2> DEFINE r == [i \in 1 .. (n + 1) |-> IF i = 1 THEN idle
                                          ELSE IF i = 2 THEN p ELSE q[i - 1]]
  <2>4. /\ p \in Tasks /\ p # idle /\ next[p] = next[idle]
        /\ \A i \in 1 .. n : q[i] # p
    BY <1>5, <2>3, <2>2, ProcessesAssumption DEF LinkList, NotYet, Tasks
  <2>5. /\ next' = [next EXCEPT ![idle] = p] /\ building' = <<p, 2>>
        /\ next \in [Tasks -> Tasks \cup {None}] /\ idle \in Tasks
        /\ UNCHANGED <<state, current>>
    BY <1>5, <2>3 DEF LinkList, Building, Tasks, ContextsInv, LinksTyped
  <2>6. /\ n + 1 \in Nat \ {0} /\ r \in [1 .. (n + 1) -> Tasks]
        /\ r[1] = idle /\ r[2] = p
        /\ \A i \in 3 .. (n + 1) : i - 1 \in 2 .. n /\ r[i] = q[i - 1]
    BY <2>4, <2>5
  <2>7. \A i \in 2 .. n : q[i] # idle
    BY <2>2 DEF IsCycle
  <2> HIDE DEF r
  <2>8. \A i \in 1 .. (n + 1) : i = 1 \/ i = 2 \/ i \in 3 .. (n + 1)
    OBVIOUS
  <2>9. ASSUME NEW i \in 1 .. (n + 1), NEW j \in 1 .. (n + 1), r[i] = r[j] PROVE i = j
    <3>1. CASE i \in 3 .. (n + 1) /\ j \in 3 .. (n + 1)
      <4>1. q[i - 1] = q[j - 1] /\ i - 1 \in 1 .. n /\ j - 1 \in 1 .. n
        BY <2>6, <2>9, <3>1
      <4>2. i - 1 = j - 1
        BY <2>2, <4>1 DEF IsCycle
      <4> QED BY <4>2
    <3>2. CASE i \in 3 .. (n + 1) /\ (j = 1 \/ j = 2)
      <4>1. r[i] = q[i - 1] /\ i - 1 \in 2 .. n /\ i - 1 \in 1 .. n
        BY <2>6, <3>2
      <4> QED BY <2>4, <2>6, <2>7, <2>9, <3>2, <4>1
    <3>3. CASE j \in 3 .. (n + 1) /\ (i = 1 \/ i = 2)
      <4>1. r[j] = q[j - 1] /\ j - 1 \in 2 .. n /\ j - 1 \in 1 .. n
        BY <2>6, <3>3
      <4> QED BY <2>4, <2>6, <2>7, <2>9, <3>3, <4>1
    <3>4. CASE (i = 1 \/ i = 2) /\ (j = 1 \/ j = 2)
      BY <2>4, <2>6, <2>9, <3>4
    <3> QED BY <2>8, <3>1, <3>2, <3>3, <3>4
  <2>10. ASSUME NEW i \in 1 .. (n + 1)
        PROVE  next'[r[i]] = IF i = n + 1 THEN idle ELSE r[i + 1]
    <3>1. CASE i = 1
      BY <2>5, <2>6, <3>1
    <3>2. CASE i = 2
      <4>1. next'[r[2]] = next[idle]
        BY <2>4, <2>5, <2>6
      <4>2. next[idle] = IF 1 = n THEN idle ELSE q[2]
        BY <2>2 DEF IsCycle
      <4>3. CASE n = 1
        BY <3>2, <4>1, <4>2, <4>3
      <4>4. CASE n # 1
        <5>1. 3 \in 3 .. (n + 1) /\ i # n + 1
          BY <3>2, <4>4
        <5>2. r[3] = q[3 - 1]
          BY <2>6, <5>1
        <5> QED BY <3>2, <4>1, <4>2, <4>4, <5>1, <5>2
      <4> QED BY <4>3, <4>4
    <3>3. CASE i \in 3 .. (n + 1)
      <4>1. r[i] = q[i - 1] /\ i - 1 \in 2 .. n /\ i - 1 \in 1 .. n
        BY <2>6, <3>3
      <4>2. q[i - 1] \in Tasks /\ q[i - 1] # idle
        BY <2>7, <4>1
      <4>3. next'[r[i]] = next[q[i - 1]]
        BY <2>5, <4>1, <4>2
      <4>4. next[q[i - 1]] = IF i - 1 = n THEN idle ELSE q[(i - 1) + 1]
        BY <2>2, <4>1 DEF IsCycle
      <4>5. CASE i = n + 1
        BY <4>3, <4>4, <4>5
      <4>6. CASE i # n + 1
        <5>1. i + 1 \in 3 .. (n + 1) /\ (i + 1) - 1 = (i - 1) + 1 /\ i - 1 # n
          BY <3>3, <4>6
        <5>2. r[i + 1] = q[(i + 1) - 1]
          BY <2>6, <5>1
        <5> QED BY <4>3, <4>4, <4>6, <5>1, <5>2
      <4> QED BY <4>5, <4>6
    <3> QED BY <2>8, <3>1, <3>2, <3>3
  <2>11. IsCycle(n + 1, r)'
    BY <2>6, <2>9, <2>10 DEF IsCycle
  <2>12. NotYet(n + 1, r)'
    BY <2>5 DEF NotYet
  <2> QED BY <2>5, <2>6, <2>11, <2>12 DEF RingIs
<1>6. CASE MarkReady
  <2>1. PICK n \in Nat \ {0} : \E q \in [1 .. n -> Tasks] : IsCycle(n, q)
    BY DEF RingIs
  <2>2. PICK q \in [1 .. n -> Tasks] : IsCycle(n, q)
    BY <2>1
  <2>3. IsCycle(n, q)' /\ NotYet(n, q)'
    BY <1>6, <2>2 DEF MarkReady, Building, IsCycle, NotYet
  <2>4. state' \in [Tasks -> TaskStates] /\ \A t \in Tasks : state'[t] = "RUNNING" => t = current'
    BY <1>6 DEF MarkReady, RingIs, TaskStates
  <2> QED BY <2>3, <2>4 DEF RingIs
<1>7. CASE UNCHANGED procVars
  BY <1>7, CycleKept DEF procVars, RingIs
<1> QED BY <1>1, <1>2, <1>3, <1>4, <1>5, <1>6, <1>7, <1>8 DEF ProcNext

LEMMA RingStart == ProcInit => RingIs
<1> SUFFICES ASSUME ProcInit PROVE RingIs
  OBVIOUS
<1> DEFINE q == [i \in 1 .. 1 |-> idle]
<1>1. idle \in Tasks /\ next[idle] = idle /\ building[2] = 0
  BY DEF ProcInit, Tasks
<1>2. q \in [1 .. 1 -> Tasks] /\ q[1] = idle /\ \A i \in 1 .. 1 : i = 1
  BY <1>1
<1> HIDE DEF q
<1>3. IsCycle(1, q) /\ NotYet(1, q)
  BY <1>1, <1>2 DEF IsCycle, NotYet
<1>4. state \in [Tasks -> TaskStates] /\ \A t \in Tasks : state[t] = "RUNNING" => t = current
  BY DEF ProcInit, TaskStates
<1>5. \E n \in Nat \ {0} : \E c \in [1 .. n -> Tasks] : IsCycle(n, c) /\ NotYet(n, c)
  <2> WITNESS 1 \in Nat \ {0}
  <2> QED BY <1>2, <1>3
<1> QED BY <1>4, <1>5 DEF RingIs

(* For every finite set of processes: every saved context is its task's    *)
(* own, and outside a switch the CPU is on the stack and in the directory  *)
(* of current_process, though the timer may hit the schedule() of a system *)
(* call (no more than Quantum times in one window, which is what the proof *)
(* needs and what the window's few instructions allow); and the ring is    *)
(* one cycle with one running task, though the timer may walk it between   *)
(* any two stores of its building.                                         *)
THEOREM ProcessesStaySound == ProcSpec => []ProcessesSound
<1>1. ProcInit => ContextsInv /\ RingIs
  BY ContextsStart, RingStart
<1>2. ContextsInv /\ RingIs /\ [ProcNext]_procVars => (ContextsInv /\ RingIs)'
  BY ContextsStep, RingStep
<1>3. ContextsInv /\ RingIs => ProcessesSound
  BY CycleCloses DEF ProcessesSound, ContextsInv
<1> QED BY <1>1, <1>2, <1>3, PTL DEF ProcSpec

-----------------------------------------------------------------------------
(*                              The keyboard                               *)

(* The ring between the keyboard interrupt and the shell is the queue of   *)
(* the keys accepted, and the shell has seen that it is not empty before   *)
(* it reads: the interrupt can only add behind what it reads.              *)
Chars == Letters \cup {"nl", "bs", "tab", Blank}
KbRing == [buf : [0 .. (KbSize - 1) -> Chars], head : 0 .. (KbSize - 1),
           tail : 0 .. (KbSize - 1)]
KeysInv ==
  /\ kb \in KbRing
  /\ keys = RingSeq(KbSize, kb.head, kb.tail, kb.buf)
  /\ pc \in {"read", "take"} => kb.head # kb.tail
  /\ pc = "take" => char = kb.buf[kb.tail]

LEMMA KeyPressKeeps ==
  ASSUME KeysInv, NEW c \in Letters \cup {"nl", "bs", "tab"}, KeyPress(c)
  PROVE  KeysInv'
<1> DEFINE h == kb.head
           t == kb.tail
           s == kb.buf
           r == [s EXCEPT ![h] = c]
<1>1. /\ h \in 0 .. (KbSize - 1) /\ t \in 0 .. (KbSize - 1)
      /\ s \in [0 .. (KbSize - 1) -> Chars] /\ KbSize \in Nat \ {0, 1}
  BY TerminalAssumption DEF KeysInv, KbRing
<1>2. pc' \in {"read", "take"} => pc \in {"read", "take"} /\ pc' = pc /\ char' = char
  BY DEF KeyPress, Roused
<1>3. CASE Next1(h) = t
  <2>1. UNCHANGED <<kb, keys>>
    BY <1>3 DEF KeyPress
  <2> QED BY <1>2, <2>1 DEF KeysInv
<1>4. CASE Next1(h) # t
  <2>1. /\ kb' = [kb EXCEPT !.buf[kb.head] = c, !.head = Next1(kb.head)]
        /\ keys' = Append(keys, c)
    BY <1>4 DEF KeyPress
  <2>2. Next1(h) = RingNext(KbSize, h) /\ Next1(h) \in 0 .. (KbSize - 1)
    BY <1>1, RingNextIs DEF Next1, RingNext
  <2>3. r \in [0 .. (KbSize - 1) -> Chars] /\ r[h] = c
        /\ \A j \in (0 .. (KbSize - 1)) \ {h} : r[j] = s[j]
    BY <1>1 DEF Chars
  <2>4. kb' \in KbRing /\ kb'.buf = r /\ kb'.head = Next1(h) /\ kb'.tail = t
    BY <1>1, <2>1, <2>2, <2>3 DEF KeysInv, KbRing
  <2>5. RingSeq(KbSize, h, t, r) = RingSeq(KbSize, h, t, s)
    <3> HIDE DEF h, t, s, r
    <3> QED BY <1>1, <2>3, RingWriteKeeps
  <2> HIDE DEF r
  <2>6. RingSeq(KbSize, RingNext(KbSize, h), t, r) = Append(RingSeq(KbSize, h, t, r), r[h])
    BY <1>1, <1>4, <2>2, <2>3, RingAppends
  <2>7. keys' = RingSeq(KbSize, kb'.head, kb'.tail, kb'.buf)
    BY <2>1, <2>2, <2>3, <2>4, <2>5, <2>6 DEF KeysInv
  <2>8. pc' \in {"read", "take"} => kb'.head # kb'.tail
    BY <1>4, <2>4
  <2>9. pc' = "take" => char' = kb'.buf[kb'.tail]
    <3> SUFFICES ASSUME pc' = "take" PROVE char' = kb'.buf[kb'.tail]
      OBVIOUS
    <3>1. t # h /\ char = s[t] /\ char' = char
      BY <1>2 DEF KeysInv
    <3> QED BY <1>1, <2>3, <2>4, <3>1
  <2> QED BY <2>4, <2>7, <2>8, <2>9 DEF KeysInv
<1> QED BY <1>3, <1>4

LEMMA TakeKeyKeeps ==
  ASSUME KeysInv, TakeKey
  PROVE  KeysInv'
<1> DEFINE h == kb.head
           t == kb.tail
           s == kb.buf
           r == [s EXCEPT ![t] = Blank]
<1>1. /\ h \in 0 .. (KbSize - 1) /\ t \in 0 .. (KbSize - 1) /\ h # t
      /\ s \in [0 .. (KbSize - 1) -> Chars] /\ KbSize \in Nat \ {0, 1}
  BY TerminalAssumption DEF KeysInv, KbRing, TakeKey
<1>2. /\ kb' = [kb EXCEPT !.buf[kb.tail] = Blank, !.tail = Next1(kb.tail)]
      /\ keys' = Tail(keys) /\ pc' = "edit"
  BY DEF TakeKey
<1>3. Next1(t) = RingNext(KbSize, t) /\ Next1(t) \in 0 .. (KbSize - 1)
      /\ Next1(t) = IF t = KbSize - 1 THEN 0 ELSE t + 1
  BY <1>1, RingNextIs DEF Next1, RingNext
<1>4. r \in [0 .. (KbSize - 1) -> Chars]
      /\ \A j \in (0 .. (KbSize - 1)) \ {t} : r[j] = s[j]
  BY <1>1 DEF Chars
<1>5. kb' \in KbRing /\ kb'.buf = r /\ kb'.head = h /\ kb'.tail = Next1(t)
  BY <1>1, <1>2, <1>3, <1>4 DEF KeysInv, KbRing
<1> HIDE DEF r
<1>6. RingSeq(KbSize, h, RingNext(KbSize, t), s) = Tail(RingSeq(KbSize, h, t, s))
  BY <1>1, RingRemoves
<1>7. RingSeq(KbSize, h, Next1(t), r) = RingSeq(KbSize, h, Next1(t), s)
  <2>1. RingCount(KbSize, h, Next1(t)) = IF h >= Next1(t) THEN h - Next1(t) ELSE h - Next1(t) + KbSize
    BY <1>1, <1>3, RingCountIs
  <2>2. ASSUME NEW i \in 1 .. RingCount(KbSize, h, Next1(t))
        PROVE  (Next1(t) + i - 1) % KbSize \in (0 .. (KbSize - 1)) \ {t}
    <3>1. i \in 1 .. KbSize
      BY <1>1, <1>3, RingSeqIs
    <3>2. /\ (Next1(t) + i - 1) % KbSize \in 0 .. (KbSize - 1)
          /\ (Next1(t) + i - 1) % KbSize = IF Next1(t) + i - 1 < KbSize THEN Next1(t) + i - 1
                                           ELSE Next1(t) + i - 1 - KbSize
      BY <1>1, <1>3, <3>1, RingSlotIs
    <3> HIDE DEF h, t
    <3>3. CASE t = KbSize - 1
      BY <1>1, <1>3, <2>1, <3>1, <3>2, <3>3
    <3>4. CASE t # KbSize - 1
      <4>1. Next1(t) = t + 1
        BY <1>3, <3>4
      <4>2. CASE h >= t + 1
        BY <1>1, <2>1, <3>1, <3>2, <3>4, <4>1, <4>2
      <4>3. CASE h < t
        BY <1>1, <2>1, <3>1, <3>2, <3>4, <4>1, <4>3
      <4> QED BY <1>1, <4>2, <4>3
    <3> QED BY <3>3, <3>4
  <2> QED BY <1>4, <2>2 DEF RingSeq
<1>8. keys' = RingSeq(KbSize, kb'.head, kb'.tail, kb'.buf)
  BY <1>2, <1>3, <1>5, <1>6, <1>7 DEF KeysInv
<1> QED BY <1>2, <1>5, <1>8 DEF KeysInv

LEMMA KeysStep == KeysInv /\ [TermNext]_termVars => KeysInv'
<1> SUFFICES ASSUME KeysInv, [TermNext]_termVars PROVE KeysInv'
  OBVIOUS
<1>1. ASSUME NEW c \in Letters \cup {"nl", "bs", "tab"}, KeyPress(c) PROVE KeysInv'
  BY <1>1, KeyPressKeeps
<1>2. CASE TimerWake
  BY <1>2 DEF TimerWake, Roused, KeysInv
<1>8. CASE ConsumeOne
  BY <1>8 DEF ConsumeOne, KeysInv
<1>9. CASE PollResponse
  BY <1>9 DEF PollResponse, KeysInv
<1>10. CASE RspInterrupt
  BY <1>10 DEF RspInterrupt, Roused, KeysInv
<1>11. CASE BridgeTakes \/ Halt
  BY <1>11 DEF BridgeTakes, Halt, KeysInv
<1>3. CASE Poll
  BY <1>3 DEF Poll, KeysInv
<1>4. CASE Read
  BY <1>4 DEF Read, KeysInv
<1>5. CASE TakeKey
  BY <1>5, TakeKeyKeeps
<1>6. CASE Edit
  BY <1>6 DEF Edit, KeysInv
<1>7. CASE UNCHANGED termVars
  BY <1>7 DEF termVars, KeysInv
<1> QED BY <1>1, <1>2, <1>3, <1>4, <1>5, <1>6, <1>7, <1>8, <1>9, <1>10, <1>11
        DEF TermNext, ShellStep

LEMMA KeysStart == TermInit => KeysInv
<1> SUFFICES ASSUME TermInit PROVE KeysInv
  OBVIOUS
<1>1. /\ kb = [buf |-> [i \in 0 .. (KbSize - 1) |-> Blank], head |-> 0, tail |-> 0]
      /\ keys = << >> /\ pc = "serve"
  BY DEF TermInit
<1>2. kb \in KbRing /\ kb.head = 0 /\ kb.tail = 0
  BY <1>1, TerminalAssumption DEF KbRing, Chars
<1>3. RingCount(KbSize, 0, 0) = 0
  BY TerminalAssumption, RingCountIs
<1>4. RingSeq(KbSize, 0, 0, kb.buf) = << >>
  BY <1>3 DEF RingSeq
<1> QED BY <1>1, <1>2, <1>4 DEF KeysInv

(* The ring holds the keys in the order they were typed, and the shell     *)
(* takes the oldest.                                                       *)
LEMMA KeysSeen == KeysInv => RingIsKeys
<1> SUFFICES ASSUME KeysInv PROVE RingIsKeys
  OBVIOUS
<1> DEFINE h == kb.head
           t == kb.tail
           n == RingCount(KbSize, h, t)
<1>1. h \in 0 .. (KbSize - 1) /\ t \in 0 .. (KbSize - 1) /\ KbSize \in Nat \ {0, 1}
  BY TerminalAssumption DEF KeysInv, KbRing
<1>2. Len(keys) = n /\ \A i \in 1 .. n : keys[i] = kb.buf[(t + i - 1) % KbSize]
  <2>1. keys = RingSeq(KbSize, h, t, kb.buf)
    BY DEF KeysInv
  <2>2. /\ Len(RingSeq(KbSize, h, t, kb.buf)) = n
        /\ \A i \in 1 .. n : RingSeq(KbSize, h, t, kb.buf)[i] = kb.buf[(t + i - 1) % KbSize]
    <3> DEFINE b == kb.buf
    <3> HIDE DEF h, t, b
    <3>1. /\ Len(RingSeq(KbSize, h, t, b)) = RingCount(KbSize, h, t)
          /\ \A i \in 1 .. RingCount(KbSize, h, t) :
                RingSeq(KbSize, h, t, b)[i] = b[(t + i - 1) % KbSize]
      BY <1>1, RingSeqIs
    <3> QED BY <3>1 DEF b
  <2> QED BY <2>1, <2>2
<1>3. n = (IF h >= t THEN h - t ELSE h - t + KbSize) /\ n \in 0 .. (KbSize - 1)
  BY <1>1, RingCountIs
<1>4. (h - t) % KbSize = n
  BY <1>1, <1>3
<1>5. pc = "take" => char = keys[1]
  <2> SUFFICES ASSUME pc = "take" PROVE char = keys[1]
    OBVIOUS
  <2>1. h # t /\ char = kb.buf[t]
    BY DEF KeysInv
  <2>2. 1 \in 1 .. n
    BY <1>1, <1>3, <2>1
  <2>3. (t + 1 - 1) % KbSize = t
    BY <1>1
  <2> QED BY <1>2, <2>1, <2>2, <2>3
<1> HIDE DEF h, n
<1> QED BY <1>2, <1>4, <1>5 DEF RingIsKeys, h

-----------------------------------------------------------------------------
(*                           The console's line                            *)

(* The screen's cells and cursor; the characters a cell may show.          *)
Glyphs == Letters \cup {Blank, Mark, "o"}
Controls == {"nl", "bs", "tab"}
Last1 == Width * Height - 1
Screens == [cells : [0 .. Last1 -> Glyphs], row : 0 .. (Height - 1),
            col : 0 .. (Width - 1)]

(* The n characters of line stand before the cursor, from the beginning of *)
(* a row on.                                                               *)
Shows(s, n, line) ==
  \E b \in 0 .. (Height - 1) :
    /\ At(s) = b * Width + n
    /\ \A i \in 1 .. n : s.cells[b * Width + i - 1] = line[i]

(* Rows are Width cells each and Height of them fill the screen.           *)
LEMMA RowIs ==
  ASSUME NEW r \in 0 .. (Height - 1)
  PROVE  /\ r * Width \in Nat /\ Width * Height \in Nat
         /\ (r + 1) * Width = r * Width + Width
         /\ r > 0 => (r - 1) * Width = r * Width - Width
         /\ r * Width + Width <= Width * Height
         /\ r = Height - 1 => r * Width + Width = Width * Height
         /\ r # Height - 1 => r * Width + Width < Width * Height
<1>0. Width \in Nat \ {0} /\ Height \in Nat \ {0, 1}
  BY TerminalAssumption
<1>1. PICK d \in Nat : Height = r + 1 + d
  <2>1. Height - (r + 1) \in Nat /\ Height = r + 1 + (Height - (r + 1))
    BY <1>0
  <2> QED BY <2>1
<1>2. Width * Height = r * Width + Width + d * Width
  BY <1>0, <1>1
<1>3. d * Width >= 0 /\ (d = 0 => d * Width = 0) /\ (d > 0 => d * Width > 0)
  BY <1>0
<1>4. r * Width \in Nat /\ d * Width \in Nat
  BY <1>0
<1>5. (r + 1) * Width = r * Width + Width /\ (r > 0 => (r - 1) * Width = r * Width - Width)
  BY <1>0
<1> QED BY <1>0, <1>1, <1>2, <1>3, <1>4, <1>5

LEMMA AtIs ==
  ASSUME NEW s \in Screens
  PROVE  /\ At(s) = s.row * Width + s.col /\ At(s) \in 0 .. Last1
         /\ s.row \in 0 .. (Height - 1) /\ s.col \in 0 .. (Width - 1)
         /\ s.cells \in [0 .. Last1 -> Glyphs]
         /\ Last1 \in Nat
<1>0. Width \in Nat \ {0} /\ Height \in Nat \ {0, 1}
  BY TerminalAssumption
<1>1. /\ s.row \in 0 .. (Height - 1) /\ s.col \in 0 .. (Width - 1)
      /\ s.cells \in [0 .. Last1 -> Glyphs]
  BY DEF Screens
<1>2. /\ s.row * Width \in Nat /\ Width * Height \in Nat
      /\ s.row * Width + Width <= Width * Height
  BY <1>1, RowIs
<1>3. At(s) = s.row * Width + s.col
  BY DEF At
<1>4. PICK R \in Nat : R = s.row * Width
  BY <1>2
<1>5. PICK P \in Nat : P = Width * Height
  BY <1>2
<1>6. R + Width <= P
  BY <1>2, <1>4, <1>5
<1>7. R + s.col \in 0 .. (P - 1) /\ P - 1 \in Nat
  BY <1>0, <1>1, <1>6
<1> QED BY <1>1, <1>3, <1>4, <1>5, <1>7 DEF Last1

(* console_scroll keeps the screen, one row up.                            *)
RowUp(w) == [i \in 0 .. Last1 |-> IF i + Width <= Last1 THEN w[i + Width] ELSE Blank]

LEMMA ScrolledIs ==
  ASSUME NEW w \in [0 .. Last1 -> Glyphs], NEW r \in 0 .. Height, NEW c \in 0 .. (Width - 1),
         NEW z, z = Scrolled([cells |-> w, row |-> r, col |-> c])
  PROVE  /\ z \in Screens
         /\ r < Height => z.cells = w /\ z.row = r /\ z.col = c
         /\ r = Height => z.cells = RowUp(w) /\ z.row = Height - 1 /\ z.col = c
<1> DEFINE v == RowUp(w)
<1>0. /\ Width \in Nat \ {0} /\ Height \in Nat \ {0, 1} /\ Last1 \in Nat
      /\ Last1 = Width * Height - 1 /\ Width * Height \in Nat
  <2>1. Width * Height \in Nat /\ 0 * Width + Width <= Width * Height
    BY RowIs, TerminalAssumption
  <2> QED BY <2>1, TerminalAssumption DEF Last1
<1>1. CASE r < Height
  <2>1. z = [cells |-> w, row |-> r, col |-> c]
    BY <1>1 DEF Scrolled
  <2> QED BY <1>0, <1>1, <2>1 DEF Screens
<1>2. CASE r = Height
  <2>1. v \in [0 .. Last1 -> Glyphs]
    BY <1>0 DEF Glyphs, RowUp
  <2>2. z = [cells |-> v, row |-> Height - 1, col |-> c]
    <3>1. \A i \in 0 .. Last1 : (i + Width < Width * Height) <=> (i + Width <= Last1)
      BY <1>0
    <3>2. [i \in 0 .. (Width * Height - 1) |->
             IF i + Width < Width * Height THEN w[i + Width] ELSE Blank] = v
      BY <3>1 DEF Last1, RowUp
    <3>3. ~(r < Height)
      BY <1>0, <1>2
    <3> QED BY <3>2, <3>3 DEF Scrolled
  <2> HIDE DEF v
  <2>3. z.cells = v /\ z.row = Height - 1 /\ z.col = c /\ z \in Screens
    BY <1>0, <2>1, <2>2 DEF Screens
  <2>4. ~(r < Height)
    BY <1>0, <1>2
  <2> QED BY <1>2, <2>1, <2>3, <2>4 DEF v
<1> QED BY <1>0, <1>1, <1>2

(* console_putc of a character that a cell shows.                          *)
LEMMA PutcGlyph ==
  ASSUME NEW s \in Screens, NEW c \in Glyphs \ Controls
  PROVE  LET z == Putc(s, c)
             w == [s.cells EXCEPT ![At(s)] = c]
         IN /\ z \in Screens
            /\ At(s) < Last1 => z.cells = w /\ At(z) = At(s) + 1
            /\ At(s) = Last1 =>
                 z.cells = RowUp(w) /\ At(z) = At(s) + 1 - Width
<1> DEFINE z == Putc(s, c)
           w == [s.cells EXCEPT ![At(s)] = c]
           R == s.row * Width
           P == Width * Height
<1>0. Width \in Nat \ {0} /\ Height \in Nat \ {0, 1}
  BY TerminalAssumption
<1>1. /\ At(s) = R + s.col /\ At(s) \in 0 .. Last1
      /\ s.row \in 0 .. (Height - 1) /\ s.col \in 0 .. (Width - 1)
      /\ s.cells \in [0 .. Last1 -> Glyphs] /\ Last1 \in Nat
  BY AtIs
<1>2. /\ R \in Nat /\ P \in Nat /\ Last1 = P - 1
      /\ (s.row + 1) * Width = R + Width
      /\ s.row = Height - 1 => R + Width = P
      /\ s.row # Height - 1 => R + Width < P
  BY <1>1, RowIs DEF Last1
<1>3. w \in [0 .. Last1 -> Glyphs]
  BY <1>1
<1>4. s = [cells |-> s.cells, row |-> s.row, col |-> s.col]
  BY DEF Screens
<1>5. CASE s.col + 1 >= Width
  <2>1. z = Scrolled([cells |-> w, row |-> s.row + 1, col |-> 0])
    BY <1>5 DEF Putc, Controls, Moved, Shown
  <2>2. s.row + 1 \in 0 .. Height /\ 0 \in 0 .. (Width - 1) /\ s.col = Width - 1
    <3>1. s.row \in 0 .. (Height - 1) /\ s.col \in 0 .. (Width - 1)
      BY <1>1
    <3> QED BY <1>0, <1>5, <3>1
  <2>3. /\ z \in Screens
        /\ s.row + 1 < Height => z.cells = w /\ z.row = s.row + 1 /\ z.col = 0
        /\ s.row + 1 = Height => z.cells = RowUp(w) /\ z.row = Height - 1 /\ z.col = 0
    <3> DEFINE r == s.row + 1
    <3>1. r \in 0 .. Height /\ z = Scrolled([cells |-> w, row |-> r, col |-> 0])
      BY <2>1, <2>2
    <3> HIDE DEF w, z, r
    <3>2. /\ z \in Screens
          /\ r < Height => z.cells = w /\ z.row = r /\ z.col = 0
          /\ r = Height => z.cells = RowUp(w) /\ z.row = Height - 1 /\ z.col = 0
      BY <1>3, <2>2, <3>1, ScrolledIs
    <3> QED BY <3>2 DEF r
  <2> HIDE DEF z, w, R, P
  <2>4. At(z) = z.row * Width + z.col
    BY <2>3, AtIs
  <2>5. CASE s.row + 1 < Height
    <3>1. At(z) = R + Width /\ z.cells = w
      <4>1. At(z) = (s.row + 1) * Width + 0
        BY <2>3, <2>4, <2>5
      <4> QED BY <1>0, <1>2, <2>3, <2>5, <4>1
    <3>2. At(s) + 1 = R + Width /\ At(s) < Last1
      BY <1>0, <1>1, <1>2, <2>2, <2>5
    <3> QED BY <1>1, <2>3, <3>1, <3>2 DEF z, w
  <2>6. CASE s.row + 1 = Height
    <3>1. z.row = s.row /\ z.col = 0
      BY <1>1, <2>3, <2>6
    <3>2. At(z) = R
      BY <1>2, <2>4, <3>1 DEF R
    <3>3. At(s) = Last1 /\ At(s) + 1 - Width = R
      BY <1>0, <1>1, <1>2, <2>2, <2>6
    <3> QED BY <1>1, <2>3, <2>6, <3>2, <3>3 DEF z, w
  <2> QED BY <1>0, <2>2, <2>5, <2>6
<1>6. CASE ~(s.col + 1 >= Width)
  <2>1. z = Scrolled([cells |-> w, row |-> s.row, col |-> s.col + 1])
    BY <1>6 DEF Putc, Controls, Moved, Shown
  <2>2. s.row \in 0 .. Height /\ s.row < Height /\ s.col + 1 \in 0 .. (Width - 1)
    BY <1>0, <1>1, <1>6
  <2>3. z \in Screens /\ z.cells = w /\ z.row = s.row /\ z.col = s.col + 1
    <3> HIDE DEF w, z
    <3> QED BY <1>3, <2>1, <2>2, ScrolledIs
  <2> HIDE DEF z, w, R, P
  <2>4. At(z) = z.row * Width + z.col
    BY <2>3, AtIs
  <2>5. At(z) = R + (s.col + 1)
    BY <2>3, <2>4 DEF R
  <2>6. At(s) < Last1 /\ At(z) = At(s) + 1
    BY <1>0, <1>1, <1>2, <2>2, <2>5
  <2> QED BY <1>1, <2>3, <2>6 DEF z, w
<1> QED BY <1>5, <1>6

(* console_putc of a backspace, a newline and a tab.                       *)
LEMMA PutcBack ==
  ASSUME NEW s \in Screens, At(s) > 0
  PROVE  LET z == Putc(s, "bs")
         IN /\ z \in Screens /\ At(z) = At(s) - 1
            /\ z.cells = [s.cells EXCEPT ![At(s) - 1] = Blank]
<1> DEFINE z == Putc(s, "bs")
           R == s.row * Width
           v == [s.cells EXCEPT ![At(s) - 1] = Blank]
<1>0. Width \in Nat \ {0} /\ Height \in Nat \ {0, 1}
  BY TerminalAssumption
<1>1. /\ At(s) = R + s.col /\ At(s) \in 0 .. Last1
      /\ s.row \in 0 .. (Height - 1) /\ s.col \in 0 .. (Width - 1)
      /\ s.cells \in [0 .. Last1 -> Glyphs] /\ Last1 \in Nat
  BY AtIs
<1>2. R \in Nat /\ (s.row > 0 => (s.row - 1) * Width = R - Width) /\ (s.row = 0 => R = 0)
  BY <1>0, <1>1, RowIs
<1>3. v \in [0 .. Last1 -> Glyphs] /\ At(s) - 1 \in 0 .. Last1
  BY <1>1 DEF Glyphs
<1>4. s = [cells |-> s.cells, row |-> s.row, col |-> s.col]
  BY DEF Screens
<1>5. CASE s.col > 0
  <2> DEFINE b == [cells |-> s.cells, row |-> s.row, col |-> s.col - 1]
  <2>1. b \in Screens /\ At(b) = At(s) - 1
    <3>1. s.col - 1 \in 0 .. (Width - 1)
      BY <1>0, <1>1, <1>5
    <3>2. At(b) = R + (s.col - 1)
      BY DEF At
    <3> HIDE DEF R
    <3> QED BY <1>1, <1>2, <3>1, <3>2 DEF Screens
  <2>2. z = Shown(b, Blank)
    BY <1>5 DEF Putc, Moved
  <2>3. z = [cells |-> v, row |-> s.row, col |-> s.col - 1]
    BY <2>1, <2>2 DEF Shown
  <2>4. At(z) = At(b)
    BY <2>3 DEF At
  <2>5. z \in Screens /\ z.cells = v
    <3>1. s.col - 1 \in 0 .. (Width - 1)
      BY <1>0, <1>1, <1>5
    <3> HIDE DEF v, z
    <3> QED BY <1>1, <1>3, <2>3, <3>1 DEF Screens
  <2> QED BY <2>1, <2>4, <2>5
<1>6. CASE s.col = 0
  <2> DEFINE b == [cells |-> s.cells, row |-> s.row - 1, col |-> Width - 1]
  <2>0. s.row > 0
    BY <1>1, <1>2, <1>6
  <2>1. At(b) = At(s) - 1
    <3>1. At(b) = (s.row - 1) * Width + (Width - 1)
      BY DEF At
    <3> HIDE DEF R
    <3> QED BY <1>0, <1>1, <1>2, <1>6, <2>0, <3>1
  <2>2. z = Shown(b, Blank)
    <3>1. ~(s.col > 0)
      BY <1>6
    <3> QED BY <2>0, <3>1 DEF Putc, Moved
  <2>3. z = [cells |-> v, row |-> s.row - 1, col |-> Width - 1]
    BY <2>1, <2>2 DEF Shown
  <2>4. At(z) = At(b)
    BY <2>3 DEF At
  <2>5. z \in Screens /\ z.cells = v
    <3>1. s.row - 1 \in 0 .. (Height - 1) /\ Width - 1 \in 0 .. (Width - 1)
      BY <1>0, <1>1, <2>0
    <3> HIDE DEF v, z
    <3> QED BY <1>3, <2>3, <3>1 DEF Screens
  <2> QED BY <2>1, <2>4, <2>5
<1> QED BY <1>1, <1>5, <1>6

LEMMA PutcBackTyped ==
  ASSUME NEW s \in Screens
  PROVE  Putc(s, "bs") \in Screens
<1>1. At(s) \in 0 .. Last1 /\ Last1 \in Nat /\ s.cells \in [0 .. Last1 -> Glyphs]
      /\ s.row \in 0 .. (Height - 1) /\ s.col \in 0 .. (Width - 1)
      /\ At(s) = s.row * Width + s.col
  BY AtIs
<1>2. CASE At(s) > 0
  BY <1>2, PutcBack
<1>3. CASE At(s) = 0
  <2>1. s.row = 0 /\ s.col = 0
    <3>1. Width \in Nat \ {0} /\ s.row \in Nat /\ s.col \in Nat
      BY <1>1, TerminalAssumption
    <3>2. s.row * Width >= 0 /\ (s.row > 0 => s.row * Width > 0)
      BY <3>1
    <3> QED BY <1>1, <1>3, <3>1, <3>2
  <2>2. Putc(s, "bs") = Shown(s, Blank)
    BY <2>1 DEF Putc
  <2> DEFINE v == [s.cells EXCEPT ![At(s)] = Blank]
  <2>3. v \in [0 .. Last1 -> Glyphs]
    BY <1>1 DEF Glyphs
  <2>4. Putc(s, "bs") = [cells |-> v, row |-> s.row, col |-> s.col]
    BY <2>2 DEF Shown
  <2> HIDE DEF v
  <2> QED BY <1>1, <2>3, <2>4 DEF Screens
<1> QED BY <1>1, <1>2, <1>3

LEMMA PutcLine ==
  ASSUME NEW s \in Screens
  PROVE  /\ Putc(s, "nl") \in Screens /\ Putc(s, "nl").col = 0
         /\ Putc(s, "tab") = s
<1>0. Width \in Nat \ {0} /\ Height \in Nat \ {0, 1}
  BY TerminalAssumption
<1>1. /\ s.row + 1 \in 0 .. Height /\ 0 \in 0 .. (Width - 1)
      /\ s.cells \in [0 .. Last1 -> Glyphs]
      /\ s = [cells |-> s.cells, row |-> s.row, col |-> s.col]
  BY <1>0 DEF Screens
<1>2. Putc(s, "nl") = Scrolled([cells |-> s.cells, row |-> s.row + 1, col |-> 0])
  BY DEF Putc, Moved
<1>3. Putc(s, "nl") \in Screens /\ Putc(s, "nl").col = 0
  <2> DEFINE w == s.cells
             r == s.row + 1
  <2>1. w \in [0 .. Last1 -> Glyphs] /\ r \in 0 .. Height
    BY <1>1
  <2>2. r < Height \/ r = Height
    BY <1>0, <2>1
  <2>3. Putc(s, "nl") = Scrolled([cells |-> w, row |-> r, col |-> 0])
    BY <1>2
  <2> HIDE DEF w, r
  <2> QED BY <1>1, <2>1, <2>2, <2>3, ScrolledIs
<1>4. Putc(s, "tab") = s
  BY DEF Putc
<1> QED BY <1>3, <1>4

(* A character more on the screen is a character more of the line, also    *)
(* over the end of a row and when the screen scrolls under the line, as    *)
(* long as the line and one more cell fit the screen.                      *)
LEMMA PutcShows ==
  ASSUME NEW s \in Screens, NEW c \in Glyphs \ Controls, NEW n \in Nat, NEW line, NEW more,
         Shows(s, n, line), n < Last1,
         \A i \in 1 .. n : more[i] = line[i], more[n + 1] = c
  PROVE  Putc(s, c) \in Screens /\ Shows(Putc(s, c), n + 1, more)
<1> DEFINE z == Putc(s, c)
           w == [s.cells EXCEPT ![At(s)] = c]
<1>0. Width \in Nat \ {0} /\ Height \in Nat \ {0, 1} /\ PromptLen \in Nat
  BY TerminalAssumption
<1>1. PICK b \in 0 .. (Height - 1) :
        /\ At(s) = b * Width + n
        /\ \A i \in 1 .. n : s.cells[b * Width + i - 1] = line[i]
  BY DEF Shows
<1>2. PICK B \in Nat : B = b * Width
  BY RowIs
<1>3. /\ At(s) = B + n /\ At(s) \in 0 .. Last1 /\ Last1 \in Nat
      /\ s.cells \in [0 .. Last1 -> Glyphs]
  BY <1>1, <1>2, AtIs
<1>4. /\ z \in Screens
      /\ At(s) < Last1 => z.cells = w /\ At(z) = At(s) + 1
      /\ At(s) = Last1 => z.cells = RowUp(w) /\ At(z) = At(s) + 1 - Width
  BY PutcGlyph
<1> HIDE DEF z
<1>5. ASSUME NEW i \in 1 .. (n + 1)
      PROVE  B + i - 1 \in 0 .. Last1 /\ w[B + i - 1] = more[i]
  <2>1. B + i - 1 \in 0 .. Last1
    BY <1>3
  <2>2. CASE i = n + 1
    BY <1>3, <2>1, <2>2
  <2>3. CASE i # n + 1
    <3>1. i \in 1 .. n /\ B + i - 1 # At(s)
      BY <1>3, <2>3
    <3>2. s.cells[B + i - 1] = line[i]
      BY <1>1, <1>2, <3>1
    <3>3. w[B + i - 1] = s.cells[B + i - 1]
      BY <1>3, <2>1, <3>1
    <3> QED BY <2>1, <3>1, <3>2, <3>3
  <2> QED BY <2>2, <2>3
<1> HIDE DEF w
<1>6. CASE At(s) < Last1
  <2>1. At(z) = B + (n + 1) /\ z.cells = w
    BY <1>3, <1>4, <1>6
  <2>2. At(z) = b * Width + (n + 1) /\ \A i \in 1 .. (n + 1) : z.cells[b * Width + i - 1] = more[i]
    BY <1>2, <1>5, <2>1
  <2> QED BY <1>4, <2>2 DEF Shows, z
<1>7. CASE At(s) = Last1
  <2>1. B > 0 /\ b > 0
    <3>1. B > 0
      BY <1>3, <1>7
    <3> QED BY <1>0, <1>2, <3>1
  <2>2. b - 1 \in 0 .. (Height - 1) /\ (b - 1) * Width = B - Width
    BY <1>0, <1>2, <2>1, RowIs
  <2>3. PICK D \in Nat : D = (b - 1) * Width
    <3>1. b - 1 \in 0 .. (Height - 1)
      BY <2>2
    <3> QED BY <3>1, RowIs
  <2>4. At(z) = D + (n + 1) /\ z.cells = RowUp(w) /\ D + Width = B
    BY <1>0, <1>3, <1>4, <1>7, <2>2, <2>3
  <2>5. ASSUME NEW i \in 1 .. (n + 1) PROVE z.cells[D + i - 1] = more[i]
    <3>1. B + i - 1 \in 0 .. Last1 /\ w[B + i - 1] = more[i]
      BY <1>5
    <3> DEFINE j == D + i - 1
    <3>2. j \in 0 .. Last1 /\ j + Width = B + i - 1 /\ j + Width <= Last1
      <4>1. D + Width = B /\ Last1 \in Nat
        BY <1>3, <2>4
      <4> QED BY <1>0, <3>1, <4>1
    <3> HIDE DEF j
    <3>3. RowUp(w)[j] = w[j + Width]
      BY <3>2 DEF RowUp
    <3>4. z.cells[j] = more[i]
      BY <2>4, <3>1, <3>2, <3>3
    <3> QED BY <3>4 DEF j
  <2>6. /\ At(z) = (b - 1) * Width + (n + 1)
        /\ \A i \in 1 .. (n + 1) : z.cells[(b - 1) * Width + i - 1] = more[i]
    BY <2>3, <2>4, <2>5
  <2> QED BY <1>4, <2>2, <2>6 DEF Shows, z
<1> QED BY <1>3, <1>6, <1>7

(* Backspace takes the last character of the line off the screen.          *)
LEMMA PutcErases ==
  ASSUME NEW s \in Screens, NEW n \in Nat \ {0}, NEW line, NEW less, Shows(s, n, line),
         \A i \in 1 .. (n - 1) : less[i] = line[i]
  PROVE  Putc(s, "bs") \in Screens /\ Shows(Putc(s, "bs"), n - 1, less)
<1> DEFINE z == Putc(s, "bs")
<1>1. PICK b \in 0 .. (Height - 1) :
        /\ At(s) = b * Width + n
        /\ \A i \in 1 .. n : s.cells[b * Width + i - 1] = line[i]
  BY DEF Shows
<1>2. PICK B \in Nat : B = b * Width
  BY RowIs
<1>3. /\ At(s) = B + n /\ At(s) \in 0 .. Last1 /\ Last1 \in Nat /\ At(s) > 0
      /\ s.cells \in [0 .. Last1 -> Glyphs]
  BY <1>1, <1>2, AtIs
<1>4. z \in Screens /\ At(z) = At(s) - 1 /\ z.cells = [s.cells EXCEPT ![At(s) - 1] = Blank]
  BY <1>3, PutcBack
<1> HIDE DEF z
<1>5. ASSUME NEW i \in 1 .. (n - 1) PROVE z.cells[B + i - 1] = less[i]
  <2>1. i \in 1 .. n /\ B + i - 1 \in 0 .. Last1 /\ B + i - 1 # At(s) - 1
    BY <1>3
  <2>2. z.cells[B + i - 1] = s.cells[B + i - 1]
    BY <1>3, <1>4, <2>1
  <2>3. s.cells[B + i - 1] = line[i]
    BY <1>1, <1>2, <2>1
  <2> QED BY <2>2, <2>3
<1>6. At(z) = b * Width + (n - 1) /\ \A i \in 1 .. (n - 1) : z.cells[b * Width + i - 1] = less[i]
  BY <1>2, <1>3, <1>4, <1>5
<1> QED BY <1>4, <1>6 DEF Shows, z

(* console_write goes through the string, one console_putc after another.  *)
LEMMA WriteIs ==
  ASSUME NEW s, NEW str, Len(str) \in Nat
  PROVE  \E u : /\ u = [i \in 0 .. Len(str) |-> IF i = 0 THEN s ELSE Putc(u[i-1], str[i])]
                /\ Write(s, str) = u[Len(str)]
<1> DEFINE Is(n, u) == u = [i \in 0 .. n |-> IF i = 0 THEN s ELSE Putc(u[i-1], str[i])]
           Bad == {n \in Nat : ~ \E u : Is(n, u)}
<1>1. Bad = {}
  <2> SUFFICES ASSUME Bad # {} PROVE FALSE
    OBVIOUS
  <2> DEFINE m == Min(Bad)
  <2>1. m \in Bad /\ \A n \in Bad : m <= n
    <3>1. Bad \in SUBSET Nat
      OBVIOUS
    <3> HIDE DEF Bad
    <3> QED BY <3>1, LeastElement
  <2>2. m \in Nat /\ ~ \E u : Is(m, u)
    <3> HIDE DEF m, Is
    <3> QED BY <2>1
  <2> HIDE DEF m
  <2>3. m # 0
    <3> DEFINE u == [i \in 0 .. 0 |-> s]
    <3>1. Is(0, u)
      OBVIOUS
    <3> HIDE DEF u, Is
    <3> QED BY <2>2, <3>1
  <2>4. m - 1 \in Nat /\ \E u : Is(m - 1, u)
    <3>1. m - 1 \in Nat /\ ~(m <= m - 1)
      BY <2>2, <2>3
    <3> HIDE DEF Is
    <3> QED BY <2>1, <3>1
  <2>5. PICK u : Is(m - 1, u)
    <3> HIDE DEF Is
    <3> QED BY <2>4
  <2> DEFINE v == [i \in 0 .. m |-> IF i = m THEN Putc(u[m-1], str[m]) ELSE u[i]]
  <2>6. ASSUME NEW i \in 0 .. m
        PROVE  v[i] = IF i = 0 THEN s ELSE Putc(v[i-1], str[i])
    <3>1. CASE i = m
      BY <2>2, <2>3, <3>1
    <3>2. CASE i # m
      <4>1. i \in 0 .. (m - 1) /\ (i # 0 => i - 1 \in 0 .. m /\ i - 1 # m)
        BY <2>2, <3>2
      <4>2. u[i] = IF i = 0 THEN s ELSE Putc(u[i-1], str[i])
        BY <2>5, <4>1
      <4> QED BY <3>2, <4>1, <4>2
    <3> QED BY <3>1, <3>2
  <2>7. Is(m, v)
    BY <2>6
  <2> HIDE DEF Is, v
  <2> QED BY <2>2, <2>7
<1>2. \E u : Is(Len(str), u)
  <2> HIDE DEF Is
  <2> QED BY <1>1
<1> DEFINE w == CHOOSE u : Is(Len(str), u)
<1>3. Is(Len(str), w)
  <2> HIDE DEF Is
  <2> QED BY <1>2
<1>4. Write(s, str) = w[Len(str)]
  BY DEF Write
<1> QED BY <1>3, <1>4

(* shell_prompt ends with the prompt before the cursor, on a row of its    *)
(* own.                                                                    *)
LEMMA PromptShows ==
  ASSUME NEW s \in Screens
  PROVE  Prompted(s) \in Screens /\ Shows(Prompted(s), PromptLen, Prompt)
<1> DEFINE str == <<"nl">> \o Prompt
           m == PromptLen + 1
<1>0. /\ PromptLen \in Nat /\ PromptLen <= Last1 /\ Last1 \in Nat
      /\ Width \in Nat \ {0} /\ Height \in Nat \ {0, 1}
  <2>1. PICK P \in Nat : P = Width * Height
    BY TerminalAssumption
  <2>2. PromptLen + CmdMax < P /\ Last1 = P - 1 /\ PromptLen \in Nat /\ CmdMax \in Nat
    BY <2>1, TerminalAssumption DEF Last1
  <2> QED BY <2>2, TerminalAssumption
<1>1. /\ Len(str) = m /\ str[1] = "nl" /\ \A i \in 2 .. m : str[i] = Mark
  <2>1. Prompt \in Seq({Mark}) /\ Len(Prompt) = PromptLen
        /\ \A i \in 1 .. PromptLen : Prompt[i] = Mark
    BY <1>0 DEF Prompt
  <2>2. Prompt \in Seq({Mark, "nl"}) /\ <<"nl">> \in Seq({Mark, "nl"})
    BY <1>0 DEF Prompt
  <2>3. Len(<<"nl">>) = 1 /\ <<"nl">>[1] = "nl"
    OBVIOUS
  <2> HIDE DEF Prompt
  <2>4. /\ Len(str) = Len(<<"nl">>) + Len(Prompt)
        /\ \A i \in 1 .. Len(str) : str[i] = IF i <= Len(<<"nl">>) THEN <<"nl">>[i]
                                             ELSE Prompt[i - Len(<<"nl">>)]
    BY <2>2, ConcatProperties
  <2> HIDE DEF str
  <2>5. str[1] = "nl" /\ Len(str) = m
    BY <1>0, <2>1, <2>3, <2>4
  <2>6. ASSUME NEW i \in 2 .. m PROVE str[i] = Mark
    <3>1. i \in 1 .. Len(str) /\ ~(i <= 1) /\ i - 1 \in 1 .. PromptLen
      BY <1>0, <2>5
    <3>2. str[i] = Prompt[i - 1]
      BY <2>3, <2>4, <3>1
    <3> QED BY <2>1, <3>1, <3>2
  <2> QED BY <2>5, <2>6
<1> HIDE DEF str
<1>2. PICK u : /\ u = [i \in 0 .. Len(str) |-> IF i = 0 THEN s ELSE Putc(u[i-1], str[i])]
               /\ Write(s, str) = u[Len(str)]
  <2>1. Len(str) \in Nat
    BY <1>0, <1>1
  <2> QED BY <2>1, WriteIs
<1>3. u[0] = s /\ \A i \in 1 .. m : u[i] = Putc(u[i-1], str[i])
  BY <1>0, <1>1, <1>2
<1> DEFINE Good(k) == u[k] \in Screens /\ Shows(u[k], k - 1, Prompt)
           Bad == {k \in 1 .. m : ~Good(k)}
<1>4. Good(1)
  <2>1. u[1] = Putc(s, "nl")
    BY <1>0, <1>1, <1>3
  <2>2. u[1] \in Screens /\ u[1].col = 0
    BY <2>1, PutcLine
  <2>3. At(u[1]) = u[1].row * Width + 0 /\ u[1].row \in 0 .. (Height - 1)
    BY <2>2, AtIs
  <2>4. At(u[1]) = u[1].row * Width + (1 - 1)
    BY <2>3
  <2> QED BY <2>2, <2>3, <2>4 DEF Shows
<1>5. ASSUME NEW k \in 2 .. m, Good(k - 1) PROVE Good(k)
  <2>1. u[k] = Putc(u[k - 1], Mark) /\ Mark \in Glyphs \ Controls
    BY <1>0, <1>1, <1>3 DEF Mark, Glyphs, Controls
  <2> DEFINE n == k - 2
             v == u[k - 1]
  <2>2. n \in Nat /\ n < Last1 /\ (k - 1) - 1 = n /\ n + 1 = k - 1 /\ n + 1 \in 1 .. PromptLen
    BY <1>0
  <2>3. v \in Screens /\ Shows(v, n, Prompt)
    BY <1>5, <2>2
  <2>4. Prompt[n + 1] = Mark /\ \A i \in 1 .. n : Prompt[i] = Prompt[i]
    BY <2>2 DEF Prompt
  <2> HIDE DEF n, v, Prompt
  <2>5. Putc(v, Mark) \in Screens /\ Shows(Putc(v, Mark), n + 1, Prompt)
    BY <2>1, <2>2, <2>3, <2>4, PutcShows
  <2> QED BY <2>1, <2>2, <2>5 DEF v
<1>6. Bad = {}
  <2> SUFFICES ASSUME Bad # {} PROVE FALSE
    OBVIOUS
  <2> DEFINE l == Min(Bad)
  <2>1. l \in Bad /\ \A k \in Bad : l <= k
    <3>1. Bad \in SUBSET Nat
      OBVIOUS
    <3> HIDE DEF Bad
    <3> QED BY <3>1, LeastElement
  <2> HIDE DEF l, Good
  <2>2. l \in 1 .. m /\ ~Good(l)
    BY <2>1
  <2>3. l # 1
    BY <1>4, <2>2
  <2>4. l \in 2 .. m /\ l - 1 \in 1 .. m /\ ~(l <= l - 1)
    BY <1>0, <2>2, <2>3
  <2>5. Good(l - 1)
    BY <2>1, <2>4
  <2> QED BY <1>5, <2>2, <2>4, <2>5
<1>7. Good(m)
  <2> HIDE DEF Good
  <2> QED BY <1>0, <1>6
<1>8. Prompted(s) = u[m] /\ m - 1 = PromptLen
  BY <1>0, <1>1, <1>2 DEF Prompted, str
<1> QED BY <1>7, <1>8

(* A line of output leaves the cursor in column 0.                         *)
LEMMA OutputTyped ==
  ASSUME NEW s \in Screens
  PROVE  Write(s, <<"o", "nl">>) \in Screens /\ Write(s, <<"o", "nl">>).col = 0
<1> DEFINE str == <<"o", "nl">>
<1>2. Len(str) = 2 /\ str[1] = "o" /\ str[2] = "nl"
  OBVIOUS
<1> HIDE DEF str
<1>3. PICK u : /\ u = [i \in 0 .. Len(str) |-> IF i = 0 THEN s ELSE Putc(u[i-1], str[i])]
               /\ Write(s, str) = u[Len(str)]
  BY <1>2, WriteIs
<1>4. u[0] = s /\ u[1] = Putc(u[1 - 1], "o") /\ u[2] = Putc(u[2 - 1], "nl")
  BY <1>2, <1>3
<1>5. Putc(s, "o") \in Screens
  <2>1. "o" \in Glyphs \ Controls
    BY DEF Glyphs, Controls
  <2> QED BY <2>1, PutcGlyph
<1>6. Write(s, str) \in Screens /\ Write(s, str).col = 0
  BY <1>2, <1>3, <1>4, <1>5, PutcLine
<1> QED BY <1>6 DEF str

(* What a command leaves is a screen again.                                *)
LEMMA CommandTyped ==
  ASSUME NEW s \in Screens, NEW o \in CommandOutcomes(s)
  PROVE  o.screen \in Screens
<1>1. Cleared \in Screens
  BY TerminalAssumption DEF Cleared, Screens, Last1, Glyphs
<1>2. Write(s, <<"o", "nl">>) \in Screens
  BY OutputTyped
<1>3. o.screen \in {s, Cleared, Write(s, <<"o", "nl">>)}
  BY DEF CommandOutcomes
<1> QED BY <1>1, <1>2, <1>3

(* The line typed since the last output, of which the first a characters   *)
(* were there before.                                                      *)
Since(q, a) == [i \in 1 .. (PromptLen + Len(q) - a) |-> (Prompt \o q)[a + i]]

(* The shell's buffer and the screen, and that they agree on what was      *)
(* typed since the last output unless they have come apart.                *)
LineInv ==
  /\ screen \in Screens /\ char \in Chars
  /\ cmd \in Seq(Chars) /\ Len(cmd) <= CmdMax
  /\ above \in Nat
  /\ ~apart => /\ above <= PromptLen + Len(cmd)
               /\ Shows(screen, PromptLen + Len(cmd) - above, Since(cmd, above))

(* The line is the prompt, followed by the buffer.                         *)
LEMMA LineIs ==
  ASSUME NEW q \in Seq(Chars)
  PROVE  /\ Len(q) \in Nat /\ Len(Prompt \o q) = PromptLen + Len(q)
         /\ \A i \in 1 .. (PromptLen + Len(q)) :
              (Prompt \o q)[i] = IF i <= PromptLen THEN Mark ELSE q[i - PromptLen]
<1>0. PromptLen \in Nat
  BY TerminalAssumption
<1>1. /\ Prompt \in Seq(Chars \cup {Mark}) /\ Len(Prompt) = PromptLen
      /\ \A i \in 1 .. PromptLen : Prompt[i] = Mark
  BY <1>0 DEF Prompt
<1>2. q \in Seq(Chars \cup {Mark})
  OBVIOUS
<1> HIDE DEF Prompt
<1>3. /\ Len(Prompt \o q) = Len(Prompt) + Len(q)
      /\ \A i \in 1 .. (Len(Prompt) + Len(q)) :
           (Prompt \o q)[i] = IF i <= Len(Prompt) THEN Prompt[i] ELSE q[i - Len(Prompt)]
  BY <1>1, <1>2, ConcatProperties
<1> QED BY <1>0, <1>1, <1>3

LEMMA SinceIs ==
  ASSUME NEW q \in Seq(Chars), NEW a \in Nat, NEW i \in 1 .. (PromptLen + Len(q) - a)
  PROVE  Since(q, a)[i] = IF a + i <= PromptLen THEN Mark ELSE q[a + i - PromptLen]
<1>1. a + i \in 1 .. (PromptLen + Len(q))
  <2>1. PromptLen \in Nat /\ Len(q) \in Nat
    BY TerminalAssumption
  <2> QED BY <2>1
<1>0. PromptLen \in Nat /\ i \in Int
  BY TerminalAssumption
<1>2. PICK j \in Int : j = a + i
  BY <1>0
<1>3. (Prompt \o q)[j] = IF j <= PromptLen THEN Mark ELSE q[j - PromptLen]
  BY <1>1, <1>2, LineIs
<1>4. Since(q, a)[i] = (Prompt \o q)[a + i]
  BY DEF Since
<1>5. Since(q, a)[i] = (Prompt \o q)[j]
  BY <1>2, <1>4
<1>6. a + i - PromptLen = j - PromptLen /\ (a + i <= PromptLen <=> j <= PromptLen)
  BY <1>0, <1>2
<1> QED BY <1>3, <1>5, <1>6

(* The agreement in the next state, from screen, buffer and histories.     *)
LEMMA LineAgain ==
  ASSUME screen' \in Screens, char' \in Chars, cmd' \in Seq(Chars), Len(cmd') <= CmdMax,
         above' \in Nat,
         ~apart' => /\ above' <= PromptLen + Len(cmd')
                    /\ Shows(screen', PromptLen + Len(cmd') - above', Since(cmd', above'))
  PROVE  LineInv'
BY DEF LineInv, Shows, At, Since, Prompt

(* Output begins a row of its own, and nothing of the line stands before   *)
(* the cursor any more.                                                    *)
LEMMA OutputKeeps ==
  ASSUME LineInv, Output, char' \in Chars
  PROVE  LineInv'
<1>1. /\ PromptLen \in Nat /\ Len(cmd) \in Nat /\ screen \in Screens
      /\ cmd' = cmd /\ above' = PromptLen + Len(cmd) /\ cmd \in Seq(Chars) /\ Len(cmd) <= CmdMax
  BY TerminalAssumption DEF LineInv, Output
<1>2. screen' = Write(screen, <<"o", "nl">>)
  BY DEF Output
<1>3. screen' \in Screens /\ screen'.col = 0
  BY <1>1, <1>2, OutputTyped
<1> DEFINE s == screen'
           n == PromptLen + Len(cmd') - above'
<1>4. n = 0
  BY <1>1
<1>5. ASSUME NEW line PROVE Shows(s, 0, line)
  <2> HIDE DEF s
  <2>1. At(s) = s.row * Width + 0 /\ s.row \in 0 .. (Height - 1)
    BY <1>3, AtIs DEF s
  <2> QED BY <2>1 DEF Shows
<1>6. Shows(s, n, Since(cmd', above'))
  <2> HIDE DEF s, n
  <2> QED BY <1>4, <1>5
<1> QED BY <1>1, <1>3, <1>6, LineAgain

LEMMA EnterKeeps ==
  ASSUME LineInv, Enter, char' \in Chars
  PROVE  LineInv'
<1>1. PICK o \in CommandOutcomes(Putc(screen, "nl")) : screen' = Prompted(o.screen)
  BY DEF Enter
<1>2. o.screen \in Screens
  <2>1. Putc(screen, "nl") \in Screens
    BY PutcLine DEF LineInv
  <2> QED BY <2>1, CommandTyped
<1>3. screen' \in Screens /\ Shows(screen', PromptLen, Prompt)
  BY <1>1, <1>2, PromptShows
<1>4. cmd' = << >> /\ above' = 0 /\ PromptLen \in Nat /\ CmdMax \in Nat
  BY TerminalAssumption DEF Enter
<1>5. cmd' \in Seq(Chars) /\ Len(cmd') = 0 /\ PromptLen + Len(cmd') - above' = PromptLen
  BY <1>4
<1>6. \A i \in 1 .. PromptLen : Since(cmd', above')[i] = Prompt[i]
  <2> SUFFICES ASSUME NEW i \in 1 .. PromptLen PROVE Since(cmd', above')[i] = Prompt[i]
    OBVIOUS
  <2>1. i \in 1 .. (PromptLen + Len(cmd') - above') /\ above' \in Nat /\ above' + i <= PromptLen
    BY <1>4, <1>5
  <2> DEFINE q == cmd'
             a == above'
  <2> HIDE DEF q, a
  <2>2. Since(q, a)[i] = Mark
    BY <1>5, <2>1, SinceIs DEF q, a
  <2> QED BY <2>2 DEF q, a, Prompt
<1>7. Shows(screen', PromptLen, Since(cmd', above'))
  BY <1>3, <1>6 DEF Shows
<1> QED BY <1>3, <1>4, <1>5, <1>7, LineAgain

LEMMA BackKeeps ==
  ASSUME LineInv, Back, char' \in Chars
  PROVE  LineInv'
<1>0. /\ PromptLen \in Nat /\ CmdMax \in Nat /\ Len(cmd) \in Nat /\ above \in Nat
      /\ screen \in Screens /\ cmd \in Seq(Chars) /\ Len(cmd) <= CmdMax
  BY TerminalAssumption DEF LineInv
<1>1. CASE cmd = << >>
  <2>1. UNCHANGED lineVars
    BY <1>1 DEF Back
  <2> QED BY <2>1 DEF LineInv, lineVars, Shows, At, Since, Prompt
<1>2. CASE cmd # << >>
  <2>1. /\ cmd' = SubSeq(cmd, 1, Len(cmd) - 1)
        /\ screen' = Putc(screen, "bs") /\ above' = above
        /\ apart' = (apart \/ above = PromptLen + Len(cmd))
    BY <1>2 DEF Back
  <2>2. Len(cmd) >= 1
    BY <1>0, <1>2, EmptySeq
  <2>3. /\ cmd' \in Seq(Chars) /\ Len(cmd') = Len(cmd) - 1
        /\ \A i \in 1 .. (Len(cmd) - 1) : cmd'[i] = cmd[i]
    <3> DEFINE l == Len(cmd) - 1
    <3>1. l \in Nat /\ l \in 0 .. Len(cmd) /\ l - 1 + 1 = l /\ 1 - 1 = 0
      BY <1>0, <2>2
    <3> HIDE DEF l
    <3>2. /\ SubSeq(cmd, 1, l) \in Seq(Chars) /\ Len(SubSeq(cmd, 1, l)) = l - 1 + 1
          /\ \A i \in 1 .. (l - 1 + 1) : SubSeq(cmd, 1, l)[i] = cmd[1 + i - 1]
      BY <1>0, <3>1, SubSeqProperties
    <3>3. \A i \in 1 .. l : SubSeq(cmd, 1, l)[i] = cmd[i]
      BY <3>1, <3>2
    <3> QED BY <2>1, <3>1, <3>2, <3>3 DEF l
  <2>4. screen' \in Screens
    BY <1>0, <2>1, PutcBackTyped
  <2>5. ASSUME ~apart'
        PROVE  /\ above' <= PromptLen + Len(cmd')
               /\ Shows(screen', PromptLen + Len(cmd') - above', Since(cmd', above'))
    <3> DEFINE n == PromptLen + Len(cmd) - above
               line == Since(cmd, above)
               less == Since(cmd', above')
    <3>1. ~apart /\ above <= PromptLen + Len(cmd) /\ above # PromptLen + Len(cmd)
      BY <2>1, <2>5 DEF LineInv
    <3>2. /\ Shows(screen, n, line) /\ n \in Nat \ {0}
          /\ n - 1 = PromptLen + Len(cmd') - above' /\ above' <= PromptLen + Len(cmd')
      <4>1. Shows(screen, n, line)
        BY <3>1 DEF LineInv
      <4>2. PICK l \in Nat : l = Len(cmd)
        BY <1>0
      <4>3. Len(cmd') = l - 1 /\ above' = above /\ n = PromptLen + l - above
        BY <2>1, <2>3, <4>2
      <4>4. PromptLen \in Nat /\ above \in Nat
            /\ above <= PromptLen + l /\ above # PromptLen + l
        BY <1>0, <3>1, <4>2
      <4> HIDE DEF n, line
      <4>5. n \in Nat \ {0} /\ n - 1 = PromptLen + Len(cmd') - above'
        BY <4>3, <4>4
      <4>6. above' <= PromptLen + Len(cmd')
        BY <4>3, <4>4
      <4> QED BY <4>1, <4>5, <4>6
    <3>3. ASSUME NEW i \in 1 .. (n - 1) PROVE less[i] = line[i]
      <4>1. /\ i \in 1 .. n /\ i \in 1 .. (PromptLen + Len(cmd') - above')
            /\ i \in 1 .. (PromptLen + Len(cmd) - above)
        BY <1>0, <3>2
      <4>2. line[i] = IF above + i <= PromptLen THEN Mark ELSE cmd[above + i - PromptLen]
        BY <1>0, <4>1, SinceIs
      <4>3. less[i] = IF above + i <= PromptLen THEN Mark ELSE cmd'[above + i - PromptLen]
        <5> DEFINE q == cmd'
                   a == above'
        <5> HIDE DEF q, a
        <5>1. q \in Seq(Chars) /\ a \in Nat /\ i \in 1 .. (PromptLen + Len(q) - a)
          BY <1>0, <2>1, <2>3, <4>1 DEF q, a
        <5>2. Since(q, a)[i] = IF a + i <= PromptLen THEN Mark ELSE q[a + i - PromptLen]
          BY <5>1, SinceIs
        <5> QED BY <2>1, <5>2 DEF q, a
      <4>4. ~(above + i <= PromptLen) => above + i - PromptLen \in 1 .. (Len(cmd) - 1)
        BY <1>0, <2>1, <2>3, <4>1
      <4> QED BY <2>3, <4>2, <4>3, <4>4
    <3> HIDE DEF n, line, less
    <3>4. Shows(Putc(screen, "bs"), n - 1, less)
      BY <1>0, <3>2, <3>3, PutcErases
    <3> QED BY <2>1, <3>2, <3>4 DEF less
  <2>6. Len(cmd') <= CmdMax /\ above' \in Nat
    BY <1>0, <2>1, <2>3
  <2> QED BY <2>3, <2>4, <2>5, <2>6, LineAgain
<1> QED BY <1>1, <1>2

LEMMA InsertKeeps ==
  ASSUME LineInv, Insert, char \notin {"nl", "bs"}, char' \in Chars
  PROVE  LineInv'
<1>0. /\ PromptLen \in Nat /\ CmdMax \in Nat /\ Len(cmd) \in Nat /\ above \in Nat
      /\ screen \in Screens /\ cmd \in Seq(Chars) /\ char \in Chars /\ Len(cmd) <= CmdMax
  BY TerminalAssumption DEF LineInv
<1>1. PromptLen + CmdMax <= Last1 /\ Last1 \in Nat
  <2>1. PICK P \in Nat : P = Width * Height
    BY TerminalAssumption
  <2> QED BY <1>0, <2>1, TerminalAssumption DEF Last1
<1>2. CASE ~(Len(cmd) < CmdMax)
  <2>1. UNCHANGED lineVars
    BY <1>2 DEF Insert
  <2> QED BY <2>1 DEF LineInv, lineVars, Shows, At, Since, Prompt
<1>3. CASE Len(cmd) < CmdMax
  <2>1. /\ cmd' = Append(cmd, char) /\ screen' = Putc(screen, char)
        /\ apart' = (apart \/ char = "tab") /\ above' = above
    BY <1>3 DEF Insert
  <2>2. /\ cmd' \in Seq(Chars) /\ Len(cmd') = Len(cmd) + 1
        /\ \A i \in 1 .. Len(cmd) : cmd'[i] = cmd[i]
        /\ cmd'[Len(cmd) + 1] = char
    BY <1>0, <2>1, AppendProperties
  <2>3. Len(cmd') <= CmdMax /\ above' \in Nat
    BY <1>0, <1>3, <2>1, <2>2
  <2>4. CASE char = "tab"
    <3>1. screen' = screen /\ apart'
      BY <1>0, <2>1, <2>4, PutcLine
    <3> QED BY <1>0, <2>2, <2>3, <3>1, LineAgain
  <2>5. CASE char # "tab"
    <3>1. char \in Glyphs \ Controls
      BY <1>0, <2>5 DEF Chars, Glyphs, Controls
    <3>2. screen' \in Screens
      BY <1>0, <2>1, <3>1, PutcGlyph
    <3>3. ASSUME ~apart'
          PROVE  /\ above' <= PromptLen + Len(cmd')
                 /\ Shows(screen', PromptLen + Len(cmd') - above', Since(cmd', above'))
      <4> DEFINE n == PromptLen + Len(cmd) - above
                 line == Since(cmd, above)
                 more == Since(cmd', above')
      <4>1. Shows(screen, n, line) /\ above <= PromptLen + Len(cmd)
        BY <2>1, <3>3 DEF LineInv
      <4>2. /\ n \in Nat /\ n < Last1 /\ n + 1 = PromptLen + Len(cmd') - above'
            /\ above' <= PromptLen + Len(cmd')
        <5>1. Len(cmd') = Len(cmd) + 1 /\ above' = above
          BY <2>1, <2>2
        <5> QED BY <1>0, <1>1, <1>3, <4>1, <5>1
      <4>3. ASSUME NEW i \in 1 .. (n + 1)
            PROVE  more[i] = IF above + i <= PromptLen THEN Mark ELSE cmd'[above + i - PromptLen]
        <5> DEFINE q == cmd'
                   a == above'
        <5> HIDE DEF q, a
        <5>1. q \in Seq(Chars) /\ a \in Nat /\ i \in 1 .. (PromptLen + Len(q) - a)
          BY <1>0, <2>1, <2>2, <4>2 DEF q, a
        <5>2. Since(q, a)[i] = IF a + i <= PromptLen THEN Mark ELSE q[a + i - PromptLen]
          BY <5>1, SinceIs
        <5> QED BY <2>1, <5>2 DEF q, a
      <4>4. ASSUME NEW i \in 1 .. n PROVE more[i] = line[i]
        <5>1. i \in 1 .. (n + 1) /\ i \in 1 .. (PromptLen + Len(cmd) - above)
          BY <4>2
        <5>2. line[i] = IF above + i <= PromptLen THEN Mark ELSE cmd[above + i - PromptLen]
          BY <1>0, <5>1, SinceIs
        <5>3. ~(above + i <= PromptLen) => above + i - PromptLen \in 1 .. Len(cmd)
          BY <1>0, <5>1
        <5> HIDE DEF n, line, more
        <5> QED BY <2>2, <4>3, <5>1, <5>2, <5>3
      <4>5. more[n + 1] = char
        <5>1. /\ n + 1 \in 1 .. (n + 1) /\ ~(above + (n + 1) <= PromptLen)
              /\ above + (n + 1) - PromptLen = Len(cmd) + 1
          BY <1>0, <4>2
        <5> HIDE DEF n, more
        <5> QED BY <2>2, <4>3, <5>1
      <4> HIDE DEF n, line, more
      <4>6. Shows(Putc(screen, char), n + 1, more)
        BY <1>0, <3>1, <4>1, <4>2, <4>4, <4>5, PutcShows
      <4> QED BY <2>1, <4>2, <4>6 DEF more
    <3> QED BY <2>2, <2>3, <3>2, <3>3, LineAgain
  <2> QED BY <2>4, <2>5
<1> QED BY <1>2, <1>3

LEMMA LineStep == KeysInv /\ LineInv /\ [TermNext]_termVars => LineInv'
<1> SUFFICES ASSUME KeysInv, LineInv, [TermNext]_termVars PROVE LineInv'
  OBVIOUS
<1>1. ASSUME char' \in Chars, UNCHANGED lineVars PROVE LineInv'
  BY <1>1 DEF LineInv, lineVars, Shows, At, Since, Prompt
<1>2. ASSUME NEW c \in Letters \cup {"nl", "bs", "tab"}, KeyPress(c) PROVE LineInv'
  BY <1>1, <1>2 DEF KeyPress, LineInv
<1>3. CASE TimerWake \/ BridgeTakes \/ Poll \/ TakeKey \/ Halt \/ UNCHANGED termVars
  <2>1. char' = char /\ UNCHANGED lineVars
    BY <1>3 DEF TimerWake, BridgeTakes, Poll, TakeKey, Halt, termVars, lineVars
  <2> QED BY <1>1, <2>1 DEF LineInv
<1>4. CASE Read
  <2>1. kb.buf[kb.tail] \in Chars
    BY DEF KeysInv, KbRing
  <2> QED BY <1>1, <1>4, <2>1 DEF Read
<1>5. CASE ConsumeOne \/ PollResponse \/ RspInterrupt
  <2>1. char' = char /\ (Output \/ UNCHANGED lineVars)
    BY <1>5 DEF ConsumeOne, PollResponse, RspInterrupt
  <2> QED BY <1>1, <2>1, OutputKeeps DEF LineInv
<1>6. CASE Edit
  <2>1. char' \in Chars
    BY <1>6 DEF Edit, Chars
  <2>2. Enter \/ Back \/ (Insert /\ char \notin {"nl", "bs"})
    BY <1>6 DEF Edit
  <2> QED BY <2>1, <2>2, EnterKeeps, BackKeeps, InsertKeeps
<1> QED BY <1>2, <1>3, <1>4, <1>5, <1>6 DEF TermNext, ShellStep

LEMMA LineStart == TermInit => LineInv
<1> SUFFICES ASSUME TermInit PROVE LineInv
  OBVIOUS
<1>1. screen = Prompted(Cleared) /\ cmd = << >> /\ char \in Chars /\ above = 0
  BY DEF TermInit, Chars
<1>2. Cleared \in Screens
  BY TerminalAssumption DEF Cleared, Screens, Last1, Glyphs
<1>3. screen \in Screens /\ Shows(screen, PromptLen, Prompt)
  BY <1>1, <1>2, PromptShows
<1>4. /\ PromptLen \in Nat /\ CmdMax \in Nat /\ cmd \in Seq(Chars) /\ Len(cmd) = 0
      /\ PromptLen + Len(cmd) - above = PromptLen /\ above <= PromptLen + Len(cmd)
      /\ Len(cmd) <= CmdMax /\ above \in Nat
  <2>1. PromptLen \in Nat /\ CmdMax \in Nat
    BY TerminalAssumption
  <2> QED BY <1>1, <2>1
<1>5. \A i \in 1 .. PromptLen : Since(cmd, above)[i] = Prompt[i]
  <2> SUFFICES ASSUME NEW i \in 1 .. PromptLen PROVE Since(cmd, above)[i] = Prompt[i]
    OBVIOUS
  <2>1. i \in 1 .. (PromptLen + Len(cmd) - above) /\ above + i <= PromptLen
    BY <1>1, <1>4
  <2>2. Since(cmd, above)[i] = Mark
    BY <1>4, <2>1, SinceIs
  <2> QED BY <2>2 DEF Prompt
<1>6. Shows(screen, PromptLen, Since(cmd, above))
  BY <1>3, <1>5 DEF Shows
<1> QED BY <1>1, <1>3, <1>4, <1>6 DEF LineInv

LEMMA LineSeen == LineInv => LineShown
<1> SUFFICES ASSUME LineInv, ~apart PROVE LineShown
  BY DEF LineShown
<1> DEFINE line == Prompt \o cmd
           n == Len(line) - above
           from == At(screen) - n
<1>1. /\ Len(line) = PromptLen + Len(cmd) /\ n \in Nat /\ Shows(screen, n, Since(cmd, above))
      /\ \A i \in 1 .. n : Since(cmd, above)[i] = line[above + i]
  <2>1. cmd \in Seq(Chars) /\ PromptLen \in Nat /\ above \in Nat
    BY TerminalAssumption DEF LineInv
  <2>2. Len(line) = PromptLen + Len(cmd) /\ Len(cmd) \in Nat
    BY <2>1, LineIs
  <2>3. n = PromptLen + Len(cmd) - above /\ above <= PromptLen + Len(cmd)
    <3>1. above <= PromptLen + Len(cmd)
      BY DEF LineInv
    <3>2. n = PromptLen + Len(cmd) - above
      BY <2>1, <2>2
    <3> QED BY <3>1, <3>2
  <2>4. n \in Nat
    BY <2>1, <2>2, <2>3
  <2>5. Shows(screen, n, Since(cmd, above))
    BY <2>3 DEF LineInv
  <2>6. \A i \in 1 .. n : Since(cmd, above)[i] = line[above + i]
    BY <2>3 DEF Since
  <2> QED BY <2>2, <2>4, <2>5, <2>6
<1> HIDE DEF line, n
<1>2. PICK b \in 0 .. (Height - 1) :
        /\ At(screen) = b * Width + n
        /\ \A i \in 1 .. n : screen.cells[b * Width + i - 1] = Since(cmd, above)[i]
  BY <1>1 DEF Shows
<1>3. PICK B \in Nat : B = b * Width
  BY RowIs
<1>4. from = B
  BY <1>1, <1>2, <1>3
<1>5. from >= 0 /\ \A i \in 1 .. n : screen.cells[from + i - 1] = line[above + i]
  <2> HIDE DEF from
  <2> QED BY <1>1, <1>2, <1>3, <1>4
<1> QED BY <1>5 DEF LineShown, line, n

(* The ring holds the keys in the order they were typed, and the shell     *)
(* takes the oldest, whenever the interrupt comes; and what was typed      *)
(* since the last output, prompt included, stands before the cursor, over  *)
(* the end of rows, after a scroll and after backspaces, until a control   *)
(* character gets into the buffer or a backspace goes on into what is      *)
(* above the output: for every size of rings and of a screen that a line   *)
(* fits, whenever the response interrupt, the mock consumer and the poll   *)
(* of responses print.                                                     *)
THEOREM TerminalStaysTrue == TermSpec => []TerminalTrue
<1>1. TermInit => KeysInv /\ LineInv
  BY KeysStart, LineStart
<1>2. KeysInv /\ LineInv /\ [TermNext]_termVars => (KeysInv /\ LineInv)'
  BY KeysStep, LineStep
<1>3. KeysInv /\ LineInv => TerminalTrue
  BY KeysSeen, LineSeen DEF TerminalTrue
<1> QED BY <1>1, <1>2, <1>3, PTL DEF TermSpec

=============================================================================
