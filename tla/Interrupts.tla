----------------------------- MODULE Interrupts -----------------------------
(***************************************************************************)
(* Hardware interrupts on i386: the two cascaded 8259 controllers, the     *)
(* dispatcher and the mask operations of kernel/arch/pic.c, and the sleep  *)
(* of kernel/arch/pit.c that waits for timer interrupts.                   *)
(*                                                                         *)
(* The controllers are hardware: requests are latched in irr, masked by    *)
(* imr, and a line in service keeps its own and all lower priorities out   *)
(* until it is acknowledged.  The gates of idt_init disable interrupts, so *)
(* a delivery and its handler are one step.  A request may vanish between  *)
(* the signal to the CPU and its acknowledge: the controller then delivers *)
(* line 7 or 15 with nothing in service, the spurious interrupts that      *)
(* irq_handler looks for.                                                  *)
(***************************************************************************)
EXTENDS Integers, FiniteSets, FiniteSetsExt

CONSTANTS Lines,       \* lines that are wired to a device, 0 is the timer
          TickSpan,    \* timer_ticks is counted modulo TickSpan (2^32)
          TickRate,    \* tick_rate_hz
          WordSpan,    \* products are computed modulo WordSpan (2^32)
          Sleeps       \* milliseconds a sleep may be asked for

ASSUME InterruptsAssumption ==
  /\ Lines \subseteq (0 .. 15) \ {2} /\ 0 \in Lines
  /\ TickSpan \in Nat \ {0, 1} /\ TickRate \in Nat \ {0} /\ Sleeps \subseteq Nat
  /\ WordSpan \in 1 .. (1000 * TickSpan)

VARIABLES irr, isr, imr,   \* requested, in service, masked lines
          handlers,        \* lines with a handler in irq_handlers
          timerTicks,      \* timer_ticks
          sleeper,         \* pit_sleep_ms: its state, ms, start and ticks
          slept            \* history: timer interrupts since the sleep began

irqVars == <<irr, isr, imr, handlers, timerTicks, sleeper, slept>>

Cascade == 2
Master == 0 .. 7
Slave  == 8 .. 15
OnMaster(q) == IF q \in Slave THEN Cascade ELSE q

\* pic_init masks every line and clears the handlers but the timer's, then
\* pit_init unmasks the timer; the sleeper has not started.
IrqInit ==
  /\ irr = {} /\ isr = {} /\ imr = 1 .. 15
  /\ handlers = {0}
  /\ timerTicks = 0
  /\ sleeper = [pc |-> "awake", ms |-> 0, start |-> 0, need |-> 0]
  /\ slept = 0

-----------------------------------------------------------------------------
(* The controllers                                                         *)

Unmasked(q) == q \notin imr /\ (q \in Slave => Cascade \notin imr)

Deliverable(q) ==
  /\ q \in irr /\ Unmasked(q)
  /\ \A s \in isr \cap Master : s > OnMaster(q)
  /\ \A s \in isr \cap Slave : q \in Slave => s > q

Before(p, q) == OnMaster(p) < OnMaster(q) \/ (OnMaster(p) = OnMaster(q) /\ p < q)
Highest(q) == Deliverable(q) /\ \A p \in irr : Deliverable(p) => p = q \/ Before(q, p)

\* The end-of-interrupt command takes the highest line out of service.
EoiOf(s, pic) == IF s \cap pic = {} THEN s ELSE s \ {Min(s \cap pic)}

\* pic_send_eoi: a slave line needs one at both controllers.
SendEoi(s, q) == EoiOf(IF q \in Slave THEN EoiOf(s, Slave) ELSE s, Master)

-----------------------------------------------------------------------------
(* The dispatcher                                                          *)

\* Mutant: a spurious line 15 is ignored like a spurious line 7.
AfterIrqHandler_NoEoi(q, s) == IF q \in {7, 15} /\ q \notin s THEN s ELSE SendEoi(s, q)

\* What is left in service by irq_handler for line q, given what was in
\* service when it was called.
AfterIrqHandler(q, s) ==
  CASE q = 7  /\ 7  \notin s -> s
    [] q = 15 /\ 15 \notin s -> EoiOf(s, Master)
    [] OTHER -> SendEoi(s, q)

\* timer_handler counts; other handlers belong to their drivers.  A halted
\* sleeper is woken by any interrupt, and runs before the counter of its ticks
\* could wrap (InTime).
InTime == sleeper.pc = "test" => slept < TickSpan - 1
Woken == IF sleeper.pc = "halted" THEN [sleeper EXCEPT !.pc = "test"] ELSE sleeper

Interrupt(q) ==
  /\ Highest(q) /\ (q = 0 => InTime)
  /\ irr' = irr \ {q}
  /\ isr' = AfterIrqHandler(q, isr \cup {q, OnMaster(q)})
  /\ IF q = 0 /\ 0 \in handlers
     THEN /\ timerTicks' = (timerTicks + 1) % TickSpan
          /\ slept' = IF slept < TickSpan - 1 THEN slept + 1 ELSE slept
     ELSE UNCHANGED <<timerTicks, slept>>
  /\ sleeper' = Woken
  /\ UNCHANGED <<imr, handlers>>

\* The request of q vanishes before it is acknowledged; the timer's does not.
Spurious(q) ==
  /\ Highest(q) /\ q # 0
  /\ irr' = irr \ {q}
  /\ isr' = IF q \in Slave THEN AfterIrqHandler(15, isr \cup {Cascade})
                           ELSE AfterIrqHandler(7, isr)
  /\ sleeper' = Woken
  /\ UNCHANGED <<imr, handlers, timerTicks, slept>>

Raise(q) ==
  /\ q \notin irr
  /\ irr' = irr \cup {q}
  /\ UNCHANGED <<isr, imr, handlers, timerTicks, sleeper, slept>>

-----------------------------------------------------------------------------
(* Drivers                                                                 *)

\* Mutant: registering a handler forgets the others.
UnmaskIrq_Forget(q) ==
  /\ handlers' = {q}
  /\ imr' = imr \ (IF q \in Slave THEN {q, Cascade} ELSE {q})
  /\ UNCHANGED <<irr, isr, timerTicks, sleeper, slept>>

\* irq_register_handler and pic_unmask_irq, as keyboard_init and pit_init call
\* them; a slave line also unmasks the cascade.
UnmaskIrq(q) ==
  /\ handlers' = handlers \cup {q}
  /\ imr' = imr \ (IF q \in Slave THEN {q, Cascade} ELSE {q})
  /\ UNCHANGED <<irr, isr, timerTicks, sleeper, slept>>

\* pic_mask_irq: only the line itself.
MaskIrq(q) ==
  /\ imr' = imr \cup {q}
  /\ UNCHANGED <<irr, isr, handlers, timerTicks, sleeper, slept>>

-----------------------------------------------------------------------------
(* pit_sleep_ms                                                            *)

\* At least one tick; the product may wrap.
Ticks(ms) ==
  LET t == ((ms * TickRate) % WordSpan) \div 1000
  IN IF t = 0 THEN 1 ELSE t

SleepStart(ms) ==
  /\ sleeper.pc = "awake"
  /\ sleeper' = [pc |-> "test", ms |-> ms, start |-> timerTicks, need |-> Ticks(ms)]
  /\ slept' = 0
  /\ UNCHANGED <<irr, isr, imr, handlers, timerTicks>>

\* Mutant: the difference without regard to a wrap.
Elapsed_Plain == IF timerTicks >= sleeper.start THEN timerTicks - sleeper.start
                 ELSE sleeper.start - timerTicks

\* The difference of two 32-bit counters, which survives their wrap.
Elapsed == (timerTicks - sleeper.start) % TickSpan

SleepTest ==
  /\ sleeper.pc = "test"
  /\ sleeper' = [sleeper EXCEPT !.pc = IF Elapsed < sleeper.need THEN "halted" ELSE "awake"]
  /\ UNCHANGED <<irr, isr, imr, handlers, timerTicks, slept>>

-----------------------------------------------------------------------------
IrqNext ==
  \/ \E q \in Lines : Interrupt(q) \/ Spurious(q) \/ Raise(q)
  \/ \E q \in Lines : UnmaskIrq(q) \/ (q # 0 /\ MaskIrq(q))
  \/ \E ms \in Sleeps : SleepStart(ms)
  \/ SleepTest

\* The timer keeps raising its line, and the CPU keeps running: it takes a
\* deliverable interrupt and lets the sleeper go on.
IrqFairness ==
  /\ WF_irqVars(Raise(0)) /\ WF_irqVars(Interrupt(0)) /\ WF_irqVars(SleepTest)

IrqSpec == IrqInit /\ [][IrqNext]_irqVars /\ IrqFairness

-----------------------------------------------------------------------------
(* What the dispatcher and the sleep promise                               *)

\* No line is left in service when its handler has returned, whether it was
\* genuine or spurious: one forgotten acknowledge would silence its own and
\* every lower line for good.
NothingInService == isr = {}

\* A line that some driver unmasked can reach the CPU: lines of the second
\* controller also need the cascade line, which no mask operation takes away.
UnmaskedReach == \A q \in Lines : q \notin imr => Unmasked(q)

\* Both: no line is shut out by an earlier interrupt or by the other controller.
InterruptsServed == NothingInService /\ UnmaskedReach

\* pit_sleep_ms returns only after a timer interrupt, and after as many as the
\* milliseconds come to but for less than one tick, also when timer_ticks wraps
\* meanwhile; unless the product of milliseconds and rate did not fit its word.
SleepFull == [][sleeper.pc = "test" /\ sleeper'.pc = "awake" =>
                /\ slept >= 1
                /\ sleeper.ms * TickRate < WordSpan
                     => (slept + 1) * 1000 > sleeper.ms * TickRate]_irqVars

\* A sleep ends.
SleepEnds == sleeper.pc # "awake" ~> sleeper.pc = "awake"

=============================================================================
