------------------------------ MODULE Episode ------------------------------
(***************************************************************************)
(* The safe tuning engine of kernel/engine/episode.c, driven by the main   *)
(* loop of kmain.c, on the device of kernel/drivers/mock_gpu.c: propose a  *)
(* clock, apply it, watch the device, then keep the clock or roll back.    *)
(*                                                                         *)
(* The device's numbers (temperature, utilisation and their limits) are    *)
(* constants, so that a small instance heats up, cools down and improves   *)
(* within a few samples.  The collector interface may also fail to answer  *)
(* or report ECC errors, which the mock never does: Answers and Ecc say    *)
(* what a collector may do.                                                *)
(***************************************************************************)
EXTENDS Integers, FiniteSets

CONSTANTS Clocks,       \* clocks that may be proposed
          Durations,    \* duration_steps that may be proposed
          Baseline,     \* 1000, the "mock baseline" of original_clock
          FastClock,    \* 1500: above it the device heats up more
          HeatFast,     \* 5, what set_clock adds to the temperature then
          TempStart, TempFloor, TempLimit,      \* 65, 60 and 90
          UtilStart, UtilMod, UtilGoal,         \* 40, 100 and 50
          Answers,      \* outcomes of get_snapshot: TRUE is an answer
          Ecc,          \* ecc_errors a snapshot may report
          MaxEpisodes   \* bound on episode_id

ASSUME EpisodeAssumption ==
  /\ Clocks \subseteq Nat /\ Durations \subseteq Nat /\ IsFiniteSet(Durations)
  /\ Baseline \in Nat /\ FastClock \in Nat /\ HeatFast \in Nat
  /\ TempStart \in Nat /\ TempFloor \in Nat /\ TempLimit \in Nat
  /\ UtilMod \in Nat \ {0} /\ UtilStart \in 0 .. (UtilMod - 1) /\ UtilGoal \in Nat
  /\ Answers \subseteq BOOLEAN /\ Answers # {} /\ Ecc \subseteq Nat /\ Ecc # {}
  /\ MaxEpisodes \in Nat

VARIABLES ep,        \* current_episode
          active,    \* episode_active
          gpu,       \* current_clock, current_temp and current_util
          broke      \* history: a sample of this episode broke a guardrail

epVars == <<ep, active, gpu, broke>>

States == {"IDLE", "PROPOSE", "VALIDATE", "APPLY", "MONITOR", "DECIDE", "ROLLBACK"}

EpisodeInit ==
  /\ ep = [id |-> 0, state |-> "IDLE", total |-> 0, done |-> 0, utils |-> 0,
           samples |-> 0, proposed |-> 0, original |-> 0]
  /\ active = FALSE
  /\ gpu = [clock |-> Baseline, temp |-> TempStart, util |-> UtilStart]
  /\ broke = FALSE

-----------------------------------------------------------------------------
(* The device                                                              *)

\* mock_set_clock: the clock changes and the device warms up.
SetClock(c) == gpu' = [gpu EXCEPT !.clock = c,
                                  !.temp = @ + IF c > FastClock THEN HeatFast ELSE 1]

\* mock_get_snapshot reads, then cools the device and moves the utilisation.
Sampled == gpu' = [gpu EXCEPT !.temp = IF @ > TempFloor THEN @ - 1 ELSE @,
                              !.util = (@ + 1) % UtilMod]

\* check_guardrails
Breaks(ecc) == gpu.temp > TempLimit \/ ecc > 0

-----------------------------------------------------------------------------
(* The engine                                                              *)

\* episode_propose: refused while an episode is active.
Propose(clock, duration) ==
  /\ ~active
  /\ ep.id < MaxEpisodes
  /\ ep' = [id |-> ep.id + 1, state |-> "PROPOSE", total |-> duration, done |-> 0,
            utils |-> 0, samples |-> 0, proposed |-> clock, original |-> Baseline]
  /\ active' = TRUE
  /\ broke' = FALSE
  /\ UNCHANGED gpu

Goto(s) == ep' = [ep EXCEPT !.state = s]

Validate ==
  /\ active
  /\ \/ ep.state = "PROPOSE" /\ Goto("VALIDATE")
     \/ ep.state = "VALIDATE" /\ Goto("APPLY")
  /\ UNCHANGED <<active, gpu, broke>>

Apply ==
  /\ active /\ ep.state = "APPLY"
  /\ SetClock(ep.proposed)
  /\ Goto("MONITOR")
  /\ UNCHANGED <<active, broke>>

\* One monitor step.  A sample that breaks a guardrail is accumulated and
\* ends the monitoring at once; a missing answer only counts as a step.
Monitored(e) ==
  [e EXCEPT !.done = @ + 1,
            !.state = IF e.done + 1 >= e.total THEN "DECIDE" ELSE "MONITOR"]

Monitor(answers, ecc) ==
  /\ active /\ ep.state = "MONITOR"
  /\ IF answers
     THEN LET e == [ep EXCEPT !.utils = @ + gpu.util, !.samples = @ + 1] IN
          /\ ep' = IF Breaks(ecc) THEN [e EXCEPT !.state = "ROLLBACK"] ELSE Monitored(e)
          /\ broke' = (broke \/ Breaks(ecc))
          /\ Sampled
     ELSE ep' = Monitored(ep) /\ UNCHANGED <<gpu, broke>>
  /\ UNCHANGED active

AvgUtil == IF ep.samples > 0 THEN ep.utils \div ep.samples ELSE 0

\* Mutant: the episode stays active after its promotion.
Promote_Active ==
  /\ active /\ ep.state = "DECIDE" /\ AvgUtil > UtilGoal
  /\ Goto("IDLE")
  /\ UNCHANGED <<active, gpu, broke>>

Promote ==
  /\ active /\ ep.state = "DECIDE" /\ AvgUtil > UtilGoal
  /\ Goto("IDLE")
  /\ active' = FALSE
  /\ UNCHANGED <<gpu, broke>>

Reject ==
  /\ active /\ ep.state = "DECIDE" /\ AvgUtil <= UtilGoal
  /\ Goto("ROLLBACK")
  /\ UNCHANGED <<active, gpu, broke>>

\* Mutant: the rollback ends the episode and leaves the clock.
Rollback_Keep ==
  /\ active /\ ep.state = "ROLLBACK"
  /\ Goto("IDLE")
  /\ active' = FALSE
  /\ UNCHANGED <<gpu, broke>>

Rollback ==
  /\ active /\ ep.state = "ROLLBACK"
  /\ SetClock(ep.original)
  /\ Goto("IDLE")
  /\ active' = FALSE
  /\ UNCHANGED broke

EpisodeTick ==
  \/ Validate \/ Apply \/ Promote \/ Reject \/ Rollback
  \/ \E a \in Answers, e \in Ecc : Monitor(a, e)

EpisodeNext ==
  \/ \E c \in Clocks, d \in Durations : Propose(c, d)
  \/ EpisodeTick

\* The main loop ticks the engine for ever; nothing obliges anyone to propose.
EpisodeFairness == WF_epVars(EpisodeTick)

EpisodeSpec == EpisodeInit /\ [][EpisodeNext]_epVars /\ EpisodeFairness

-----------------------------------------------------------------------------
(* What the engine promises                                                *)

\* Between episodes the device runs at the baseline, or at the clock of an
\* episode that was promoted without one sample breaking a guardrail; in
\* particular the clock of an episode that broke one is never left in force.
IdleClockSafe == ~active =>
  \/ gpu.clock = Baseline
  \/ gpu.clock = ep.proposed /\ ~broke /\ ep.samples > 0 /\ AvgUtil > UtilGoal

\* Once a sample broke a guardrail the engine can only roll back: it takes no
\* further sample and cannot reach the decision that would promote the clock.
BrokenRollsBack == broke /\ active => ep.state = "ROLLBACK" /\ ep.original = Baseline

\* The device is safe between episodes and while one is being rolled back.
DeviceSafe == IdleClockSafe /\ BrokenRollsBack

\* Every accepted proposal is decided: promoted or rolled back.
EveryEpisodeEnds == active ~> ~active

=============================================================================
