----------------------------- MODULE Processes -----------------------------
(***************************************************************************)
(* The round-robin process scheduler of kernel/sched/sched_core.c with its *)
(* three callers: the timer interrupt (pic.c), sys_yield and sys_exit      *)
(* (syscall.c), and switch_to (switch.s), which saves one context and      *)
(* loads another.  The idle process builds the ring as sched_test_rr does. *)
(*                                                                         *)
(* The timer's gate disables interrupts, so its schedule() is one step.    *)
(* The system call gate is a trap gate: a schedule() that a process called *)
(* may itself be interrupted after its test of the quantum, and between    *)
(* choosing the next process and switching to it, where the timer's        *)
(* schedule() runs on the stack of a process that is no longer             *)
(* current_process.                                                        *)
(***************************************************************************)
EXTENDS Integers, FiniteSets

CONSTANTS Procs,       \* user processes
          idle,        \* PID 0
          Quantum,     \* 5, what ticks_remaining is reset to
          MaxNested    \* timer interrupts that may hit one switch

Tasks == Procs \cup {idle}
None == "none"

ASSUME ProcessesAssumption ==
  /\ IsFiniteSet(Procs) /\ idle \notin Procs
  /\ None \notin Tasks                     \* NULL is no process
  /\ Quantum \in Nat /\ MaxNested \in 0 .. Quantum

VARIABLES next,       \* process_t.next, None for a process not linked yet
          remaining,  \* ticks_remaining
          state,      \* PROCESS_STATE_*
          current,    \* current_process
          running,    \* the task whose stack the CPU is on
          saved,      \* whose context esp of each task leads to
          pdbr,       \* the task whose directory is loaded; None is address 0
          entered,    \* processes in schedule() that found the quantum used up
          target,     \* the local variable next of an interrupted schedule()
          nested,     \* timer interrupts since that schedule() chose
          building,   \* what sched_test_rr is about to link, and how far it is
          exited,     \* processes in the loop of sys_exit
          had         \* history: tasks that have had the CPU

procVars == <<next, remaining, state, current, running, saved, pdbr, entered,
              target, nested, building, exited, had>>

\* The idle process alone, on the kernel's directory.
ProcInit ==
  /\ next = [t \in Tasks |-> IF t = idle THEN idle ELSE None]
  /\ remaining = [t \in Tasks |-> Quantum]
  /\ state = [t \in Tasks |-> IF t = idle THEN "RUNNING" ELSE "NEW"]
  /\ current = idle /\ running = idle /\ pdbr = "kernel"
  /\ saved = [t \in Tasks |-> t]
  /\ entered = {} /\ target = None /\ nested = 0
  /\ building = <<None, 0>>
  /\ exited = {} /\ had = {idle}

\* process_t.cr3: a process has its directory, the idle process the 0 that
\* memset left there.  On directory 0 the machine is dead.
Cr3Of(t) == IF t = idle THEN None ELSE t
Alive == pdbr # None

-----------------------------------------------------------------------------
(* schedule()                                                              *)

\* It goes as far as a switch only when the quantum is used up and there is
\* another process.
Switches == remaining[current] = 0 /\ next[current] \notin {None, current}

UsedTicks == [remaining EXCEPT ![current] = IF @ > 0 THEN @ - 1 ELSE Quantum]

Turned(n) == [t \in Tasks |->
  IF t = n THEN "RUNNING"
  ELSE IF t = current /\ state[t] = "RUNNING" THEN "READY" ELSE state[t]]

\* switch_to(prev, n): the CPU's own stack goes to prev->esp.
SwitchTo(prev, n) ==
  /\ saved' = [saved EXCEPT ![prev] = running]
  /\ running' = saved[n]
  /\ pdbr' = Cr3Of(n)
  /\ had' = had \cup {saved[n]}

\* The timer interrupt, also within somebody's schedule().
TimerTick ==
  /\ Alive
  /\ target # None => nested < MaxNested
  /\ remaining' = UsedTicks
  /\ IF Switches
     THEN /\ current' = next[current]
          /\ state' = Turned(next[current])
          /\ SwitchTo(current, next[current])
          /\ target' = None /\ nested' = 0
     ELSE /\ nested' = IF target # None THEN nested + 1 ELSE 0
          /\ UNCHANGED <<current, state, running, saved, pdbr, target, had>>
  /\ UNCHANGED <<next, entered, building, exited>>

\* A process is free to call: it is not within a schedule() already.
MayCall == Alive /\ target = None /\ running \in Procs \ entered

\* schedule() called by the running process, its test of the quantum.  The
\* counter is loaded once, so a timer interrupt before it is stored costs a
\* tick at most; the count is one step.
ScheduleCall ==
  /\ IF remaining[current] > 0
     THEN remaining' = UsedTicks /\ UNCHANGED entered
     ELSE entered' = entered \cup {running} /\ UNCHANGED remaining
  /\ UNCHANGED <<next, state, current, running, saved, pdbr, target, nested, building, had>>

\* The rest of it, up to the call of switch_to.  The timer may have taken the
\* process off the CPU since the test and given it a new quantum.
Choose ==
  /\ Alive /\ target = None /\ running \in entered
  /\ entered' = entered \ {running}
  /\ remaining' = [remaining EXCEPT ![current] = Quantum]
  /\ IF next[current] \notin {None, current}
     THEN /\ current' = next[current]
          /\ state' = Turned(next[current])
          /\ target' = next[current]
     ELSE UNCHANGED <<current, state, target>>
  /\ nested' = 0
  /\ UNCHANGED <<next, running, saved, pdbr, building, exited, had>>

FinishSwitch ==
  /\ Alive /\ target # None
  /\ SwitchTo(running, target)
  /\ target' = None /\ nested' = 0
  /\ UNCHANGED <<next, remaining, state, current, entered, building, exited>>

SysYield == MayCall /\ ScheduleCall /\ UNCHANGED exited

\* sys_exit: the process is not taken off the ring; it calls schedule() in a
\* loop, which is SysYield from here on.
SysExit ==
  /\ MayCall /\ running \notin exited
  /\ exited' = exited \cup {running}
  /\ ScheduleCall

-----------------------------------------------------------------------------
(* sched_test_rr, in the idle process: the two links and the state          *)

Building(p, k) == building' = <<p, k>>

\* Mutant: the list points at the new process before it points on.
LinkNew_ListFirst(p) ==
  /\ Alive /\ target = None /\ running = idle
  /\ building[1] = None /\ next[p] = None
  /\ next' = [next EXCEPT ![idle] = p]
  /\ Building(p, 1)
  /\ UNCHANGED <<remaining, state, current, running, saved, pdbr, entered, target, nested,
                 exited, had>>

\* Mutant: the new process closes the ring by itself.
LinkNew_Alone(p) ==
  /\ Alive /\ target = None /\ running = idle
  /\ building[1] = None /\ next[p] = None
  /\ next' = [next EXCEPT ![p] = idle]
  /\ Building(p, 1)
  /\ UNCHANGED <<remaining, state, current, running, saved, pdbr, entered, target, nested,
                 exited, had>>

LinkNew(p) ==
  /\ Alive /\ target = None /\ running = idle
  /\ building[1] = None /\ next[p] = None
  /\ next' = [next EXCEPT ![p] = next[idle]]
  /\ Building(p, 1)
  /\ UNCHANGED <<remaining, state, current, running, saved, pdbr, entered, target, nested,
                 exited, had>>

LinkList ==
  /\ Alive /\ target = None /\ running = idle /\ building[2] = 1
  /\ next' = [next EXCEPT ![idle] = building[1]]
  /\ Building(building[1], 2)
  /\ UNCHANGED <<remaining, state, current, running, saved, pdbr, entered, target, nested,
                 exited, had>>

MarkReady ==
  /\ Alive /\ target = None /\ running = idle /\ building[2] = 2
  /\ state' = [state EXCEPT ![building[1]] = "READY"]
  /\ Building(None, 0)
  /\ UNCHANGED <<next, remaining, current, running, saved, pdbr, entered, target, nested,
                 exited, had>>

ProcNext ==
  \/ TimerTick \/ Choose \/ FinishSwitch \/ SysYield \/ SysExit
  \/ LinkList \/ MarkReady
  \/ \E p \in Procs : LinkNew(p)

\* The timer keeps interrupting, and a switch that was chosen is made.  A
\* schedule() may stay between its test and its choice: the timer takes the
\* process off the CPU there as anywhere else.
ProcFairness == WF_procVars(TimerTick) /\ WF_procVars(FinishSwitch)

ProcSpec == ProcInit /\ [][ProcNext]_procVars /\ ProcFairness

-----------------------------------------------------------------------------
(* What the scheduler promises                                             *)

\* Every saved context is the task's own, and outside a switch the CPU is on
\* the stack and in the directory of current_process.  A timer interrupt that
\* hits the window of a system call finds ticks_remaining reset and only
\* counts it down: with more than Quantum of them in one window a process
\* would be saved under another's name.
ContextsOwn == Alive =>
  /\ \A t \in Tasks : saved[t] = t
  /\ target = None => running = current
  /\ target # None => current = target
  /\ pdbr = IF running = idle THEN "kernel" ELSE running

\* Where k steps along the links lead from the idle process.
Reach[k \in 0 .. Cardinality(Tasks)] ==
  IF k = 0 THEN idle ELSE IF Reach[k-1] = None THEN None ELSE next[Reach[k-1]]

\* The ring stays one cycle through the idle process, and at most one task of
\* it is marked as running, whatever interrupts the building of the ring.
RingClosed ==
  LET ring == {Reach[k] : k \in 0 .. Cardinality(Procs)}
  IN /\ None \notin ring
     /\ \E k \in 1 .. Cardinality(Tasks) : Reach[k] = idle
     /\ Alive => \A t \in ring : state[t] = "RUNNING" => t = current

\* Stacks, directories and the ring together.
ProcessesSound == ContextsOwn /\ RingClosed

\* Every process of the ring gets the CPU, also when others have exited or
\* yield all the time.  Only a process that has had its turn may miss the next
\* one, because the machine dies first: the switch back to the idle process
\* loads the 0 in its cr3.
TurnComes == \A p \in Procs :
  state[p] = "READY" ~> (running = p \/ (~Alive /\ p \in had))

=============================================================================
