-------------------------------- MODULE Jobs --------------------------------
(***************************************************************************)
(* A job graph (job_graph.c) being built and then run by sched_run_job     *)
(* (sched_core.c), which offloads its compute steps to the bridge with     *)
(* CMD_RUN_MODEL, waits a bounded time for an answer and marks the step    *)
(* completed either way.                                                   *)
(*                                                                         *)
(* Steps are numbered in the order they were added, which is the order     *)
(* job_graph_next_ready looks at them; their ids are taken to be distinct. *)
(* An answer names the command code only, so an answer that arrives after  *)
(* its step gave up waiting is taken for the answer of a later step.       *)
(***************************************************************************)
EXTENDS Integers, Sequences, FiniteSets, FiniteSetsExt, SequencesExt

CONSTANTS MaxSteps,    \* MAX_JOB_STEPS
          MaxDeps,     \* MAX_STEP_DEPS
          CmdCap,      \* entries the command ring can hold
          RspCap       \* entries the response ring can hold

ASSUME JobsAssumption ==
  /\ MaxSteps \in Nat \ {0} /\ MaxDeps \in Nat
  /\ CmdCap \in Nat \ {0} /\ RspCap \in Nat \ {0}

VARIABLES pc,          \* sched_run_job
          numSteps,    \* num_steps
          compute,     \* steps of type STEP_TYPE_COMPUTE
          deps,        \* deps[0 .. num_deps - 1] of each step
          ready, completed,   \* steps with these flags set
          cur,         \* the step being run
          cmdq, rspq,  \* command and response ring, by step
          bcmd,        \* the command the bridge is working on, or 0
          executed,    \* history: steps the bridge has executed
          started,     \* history: steps in the order they were started
          late         \* history: how many waits timed out

graph == <<numSteps, compute, deps>>
vars == <<pc, numSteps, compute, deps, ready, completed, cur, cmdq, rspq, bcmd,
          executed, started, late>>

Steps == 1 .. numSteps
DepsOf(s) == ToSet(deps[s])

Init ==
  /\ pc = "build" /\ numSteps = 0 /\ compute = {}
  /\ deps = [s \in 1 .. MaxSteps |-> << >>]
  /\ ready = {} /\ completed = {} /\ cur = 0
  /\ cmdq = << >> /\ rspq = << >> /\ bcmd = 0
  /\ executed = {} /\ started = << >> /\ late = 0

-----------------------------------------------------------------------------
(* Building the graph.                                                     *)

\* job_graph_add_step: ready, as it has no dependency yet.
AddStep(isCompute) ==
  /\ pc = "build" /\ numSteps < MaxSteps
  /\ numSteps' = numSteps + 1
  /\ compute' = IF isCompute THEN compute \cup {numSteps + 1} ELSE compute
  /\ ready' = ready \cup {numSteps + 1}
  /\ UNCHANGED <<pc, deps, completed, cur, cmdq, rspq, bcmd, executed, started,
                 late>>

(* job_graph_add_dep.  Nothing keeps dependencies from being circular or   *)
(* repeated; a repeated one takes room.                                    *)
AddDep(s, d) ==
  /\ pc = "build" /\ s \in Steps /\ d \in Steps
  /\ Len(deps[s]) < MaxDeps
  /\ deps' = [deps EXCEPT ![s] = Append(@, d)]
  /\ ready' = ready \ {s}
  /\ UNCHANGED <<pc, numSteps, compute, completed, cur, cmdq, rspq, bcmd, executed,
                 started, late>>

Submit ==
  /\ pc = "build"
  /\ pc' = "next"
  /\ UNCHANGED <<graph, ready, completed, cur, cmdq, rspq, bcmd, executed,
                 started, late>>

-----------------------------------------------------------------------------
(* sched_run_job                                                           *)

\* job_graph_next_ready, and the beginning of the step's span.
Pick ==
  /\ pc = "next" /\ ready \ completed # {}
  /\ cur' = Min(ready \ completed)
  /\ started' = Append(started, cur')
  /\ pc' = "exec"
  /\ UNCHANGED <<graph, ready, completed, cmdq, rspq, bcmd, executed, late>>

\* Mutant: a step is ready as soon as one of its dependencies is completed.
Released_Any(done) ==
  {t \in Steps \ done : DepsOf(t) = {} \/ DepsOf(t) \cap done # {}}

\* Mutant: the scan stops one step early.
Released_ButLast(done) == {t \in Steps \ (done \cup {numSteps}) : DepsOf(t) \subseteq done}

\* The rescan of job_graph_mark_completed: the steps that become ready.
Released(done) == {t \in Steps \ done : DepsOf(t) \subseteq done}

\* job_graph_mark_completed(cur).
MarkCompleted ==
  /\ completed' = completed \cup {cur}
  /\ ready' = ready \cup Released(completed')
  /\ pc' = "next"

\* execute_step of any other type only spins.
RunLocal ==
  /\ pc = "exec" /\ cur \notin compute
  /\ MarkCompleted
  /\ UNCHANGED <<graph, cur, cmdq, rspq, bcmd, executed, started, late>>

\* Mutant: the ring not tested for room.
Offload_NoFullCheck ==
  /\ pc = "exec" /\ cur \in compute
  /\ cmdq' = Append(cmdq, cur)
  /\ pc' = "wait"
  /\ UNCHANGED <<graph, ready, completed, cur, rspq, bcmd, executed, started, late>>

\* ipc_send(CMD_RUN_MODEL).
Offload ==
  /\ pc = "exec" /\ cur \in compute /\ Len(cmdq) < CmdCap
  /\ cmdq' = Append(cmdq, cur)
  /\ pc' = "wait"
  /\ UNCHANGED <<graph, ready, completed, cur, rspq, bcmd, executed, started, late>>

\* ipc_send failed: execute_step returns, the step counts as run.
OffloadFull ==
  /\ pc = "exec" /\ cur \in compute /\ Len(cmdq) >= CmdCap
  /\ MarkCompleted
  /\ UNCHANGED <<graph, cur, cmdq, rspq, bcmd, executed, started, late>>

\* Mutant: the answer is left in the ring.
Answer_Left ==
  /\ pc = "wait" /\ rspq # << >>
  /\ MarkCompleted
  /\ UNCHANGED <<graph, cur, cmdq, rspq, bcmd, executed, started, late>>

\* The first answer there is; its status is only printed.
Answer ==
  /\ pc = "wait" /\ rspq # << >>
  /\ rspq' = Tail(rspq)
  /\ MarkCompleted
  /\ UNCHANGED <<graph, cur, cmdq, bcmd, executed, started, late>>

\* Mutant: the wait is never counted down.
Timeout_Never ==
  /\ pc = "wait" /\ rspq = << >>
  /\ UNCHANGED vars

\* timeout_ms reached 0: the step counts as run.
Timeout ==
  /\ pc = "wait" /\ rspq = << >>
  /\ late' = late + 1
  /\ MarkCompleted
  /\ UNCHANGED <<graph, cur, cmdq, rspq, bcmd, executed, started>>

\* No step is ready: the run is over, JOB_COMPLETE is logged.
Finish ==
  /\ pc = "next" /\ ready \ completed = {}
  /\ pc' = "end"
  /\ UNCHANGED <<graph, ready, completed, cur, cmdq, rspq, bcmd, executed,
                 started, late>>

-----------------------------------------------------------------------------
(* The bridge: poll_command, handle_run_model, send_response.              *)

BridgeTake ==
  /\ bcmd = 0 /\ cmdq # << >>
  /\ bcmd' = Head(cmdq) /\ cmdq' = Tail(cmdq)
  /\ UNCHANGED <<pc, graph, ready, completed, cur, rspq, executed, started, late>>

\* An answer that finds the response ring full is lost.
BridgeAnswer ==
  /\ bcmd # 0
  /\ executed' = executed \cup {bcmd}
  /\ rspq' = IF Len(rspq) < RspCap THEN Append(rspq, bcmd) ELSE rspq
  /\ bcmd' = 0
  /\ UNCHANGED <<pc, graph, ready, completed, cur, cmdq, started, late>>

-----------------------------------------------------------------------------
Build == Submit \/ (\E b \in BOOLEAN : AddStep(b)) \/ (\E s, d \in Steps : AddDep(s, d))
Sched == Pick \/ RunLocal \/ Offload \/ OffloadFull \/ Answer \/ Timeout \/ Finish
Bridge == BridgeTake \/ BridgeAnswer

Next == Build \/ Sched \/ Bridge

Spec == Init /\ [][Next]_vars

(* The kernel keeps running sched_run_job; the bridge may be slow, or gone. *)
FairSpec == Spec /\ WF_vars(Sched)

-----------------------------------------------------------------------------
(* Type invariant.                                                         *)
TypeOK ==
  /\ pc \in {"build", "next", "exec", "wait", "end"}
  /\ numSteps \in 0 .. MaxSteps /\ compute \subseteq Steps
  /\ deps \in [1 .. MaxSteps -> BoundedSeq(Steps, MaxDeps)]
  /\ ready \subseteq Steps /\ completed \subseteq Steps /\ cur \in 0 .. numSteps
  /\ cmdq \in Seq(compute) /\ Len(cmdq) <= CmdCap
  /\ rspq \in Seq(compute) /\ Len(rspq) <= RspCap
  /\ bcmd \in compute \cup {0} /\ executed \subseteq compute
  /\ started \in Seq(Steps) /\ late \in 0 .. numSteps

(* A step is started after every step it depends on, and no step is        *)
(* started twice, in any graph, also when waits time out.                  *)
DepsFirst ==
  \A i \in DOMAIN started :
    /\ DepsOf(started[i]) \subseteq {started[k] : k \in 1 .. (i - 1)}
    /\ started[i] \notin {started[k] : k \in 1 .. (i - 1)}

(* When the run is over, only steps that wait for each other are left: a   *)
(* graph without a cycle has been run completely.                          *)
NothingLeft ==
  pc = "end" => \A s \in Steps \ completed : DepsOf(s) \ completed # {}

(* As long as no wait times out, a compute step is completed only after    *)
(* the bridge has executed it, and the rings are empty between steps: the  *)
(* answer taken is the step's own.                                         *)
OwnAnswer ==
  late = 0 =>
    /\ completed \cap compute \subseteq executed
    /\ pc # "wait" => cmdq = << >> /\ rspq = << >> /\ bcmd = 0
    /\ \A i \in DOMAIN rspq : rspq[i] = cur

(* Each step of the graph is done, by its own answer, before the run ends. *)
StepsDone == TypeOK /\ NothingLeft /\ OwnAnswer

(* A submitted job comes to its end, whatever its graph and whatever the   *)
(* bridge does: every wait of execute_step is bounded.                     *)
RunEnds == (pc = "next") ~> (pc = "end")
=============================================================================
