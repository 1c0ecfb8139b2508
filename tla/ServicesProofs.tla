--------------------------- MODULE ServicesProofs ---------------------------
(***************************************************************************)
(* Proofs about three services of the kernel.  sched_run_job, for every job*)
(* graph, every size of the two rings and every bridge, fast, slow or gone:*)
(* steps are started once and in the order of their dependencies, and a run*)
(* that ends has done every step that does not wait for itself.  The flight*)
(* recorder, for every size of the ring and of the span table and every set*)
(* of callers: the ring is the recent past in order, and a span measures   *)
(* its own caller's time.  The kernel heap, for every size of the heap and *)
(* of its requests: the blocks tile the heap in a list linked both ways, no*)
(* two neighbours are free, and what a caller was given stays its own.     *)
(***************************************************************************)
EXTENDS Jobs, FlightRec, KHeap, CommonLemmas

-----------------------------------------------------------------------------
(*                           The job scheduler                             *)

(* The strengthening.  The flags are a function of the graph and of what   *)
(* is completed: a step is ready exactly if all it depends on is.          *)
FlagsRight ==
  /\ ready = {s \in Steps : DepsOf(s) \subseteq completed}
  /\ completed \subseteq ready
  /\ \A s \in (1 .. MaxSteps) \ Steps : deps[s] = << >>

(* The steps that were started are the completed ones and the one in hand, *)
(* which was ready; every timed-out wait completed a step.                 *)
Running == pc \in {"exec", "wait"}

StartedRight ==
  /\ ToSet(started) = completed \cup (IF Running THEN {cur} ELSE {})
  /\ Running => cur \in ready \ completed
  /\ pc = "wait" => cur \in compute
  /\ pc = "end" => ready \subseteq completed
  /\ late <= Cardinality(completed)

(* Nothing has happened before the graph is submitted.                     *)
NotSubmitted ==
  pc = "build" => /\ completed = {} /\ started = << >> /\ late = 0
                  /\ cmdq = << >> /\ rspq = << >> /\ bcmd = 0

(* As long as no wait timed out there is at most one command under way,    *)
(* and it is that of the step in hand.                                     *)
OneCommand ==
  late = 0 =>
    /\ completed \cap compute \subseteq executed
    /\ pc # "wait" => cmdq = << >> /\ rspq = << >> /\ bcmd = 0
    /\ pc = "wait" =>
         \/ cmdq = <<cur>> /\ rspq = << >> /\ bcmd = 0
         \/ cmdq = << >> /\ rspq = << >> /\ bcmd = cur
         \/ cmdq = << >> /\ rspq = <<cur>> /\ bcmd = 0 /\ cur \in executed

JobsInv ==
  /\ TypeOK /\ FlagsRight /\ StartedRight /\ NotSubmitted /\ OneCommand
  /\ DepsFirst

-----------------------------------------------------------------------------
(* A set of steps has at most numSteps members, and a step that is not in it is   *)
(* one more.                                                               *)
LEMMA StepsCounted ==
  ASSUME numSteps \in Nat, NEW S \in SUBSET Steps
  PROVE  /\ IsFiniteSet(S) /\ Cardinality(S) \in Nat /\ Cardinality(S) <= numSteps
         /\ \A s \in Steps \ S : Cardinality(S \cup {s}) = Cardinality(S) + 1
<1>1. IsFiniteSet(Steps) /\ Cardinality(Steps) = numSteps
  BY FS_Interval DEF Steps
<1>2. IsFiniteSet(S) /\ Cardinality(S) <= numSteps
  BY <1>1, FS_Subset
<1> QED BY <1>2, FS_CardinalityType, FS_AddElement

(* job_graph_mark_completed of the step in hand keeps the flags a function *)
(* of what is completed.                                                   *)
LEMMA MarkDone ==
  ASSUME JobsInv, Running, MarkCompleted, UNCHANGED <<graph, cur, started>>
  PROVE  /\ completed' \in SUBSET Steps /\ ready' \in SUBSET Steps
         /\ Steps' = Steps /\ ~Running' /\ pc' = "next"
         /\ FlagsRight' /\ DepsFirst'
         /\ ToSet(started)' = completed'
         /\ Cardinality(completed) \in Nat /\ Cardinality(completed') <= numSteps
         /\ Cardinality(completed') = Cardinality(completed) + 1
<1> USE DEF JobsInv
<1>1. /\ numSteps \in Nat /\ completed \subseteq Steps /\ cur \in Steps /\ cur \notin completed
      /\ ready \subseteq Steps /\ cur \in ready
  BY DEF TypeOK, StartedRight
<1>2. /\ numSteps' = numSteps /\ compute' = compute /\ deps' = deps /\ cur' = cur
      /\ started' = started /\ completed' = completed \cup {cur}
      /\ ready' = ready \cup Released(completed') /\ pc' = "next"
  BY DEF MarkCompleted, graph
<1>3. Steps' = Steps /\ \A s : DepsOf(s)' = DepsOf(s)
  BY <1>2 DEF Steps, DepsOf
<1>4. completed' \in SUBSET Steps /\ ready' \in SUBSET Steps
  BY <1>1, <1>2 DEF Released
<1>5. FlagsRight'
  <2>1. ready' = {s \in Steps : DepsOf(s) \subseteq completed'}
    <3>1. ASSUME NEW s \in ready' PROVE s \in Steps /\ DepsOf(s) \subseteq completed'
      BY <1>2, <1>4 DEF Released, FlagsRight
    <3>2. ASSUME NEW s \in Steps, DepsOf(s) \subseteq completed' PROVE s \in ready'
      <4>1. CASE s \in completed'
        BY <1>1, <1>2, <4>1 DEF FlagsRight
      <4>2. CASE s \notin completed'
        BY <1>2, <3>2, <4>2 DEF Released
      <4> QED BY <4>1, <4>2
    <3> QED BY <3>1, <3>2
  <2>2. completed' \subseteq ready'
    BY <1>1, <1>2 DEF FlagsRight
  <2> QED BY <1>2, <1>3, <2>1, <2>2 DEF FlagsRight
<1>6. ToSet(started)' = completed' /\ ~Running'
  BY <1>2 DEF StartedRight, Running
<1>7. DepsFirst'
  BY <1>2, <1>3 DEF DepsFirst
<1>8. /\ Cardinality(completed) \in Nat /\ Cardinality(completed') <= numSteps
      /\ Cardinality(completed') = Cardinality(completed) + 1
  BY <1>1, <1>2, <1>4, StepsCounted
<1> QED BY <1>2, <1>3, <1>4, <1>5, <1>6, <1>7, <1>8

-----------------------------------------------------------------------------
(* Building the graph: nothing is completed, so the ready steps are those  *)
(* without a dependency.                                                   *)
LEMMA BuildStep == ASSUME JobsInv, Build PROVE JobsInv'
<1> USE DEF JobsInv
<1>1. CASE Submit
  <2>1. /\ pc' = "next" /\ numSteps' = numSteps /\ compute' = compute /\ deps' = deps
        /\ pc = "build" /\ completed = {} /\ started = << >>
        /\ UNCHANGED <<ready, completed, cur, cmdq, rspq, bcmd, executed, started, late>>
    BY <1>1 DEF Submit, graph, NotSubmitted
  <2> QED BY <2>1 DEF TypeOK, FlagsRight, StartedRight, Running, NotSubmitted,
                      OneCommand, DepsFirst, Steps, DepsOf
<1>2. ASSUME NEW b \in BOOLEAN, AddStep(b) PROVE JobsInv'
  <2>1. /\ pc = "build" /\ pc' = "build" /\ numSteps < MaxSteps /\ numSteps' = numSteps + 1
        /\ numSteps \in Nat /\ MaxSteps \in Nat /\ MaxDeps \in Nat
        /\ compute' = (IF b THEN compute \cup {numSteps + 1} ELSE compute)
        /\ ready' = ready \cup {numSteps + 1}
        /\ UNCHANGED <<deps, completed, cur, cmdq, rspq, bcmd, executed, started, late>>
    BY <1>2, JobsAssumption DEF AddStep, TypeOK
  <2>2. /\ completed = {} /\ started = << >> /\ late = 0 /\ cmdq = << >>
        /\ rspq = << >> /\ bcmd = 0
    BY <2>1 DEF NotSubmitted
  <2>3. Steps' = Steps \cup {numSteps + 1} /\ numSteps + 1 \notin Steps /\ numSteps + 1 \in 1 .. MaxSteps
    BY <2>1 DEF Steps
  <2>4. TypeOK'
    <3>1. numSteps' \in 0 .. MaxSteps /\ compute' \subseteq Steps' /\ compute \subseteq compute'
      BY <2>1, <2>3 DEF TypeOK
    <3>2. deps' \in [1 .. MaxSteps -> BoundedSeq(Steps', MaxDeps)]
      <4>1. ASSUME NEW d \in BoundedSeq(Steps, MaxDeps) PROVE d \in BoundedSeq(Steps', MaxDeps)
        BY <2>1, <2>3, BoundedSeqIs, SeqMonotonic
      <4> QED BY <2>1, <4>1 DEF TypeOK
    <3>3. /\ ready' \subseteq Steps' /\ completed' \subseteq Steps' /\ cur' \in 0 .. numSteps'
          /\ late' \in 0 .. numSteps'
      BY <2>1, <2>2, <2>3 DEF TypeOK
    <3>4. /\ cmdq' \in Seq(compute') /\ Len(cmdq') <= CmdCap
          /\ rspq' \in Seq(compute') /\ Len(rspq') <= RspCap
          /\ started' \in Seq(Steps')
      BY <2>1, <2>2, EmptySeq, JobsAssumption
    <3>5. bcmd' \in compute' \cup {0} /\ executed' \subseteq compute'
      BY <2>1, <2>2, <3>1 DEF TypeOK
    <3> QED BY <2>1, <3>1, <3>2, <3>3, <3>4, <3>5 DEF TypeOK
  <2>5. FlagsRight'
    <3>1. deps[numSteps + 1] = << >> /\ DepsOf(numSteps + 1) = {}
      BY <2>3 DEF FlagsRight, DepsOf, ToSet
    <3>2. \A s : DepsOf(s)' = DepsOf(s)
      BY <2>1 DEF DepsOf
    <3>3. ready' = {s \in Steps' : DepsOf(s) \subseteq completed}
      BY <2>1, <2>3, <3>1 DEF FlagsRight
    <3> QED BY <2>1, <2>2, <2>3, <3>2, <3>3 DEF FlagsRight
  <2>6. StartedRight' /\ DepsFirst'
    BY <2>1, <2>2 DEF StartedRight, Running, DepsFirst
  <2> QED BY <2>1, <2>2, <2>4, <2>5, <2>6 DEF NotSubmitted, OneCommand
<1>3. ASSUME NEW s \in Steps, NEW d \in Steps, AddDep(s, d) PROVE JobsInv'
  <2>1. /\ pc = "build" /\ pc' = "build" /\ Len(deps[s]) < MaxDeps
        /\ deps' = [deps EXCEPT ![s] = Append(@, d)] /\ ready' = ready \ {s}
        /\ UNCHANGED <<numSteps, compute, completed, cur, cmdq, rspq, bcmd, executed, started, late>>
    BY <1>3 DEF AddDep
  <2>2. /\ completed = {} /\ started = << >> /\ late = 0 /\ cmdq = << >>
        /\ rspq = << >> /\ bcmd = 0
    BY <2>1 DEF NotSubmitted
  <2>3. /\ numSteps \in Nat /\ MaxDeps \in Nat /\ s \in 1 .. MaxSteps /\ Steps' = Steps
        /\ deps \in [1 .. MaxSteps -> BoundedSeq(Steps, MaxDeps)]
        /\ deps[s] \in BoundedSeq(Steps, MaxDeps)
    BY <2>1, JobsAssumption DEF TypeOK, Steps
  <2>4. deps[s] \in Seq(Steps)
    BY <2>3, BoundedSeqIs
  <2>5. Append(deps[s], d) \in BoundedSeq(Steps, MaxDeps)
    <3>1. Append(deps[s], d) \in Seq(Steps) /\ Len(Append(deps[s], d)) = Len(deps[s]) + 1
      BY <2>4, AppendProperties
    <3>2. Len(deps[s]) \in Nat
      BY <2>4, LenProperties
    <3>3. Len(Append(deps[s], d)) <= MaxDeps
      BY <2>1, <2>3, <3>1, <3>2
    <3> QED BY <2>3, <3>1, <3>3, BoundedSeqIs
  <2>6. TypeOK'
    BY <2>1, <2>3, <2>5 DEF TypeOK
  <2>7. FlagsRight'
    <3>1. DepsOf(s)' = DepsOf(s) \cup {d} /\ \A t \in (1 .. MaxSteps) \ {s} : DepsOf(t)' = DepsOf(t)
      BY <2>1, <2>3, <2>4, AppendToSet DEF DepsOf
    <3>2. Steps \subseteq 1 .. MaxSteps
      BY JobsAssumption DEF TypeOK, Steps
    <3>3. ready' = {t \in Steps : DepsOf(t)' \subseteq completed}
      BY <2>1, <2>2, <3>1, <3>2 DEF FlagsRight
    <3>4. \A t \in (1 .. MaxSteps) \ Steps : deps'[t] = << >>
      BY <2>1, <2>3 DEF FlagsRight
    <3> QED BY <2>1, <2>2, <2>3, <3>3, <3>4 DEF FlagsRight
  <2>8. StartedRight' /\ DepsFirst'
    BY <2>1, <2>2 DEF StartedRight, Running, DepsFirst
  <2> QED BY <2>1, <2>2, <2>6, <2>7, <2>8 DEF NotSubmitted, OneCommand
<1> QED BY <1>1, <1>2, <1>3 DEF Build

-----------------------------------------------------------------------------
(* The flags and the order of the starts depend on nothing else.           *)
LEMMA FlagsKept ==
  ASSUME FlagsRight, DepsFirst, UNCHANGED <<numSteps, deps, ready, completed, started>>
  PROVE  FlagsRight' /\ DepsFirst'
<1>1. Steps' = Steps /\ \A s : DepsOf(s)' = DepsOf(s)
  BY DEF Steps, DepsOf
<1>2. FlagsRight'
  BY <1>1 DEF FlagsRight
<1>3. DepsFirst'
  BY <1>1 DEF DepsFirst
<1> QED BY <1>2, <1>3

(* A step of sched_run_job.                                                *)
LEMMA SchedStep == ASSUME JobsInv, Sched PROVE JobsInv'
<1> USE DEF JobsInv
<1>0. /\ numSteps \in Nat /\ completed \in SUBSET Steps /\ late \in Nat
      /\ Cardinality(completed) \in Nat
  BY StepsCounted DEF TypeOK
<1>1. CASE Pick
  <2>1. /\ pc = "next" /\ ready \ completed # {} /\ cur' = Min(ready \ completed)
        /\ started' = Append(started, cur') /\ pc' = "exec"
        /\ UNCHANGED <<numSteps, compute, deps, ready, completed, cmdq, rspq, bcmd, executed, late>>
    BY <1>1 DEF Pick, graph
  <2>2. cur' \in ready \ completed /\ cur' \in Steps
    <3>1. ready \ completed \in SUBSET Nat /\ ready \subseteq Steps
      BY DEF TypeOK, Steps
    <3> QED BY <2>1, <3>1, LeastElement
  <2>3. Steps' = Steps /\ (\A s : DepsOf(s)' = DepsOf(s)) /\ FlagsRight'
    BY <2>1 DEF Steps, DepsOf, FlagsRight
  <2>4. started \in Seq(Steps) /\ ToSet(started) = completed
    BY <2>1 DEF TypeOK, StartedRight, Running
  <2>5. started' \in Seq(Steps) /\ ToSet(started') = completed \cup {cur'}
    <3>1. Append(started, cur') \in Seq(Steps)
      BY <2>2, <2>4, AppendProperties
    <3>2. ToSet(Append(started, cur')) = ToSet(started) \cup {cur'}
      BY <2>2, <2>4, AppendToSet
    <3> QED BY <2>1, <2>4, <3>1, <3>2
  <2>6. TypeOK'
    <3>1. cur' \in 0 .. numSteps
      BY <1>0, <2>2 DEF Steps
    <3> QED BY <2>1, <2>3, <2>5, <3>1 DEF TypeOK
  <2>7. StartedRight'
    BY <2>1, <2>2, <2>5 DEF StartedRight, Running
  <2>8. DepsFirst'
    <3>1. /\ Len(started) \in Nat /\ DOMAIN started = 1 .. Len(started)
          /\ Len(started') = Len(started) + 1 /\ DOMAIN started' = 1 .. (Len(started) + 1)
          /\ \A i \in 1 .. Len(started) : started'[i] = started[i]
          /\ started'[Len(started) + 1] = cur'
      BY <2>1, <2>2, <2>4, <2>5, AppendProperties, LenProperties
    <3>2. \A i \in 1 .. (Len(started) + 1) :
            {started'[k] : k \in 1 .. (i - 1)} = {started[k] : k \in 1 .. (i - 1)}
      BY <3>1
    <3>3. {started[k] : k \in 1 .. Len(started)} = completed
      BY <2>4, <3>1 DEF ToSet
    <3>4. DepsOf(cur') \subseteq completed /\ cur' \notin completed
      BY <2>2 DEF FlagsRight
    <3>5. ASSUME NEW i \in 1 .. (Len(started) + 1)
          PROVE  /\ DepsOf(started'[i]) \subseteq {started[k] : k \in 1 .. (i - 1)}
                 /\ started'[i] \notin {started[k] : k \in 1 .. (i - 1)}
      <4>1. CASE i = Len(started) + 1
        <5>1. i - 1 = Len(started)
          BY <3>1, <4>1
        <5> QED BY <3>1, <3>3, <3>4, <4>1, <5>1
      <4>2. CASE i # Len(started) + 1
        <5>1. i \in DOMAIN started /\ started'[i] = started[i]
          BY <3>1, <4>2
        <5> QED BY <5>1 DEF DepsFirst
      <4> QED BY <4>1, <4>2
    <3> QED BY <2>3, <3>1, <3>2, <3>5 DEF DepsFirst
  <2> QED BY <2>1, <2>3, <2>6, <2>7, <2>8 DEF NotSubmitted, OneCommand
<1>2. CASE RunLocal
  <2>1. /\ Running /\ pc = "exec" /\ cur \notin compute /\ MarkCompleted
        /\ UNCHANGED <<graph, cur, started>>
        /\ UNCHANGED <<compute, cmdq, rspq, bcmd, executed, late, numSteps, deps>>
    BY <1>2 DEF RunLocal, Running, graph
  <2>2. completed' = completed \cup {cur}
    BY <2>1 DEF MarkCompleted
  <2>3. TypeOK' /\ StartedRight' /\ NotSubmitted'
    BY <1>0, <2>1, MarkDone DEF TypeOK, StartedRight, NotSubmitted
  <2>4. OneCommand'
    BY <2>1, <2>2, MarkDone DEF OneCommand
  <2> QED BY <2>1, <2>3, <2>4, MarkDone
<1>3. CASE Offload
  <2>1. /\ pc = "exec" /\ pc' = "wait" /\ cur \in compute /\ Len(cmdq) < CmdCap
        /\ cmdq' = Append(cmdq, cur)
        /\ UNCHANGED <<numSteps, compute, deps, ready, completed, cur, rspq, bcmd, executed,
                       started, late>>
    BY <1>3 DEF Offload, graph
  <2>2. /\ cmdq \in Seq(compute) /\ cmdq' \in Seq(compute)
        /\ Len(cmdq) \in Nat /\ Len(cmdq') = Len(cmdq) + 1
    BY <2>1, AppendProperties, LenProperties DEF TypeOK
  <2>3. TypeOK'
    BY <2>1, <2>2, JobsAssumption DEF TypeOK, Steps
  <2>4. FlagsRight' /\ StartedRight' /\ DepsFirst' /\ NotSubmitted'
    BY <2>1, FlagsKept DEF StartedRight, Running, NotSubmitted
  <2>5. OneCommand'
    <3>1. cmdq = << >> => cmdq' = <<cur>>
      BY <2>1
    <3> QED BY <2>1, <3>1 DEF OneCommand
  <2> QED BY <2>3, <2>4, <2>5
<1>4. CASE OffloadFull
  <2>1. /\ Running /\ pc = "exec" /\ MarkCompleted /\ Len(cmdq) >= CmdCap
        /\ UNCHANGED <<graph, cur, started>>
        /\ UNCHANGED <<compute, cmdq, rspq, bcmd, executed, late, numSteps, deps>>
    BY <1>4 DEF OffloadFull, Running, graph
  <2>2. late # 0
    <3>1. late = 0 => Len(cmdq) = 0
      BY <2>1 DEF OneCommand
    <3> QED BY <2>1, <3>1, JobsAssumption
  <2>3. TypeOK' /\ StartedRight' /\ NotSubmitted'
    BY <1>0, <2>1, MarkDone DEF TypeOK, StartedRight, NotSubmitted
  <2> QED BY <2>1, <2>2, <2>3, MarkDone DEF OneCommand
<1>5. CASE Answer
  <2>1. /\ Running /\ pc = "wait" /\ MarkCompleted /\ rspq # << >> /\ rspq' = Tail(rspq)
        /\ UNCHANGED <<graph, cur, started>>
        /\ UNCHANGED <<compute, cmdq, bcmd, executed, late, numSteps, deps>>
    BY <1>5 DEF Answer, Running, graph
  <2>2. completed' = completed \cup {cur}
    BY <2>1 DEF MarkCompleted
  <2>3. rspq' \in Seq(compute) /\ Len(rspq') <= RspCap
    BY <2>1, HeadTailProperties, LenProperties, JobsAssumption DEF TypeOK
  <2>4. TypeOK' /\ StartedRight' /\ NotSubmitted'
    BY <1>0, <2>1, <2>3, MarkDone DEF TypeOK, StartedRight, NotSubmitted
  <2>5. OneCommand'
    <3>1. late = 0 => /\ cmdq = << >> /\ rspq = <<cur>> /\ bcmd = 0 /\ cur \in executed
      BY <2>1 DEF OneCommand
    <3>2. Tail(<<cur>>) = << >>
      OBVIOUS
    <3> QED BY <2>1, <2>2, <3>1, <3>2, MarkDone DEF OneCommand
  <2> QED BY <2>1, <2>4, <2>5, MarkDone
<1>6. CASE Timeout
  <2>1. /\ Running /\ pc = "wait" /\ MarkCompleted /\ late' = late + 1
        /\ UNCHANGED <<graph, cur, started>>
        /\ UNCHANGED <<compute, cmdq, rspq, bcmd, executed, numSteps, deps>>
    BY <1>6 DEF Timeout, Running, graph
  <2>2. late' <= Cardinality(completed') /\ late' \in 0 .. numSteps /\ late' # 0
    BY <1>0, <2>1, MarkDone DEF StartedRight
  <2>3. TypeOK' /\ StartedRight' /\ NotSubmitted'
    BY <2>1, <2>2, MarkDone DEF TypeOK, StartedRight, NotSubmitted
  <2> QED BY <2>1, <2>2, <2>3, MarkDone DEF OneCommand
<1>7. CASE Finish
  <2>1. /\ pc = "next" /\ pc' = "end"
        /\ UNCHANGED <<numSteps, compute, deps, ready, completed, cur, cmdq, rspq, bcmd, executed,
                       started, late>>
    BY <1>7 DEF Finish, graph
  <2>2. ready \subseteq completed
    BY <1>7 DEF Finish
  <2>3. TypeOK'
    BY <2>1 DEF TypeOK, Steps
  <2> QED BY <2>1, <2>2, <2>3, FlagsKept DEF StartedRight, Running, NotSubmitted, OneCommand
<1> QED BY <1>1, <1>2, <1>3, <1>4, <1>5, <1>6, <1>7 DEF Sched

(* A step of the bridge touches the rings and its own history only.        *)
LEMMA BridgeStep == ASSUME JobsInv, Bridge PROVE JobsInv'
<1> USE DEF JobsInv
<1>1. CASE BridgeTake
  <2>1. /\ bcmd = 0 /\ cmdq # << >> /\ bcmd' = Head(cmdq) /\ cmdq' = Tail(cmdq)
        /\ UNCHANGED <<pc, numSteps, compute, deps, ready, completed, cur, rspq, executed,
                       started, late>>
    BY <1>1 DEF BridgeTake, graph
  <2>2. bcmd' \in compute /\ cmdq' \in Seq(compute) /\ Len(cmdq') <= CmdCap
    BY <2>1, HeadTailProperties, LenProperties, JobsAssumption DEF TypeOK
  <2>3. TypeOK'
    BY <2>1, <2>2 DEF TypeOK, Steps
  <2>4. FlagsRight' /\ StartedRight' /\ DepsFirst' /\ NotSubmitted'
    BY <2>1, FlagsKept DEF StartedRight, Running, NotSubmitted
  <2>5. OneCommand'
    <3>1. late = 0 => pc = "wait" /\ cmdq = <<cur>> /\ rspq = << >>
      <4>1. cur # 0 \/ pc # "wait"
        BY DEF StartedRight, TypeOK, Steps
      <4> QED BY <2>1, <4>1 DEF OneCommand
    <3>2. Head(<<cur>>) = cur /\ Tail(<<cur>>) = << >>
      OBVIOUS
    <3> QED BY <2>1, <3>1, <3>2 DEF OneCommand
  <2> QED BY <2>3, <2>4, <2>5
<1>2. CASE BridgeAnswer
  <2>1. /\ bcmd # 0 /\ bcmd' = 0 /\ executed' = executed \cup {bcmd}
        /\ rspq' = (IF Len(rspq) < RspCap THEN Append(rspq, bcmd) ELSE rspq)
        /\ UNCHANGED <<pc, numSteps, compute, deps, ready, completed, cur, cmdq, started, late>>
    BY <1>2 DEF BridgeAnswer, graph
  <2>2. bcmd \in compute /\ rspq \in Seq(compute) /\ Len(rspq) \in Nat /\ Len(rspq) <= RspCap
    BY <2>1, LenProperties DEF TypeOK
  <2>3. rspq' \in Seq(compute) /\ Len(rspq') <= RspCap
    BY <2>1, <2>2, AppendProperties, JobsAssumption
  <2>4. TypeOK'
    BY <2>1, <2>2, <2>3 DEF TypeOK, Steps
  <2>5. FlagsRight' /\ StartedRight' /\ DepsFirst' /\ NotSubmitted'
    BY <2>1, FlagsKept DEF StartedRight, Running, NotSubmitted
  <2>6. OneCommand'
    <3>1. late = 0 => pc = "wait" /\ cmdq = << >> /\ rspq = << >> /\ bcmd = cur
      BY <2>1 DEF OneCommand
    <3>2. late = 0 => rspq' = <<cur>>
      BY <2>1, <3>1, JobsAssumption
    <3> QED BY <2>1, <3>1, <3>2 DEF OneCommand
  <2> QED BY <2>4, <2>5, <2>6
<1> QED BY <1>1, <1>2 DEF Bridge

(* The strengthening holds in every state of every behaviour.              *)
LEMMA JobsInvariant == Spec => []JobsInv
<1>1. Init => JobsInv
  <2> SUFFICES ASSUME Init PROVE JobsInv
    OBVIOUS
  <2>1. Steps = {} /\ Cardinality({}) = 0
    BY FS_EmptySet DEF Init, Steps
  <2>2. << >> \in BoundedSeq(Steps, MaxDeps)
    <3>1. << >> \in Seq(Steps) /\ Len(<< >>) = 0 /\ MaxDeps \in Nat
      BY EmptySeq, JobsAssumption
    <3>2. Len(<< >>) <= MaxDeps
      BY <3>1
    <3> QED BY <3>1, <3>2, BoundedSeqIs
  <2>3. TypeOK
    BY <2>1, <2>2, EmptySeq, JobsAssumption DEF Init, TypeOK
  <2>4. FlagsRight
    BY <2>1 DEF Init, FlagsRight
  <2>5. StartedRight /\ NotSubmitted /\ OneCommand /\ DepsFirst
    BY <2>1 DEF Init, StartedRight, Running, ToSet, NotSubmitted, OneCommand, DepsFirst
  <2> QED BY <2>3, <2>4, <2>5 DEF JobsInv
<1>2. JobsInv /\ [Next]_vars => JobsInv'
  <2> SUFFICES ASSUME JobsInv, [Next]_vars PROVE JobsInv'
    OBVIOUS
  <2>1. CASE UNCHANGED vars
    <3>1. TypeOK' /\ StartedRight' /\ NotSubmitted' /\ OneCommand'
      BY <2>1 DEF vars, JobsInv, TypeOK, StartedRight, Running, NotSubmitted, OneCommand, Steps
    <3> QED BY <2>1, <3>1, FlagsKept DEF vars, JobsInv
  <2> QED BY <2>1, BuildStep, SchedStep, BridgeStep DEF Next
<1> QED BY <1>1, <1>2, PTL DEF Spec

(* sched_run_job starts a step after every step it depends on, and no step *)
(* twice, in any graph, also when waits for the bridge time out: the flags *)
(* that job_graph_mark_completed leaves are those of the dependencies.     *)
THEOREM DependenciesFirst == Spec => []DepsFirst
BY JobsInvariant, PTL DEF JobsInv

(* A run that ends has completed every step but those that wait for each   *)
(* other, and as long as no wait timed out each compute step was completed *)
(* by the answer to its own command.                                       *)
THEOREM StepsAreDone == Spec => []StepsDone
<1>1. JobsInv => StepsDone
  <2> SUFFICES ASSUME JobsInv PROVE NothingLeft /\ OwnAnswer
    BY DEF StepsDone, JobsInv
  <2>1. NothingLeft
    BY DEF JobsInv, NothingLeft, FlagsRight, StartedRight
  <2>2. OwnAnswer
    BY DEF JobsInv, OneCommand, OwnAnswer
  <2> QED BY <2>1, <2>2
<1> QED BY <1>1, JobsInvariant, PTL

-----------------------------------------------------------------------------
(* Ring slots repeat with period N: two positions less than a lap apart    *)
(* are in different slots.                                                 *)
LEMMA ModApart ==
  ASSUME NEW N \in Nat \ {0}, NEW a \in Nat, NEW b \in Nat, a < b, b - a < N
  PROVE  a % N # b % N
<1> DEFINE qa == a \div N
           qb == b \div N
<1>1. qa \in Int /\ qb \in Int
  OBVIOUS
<1>1a. a = N * qa + (a % N) /\ a % N \in Int
  OBVIOUS
<1>1b. b = N * qb + (b % N) /\ b % N \in Int
  OBVIOUS
<1> HIDE DEF qa, qb
<1>2. ASSUME a % N = b % N PROVE FALSE
  <2>1. b - a = N * (qb - qa)
    BY <1>1, <1>1a, <1>1b, <1>2
  <2>2. PICK k \in Int : k = qb - qa
    BY <1>1
  <2>3. b - a = N * k
    BY <2>1, <2>2
  <2>4. CASE k <= 0
    BY <2>3, <2>4
  <2>5. CASE k >= 1
    BY <2>3, <2>5
  <2> QED BY <2>4, <2>5
<1> QED BY <1>2
-----------------------------------------------------------------------------
(*                           The flight recorder                           *)

Tags == Callers \cup {"none"}
Kinds == {"none", "BOOT", "STEP_START", "STEP_END", "VIOLATION", "BUDGET_EXCEED"}
Events == [type : Kinds, tag : Tags, extra : Int]

RecTyped ==
  /\ head \in Nat /\ now \in Nat
  /\ logged \in Seq(Events) /\ Len(logged) = head
  /\ buf \in [0 .. (TraceBufSize - 1) -> Events]
  /\ spans \in [Slot -> [active : BOOLEAN, tag : Tags, start : Int]]
  /\ handle \in [Callers -> Slot \cup {0, Outside}]
  /\ began \in [Callers -> Int]

(* The last TraceBufSize events are in the slots their numbers name.       *)
RingHolds ==
  \A i \in 1 .. head :
    i > head - TraceBufSize => buf[(i - 1) % TraceBufSize] = logged[i]

(* A valid handle names an active slot that its caller filled: so no two   *)
(* callers have the same one.                                              *)
SpansOwn ==
  \A c \in Callers : handle[c] \in Slot =>
    spans[handle[c]] = [active |-> TRUE, tag |-> c, start |-> began[c]]

RecInv == RecTyped /\ RingHolds /\ SpansOwn

(* flightrec_log, by any caller and of any event: the new entry takes the  *)
(* slot of one that a whole lap ago was logged, and no other.              *)
LEMMA RecordStep ==
  ASSUME RecTyped, RingHolds, NEW e \in Events, Record(e)
  PROVE  /\ head' = head + 1 /\ head' \in Nat
         /\ logged' \in Seq(Events) /\ Len(logged') = head'
         /\ buf' \in [0 .. (TraceBufSize - 1) -> Events]
         /\ buf'[head % TraceBufSize] = e
         /\ RingHolds'
<1>0. /\ TraceBufSize \in Nat \ {0} /\ head \in Nat
      /\ logged \in Seq(Events) /\ Len(logged) = head
      /\ buf \in [0 .. (TraceBufSize - 1) -> Events]
  BY FlightRecAssumption DEF RecTyped
<1>1. /\ head' = head + 1
      /\ buf' = [buf EXCEPT ![head % TraceBufSize] = e]
      /\ logged' = Append(logged, e)
  BY DEF Record
<1>2. head % TraceBufSize \in 0 .. (TraceBufSize - 1)
  BY <1>0
<1>3. /\ logged' \in Seq(Events) /\ Len(logged') = head + 1
      /\ \A i \in 1 .. head : logged'[i] = logged[i]
      /\ logged'[head + 1] = e
  <2>1. /\ Append(logged, e) \in Seq(Events) /\ Len(Append(logged, e)) = Len(logged) + 1
        /\ \A i \in 1 .. Len(logged) : Append(logged, e)[i] = logged[i]
        /\ Append(logged, e)[Len(logged) + 1] = e
    BY <1>0, AppendProperties
  <2> QED BY <1>0, <1>1, <2>1, Zenon
<1>4. ASSUME NEW i \in 1 .. (head + 1), i > head + 1 - TraceBufSize
      PROVE  buf'[(i - 1) % TraceBufSize] = logged'[i]
  <2>1. CASE i = head + 1
    <3>1. i - 1 = head
      BY <1>0, <2>1
    <3> QED BY <1>0, <1>1, <1>2, <1>3, <2>1, <3>1
  <2>2. CASE i \in 1 .. head
    <3>1. /\ i - 1 \in Nat /\ i - 1 < head /\ head - (i - 1) < TraceBufSize
          /\ i > head - TraceBufSize
      BY <1>0, <1>4, <2>2
    <3>2. (i - 1) % TraceBufSize # head % TraceBufSize
      <4> DEFINE k == i - 1
      <4>1. k \in Nat /\ k < head /\ head - k < TraceBufSize
        BY <3>1
      <4> HIDE DEF k
      <4>2. k % TraceBufSize # head % TraceBufSize
        BY <1>0, <4>1, ModApart
      <4> QED BY <4>2 DEF k
    <3>3. (i - 1) % TraceBufSize \in 0 .. (TraceBufSize - 1)
      BY <1>0, <3>1
    <3>4. buf'[(i - 1) % TraceBufSize] = buf[(i - 1) % TraceBufSize]
      BY <1>0, <1>1, <3>2, <3>3
    <3>5. buf[(i - 1) % TraceBufSize] = logged[i]
      BY <2>2, <3>1 DEF RingHolds
    <3> QED BY <1>3, <2>2, <3>4, <3>5
  <2> QED BY <1>0, <2>1, <2>2
<1>5. RingHolds'
  <2> SUFFICES ASSUME NEW i \in 1 .. head', i > head' - TraceBufSize
               PROVE  buf'[(i - 1) % TraceBufSize] = logged'[i]
    BY DEF RingHolds
  <2>0. head' = head + 1
    BY <1>1
  <2>1. i \in 1 .. (head + 1) /\ i > head + 1 - TraceBufSize
    BY <1>0, <2>0
  <2> QED BY <1>4, <2>1, Zenon
<1> QED BY <1>0, <1>1, <1>2, <1>3, <1>5

(* flightrec_begin_span takes a slot that no span is using.                *)
LEMMA FreeSlotTaken ==
  ASSUME RecTyped, FreeSlots # {}
  PROVE  (CHOOSE x \in FreeSlots : \A y \in FreeSlots : x <= y) \in FreeSlots
<1>1. FreeSlots \in SUBSET Nat
  BY FlightRecAssumption DEF FreeSlots, Slot
<1> QED BY <1>1, LeastElement DEF Min

LEMMA RecStep == RecInv /\ [RecNext]_recVars => RecInv'
<1> SUFFICES ASSUME RecInv, [RecNext]_recVars PROVE RecInv'
  OBVIOUS
<1>0. /\ RecTyped /\ RingHolds /\ SpansOwn
      /\ 0 \notin Slot /\ Outside \notin Slot /\ Slot \subseteq Nat
  BY FlightRecAssumption DEF RecInv, Slot, Outside
<1>1. ASSUME NEW c \in Callers, BeginSpan(c) PROVE RecInv'
  <2>1. CASE FreeSlots = {}
    <3>1. /\ Record(Event("VIOLATION", c, 0)) /\ handle' = [handle EXCEPT ![c] = 0]
          /\ spans' = spans /\ began' = [began EXCEPT ![c] = now] /\ now' = now
      BY <1>1, <2>1 DEF BeginSpan
    <3>2. Event("VIOLATION", c, 0) \in Events
      BY DEF Event, Events, Kinds, Tags
    <3>3. /\ head' \in Nat /\ logged' \in Seq(Events) /\ Len(logged') = head'
          /\ buf' \in [0 .. (TraceBufSize - 1) -> Events] /\ RingHolds'
      BY <1>0, <3>1, <3>2, RecordStep
    <3>4. /\ handle' \in [Callers -> Slot \cup {0, Outside}]
          /\ began' \in [Callers -> Int]
      BY <1>0, <3>1 DEF RecTyped
    <3>5. RecTyped'
      BY <1>0, <3>1, <3>3, <3>4 DEF RecTyped
    <3>6. SpansOwn'
      BY <1>0, <3>1 DEF SpansOwn, RecTyped
    <3> QED BY <3>3, <3>5, <3>6 DEF RecInv
  <2>2. CASE FreeSlots # {}
    <3> DEFINE s == CHOOSE x \in FreeSlots : \A y \in FreeSlots : x <= y
    <3>1. s \in Slot /\ ~spans[s].active
      BY <1>0, <2>2, FreeSlotTaken DEF FreeSlots
    <3>2. /\ spans' = [spans EXCEPT ![s] = [active |-> TRUE, tag |-> c, start |-> now]]
          /\ Record(Event("STEP_START", c, 0)) /\ handle' = [handle EXCEPT ![c] = s]
          /\ began' = [began EXCEPT ![c] = now] /\ now' = now
      BY <1>1, <2>2 DEF BeginSpan
    <3> HIDE DEF s
    <3>3. Event("STEP_START", c, 0) \in Events
      BY DEF Event, Events, Kinds, Tags
    <3>4. /\ head' \in Nat /\ logged' \in Seq(Events) /\ Len(logged') = head'
          /\ buf' \in [0 .. (TraceBufSize - 1) -> Events] /\ RingHolds'
      BY <1>0, <3>2, <3>3, RecordStep
    <3>5. /\ handle' \in [Callers -> Slot \cup {0, Outside}]
          /\ began' \in [Callers -> Int]
          /\ spans' \in [Slot -> [active : BOOLEAN, tag : Tags, start : Int]]
      BY <1>0, <3>1, <3>2 DEF RecTyped, Tags
    <3>6. RecTyped'
      BY <1>0, <3>2, <3>4, <3>5 DEF RecTyped
    <3>7. ASSUME NEW d \in Callers, handle'[d] \in Slot
          PROVE  spans'[handle'[d]] = [active |-> TRUE, tag |-> d, start |-> began'[d]]
      <4>1. CASE d = c
        BY <1>0, <3>1, <3>2, <4>1 DEF RecTyped
      <4>2. CASE d # c
        <5>1. handle'[d] = handle[d] /\ began'[d] = began[d]
          BY <1>0, <3>2, <4>2 DEF RecTyped
        <5>2. spans[handle[d]] = [active |-> TRUE, tag |-> d, start |-> began[d]]
          BY <1>0, <3>7, <5>1 DEF SpansOwn
        <5>3. spans[handle[d]].active /\ handle[d] # s
          BY <3>1, <5>2
        <5> QED BY <1>0, <3>2, <3>7, <5>1, <5>2, <5>3 DEF RecTyped
      <4> QED BY <4>1, <4>2
    <3> QED BY <3>4, <3>6, <3>7 DEF RecInv, SpansOwn
  <2> QED BY <2>1, <2>2
<1>2. ASSUME NEW c \in Callers, EndSpan(c) PROVE RecInv'
  <2>1. handle' = [handle EXCEPT ![c] = Outside] /\ now' = now /\ began' = began
    BY <1>2 DEF EndSpan
  <2>2. handle' \in [Callers -> Slot \cup {0, Outside}]
    BY <1>0, <2>1 DEF RecTyped
  <2>3. CASE EndsSpan(handle[c])
    <3>1. /\ handle[c] \in Slot
          /\ spans[handle[c]] = [active |-> TRUE, tag |-> c, start |-> began[c]]
      BY <1>0, <2>3 DEF EndsSpan, SpansOwn
    <3>2. /\ Record(Event("STEP_END", spans[handle[c]].tag, now - spans[handle[c]].start))
          /\ spans' = [spans EXCEPT ![handle[c]].active = FALSE]
      BY <1>2, <2>3 DEF EndSpan
    <3>3. Event("STEP_END", spans[handle[c]].tag, now - spans[handle[c]].start) \in Events
      BY <1>0, <3>1 DEF Event, Events, Kinds, Tags, RecTyped
    <3>4. /\ head' \in Nat /\ logged' \in Seq(Events) /\ Len(logged') = head'
          /\ buf' \in [0 .. (TraceBufSize - 1) -> Events] /\ RingHolds'
      BY <1>0, <3>2, <3>3, RecordStep
    <3>5. spans' \in [Slot -> [active : BOOLEAN, tag : Tags, start : Int]]
      BY <1>0, <3>1, <3>2 DEF RecTyped
    <3>6. RecTyped'
      BY <1>0, <2>1, <2>2, <3>4, <3>5 DEF RecTyped
    <3>7. ASSUME NEW d \in Callers, handle'[d] \in Slot
          PROVE  spans'[handle'[d]] = [active |-> TRUE, tag |-> d, start |-> began'[d]]
      <4>1. d # c /\ handle'[d] = handle[d]
        BY <1>0, <2>1, <3>7 DEF RecTyped
      <4>2. spans[handle[d]] = [active |-> TRUE, tag |-> d, start |-> began[d]]
        BY <1>0, <3>7, <4>1 DEF SpansOwn
      <4>3. handle[d] # handle[c]
        <5>1. spans[handle[d]].tag = d /\ spans[handle[c]].tag = c
          BY <3>1, <4>2
        <5> QED BY <4>1, <5>1
      <4>4. spans'[handle[d]] = spans[handle[d]]
        BY <1>0, <3>2, <3>7, <4>1, <4>3 DEF RecTyped
      <4> QED BY <2>1, <4>1, <4>2, <4>4
    <3> QED BY <3>4, <3>6, <3>7 DEF RecInv, SpansOwn
  <2>4. CASE ~EndsSpan(handle[c])
    <3>1. UNCHANGED <<buf, head, logged, spans>>
      BY <1>2, <2>4 DEF EndSpan
    <3>2. SpansOwn'
      BY <1>0, <2>1, <3>1 DEF SpansOwn, RecTyped
    <3> QED BY <1>0, <2>1, <2>2, <3>1, <3>2 DEF RecInv, RecTyped, RingHolds
  <2> QED BY <2>3, <2>4
<1>3. ASSUME NEW c \in Callers, LogOther(c) PROVE RecInv'
  <2>1. Record(Event("BUDGET_EXCEED", c, 0)) /\ UNCHANGED <<spans, handle, now, began>>
    BY <1>3 DEF LogOther
  <2>2. Event("BUDGET_EXCEED", c, 0) \in Events
    BY DEF Event, Events, Kinds, Tags
  <2>3. /\ head' \in Nat /\ logged' \in Seq(Events) /\ Len(logged') = head'
        /\ buf' \in [0 .. (TraceBufSize - 1) -> Events] /\ RingHolds'
    BY <1>0, <2>1, <2>2, RecordStep
  <2> QED BY <1>0, <2>1, <2>3 DEF RecInv, RecTyped, SpansOwn
<1>4. CASE Passes
  BY <1>0, <1>4 DEF Passes, RecInv, RecTyped, RingHolds, SpansOwn
<1>5. CASE UNCHANGED recVars
  BY <1>0, <1>5 DEF recVars, RecInv, RecTyped, RingHolds, SpansOwn
<1> QED BY <1>1, <1>2, <1>3, <1>4, <1>5 DEF RecNext

LEMMA RecInvariant == RecSpec => []RecInv
<1>1. RecInit => RecInv
  <2> SUFFICES ASSUME RecInit PROVE RecInv
    OBVIOUS
  <2>0. /\ TraceBufSize \in Nat \ {0} /\ 0 \in 0 .. (TraceBufSize - 1)
        /\ Outside \notin Slot /\ 0 % TraceBufSize = 0
    BY FlightRecAssumption DEF Slot, Outside
  <2>1. Event("BOOT", "none", 0) \in Events /\ NoEvent \in Events
    BY DEF Event, NoEvent, Events, Kinds, Tags
  <2>2. /\ logged \in Seq(Events) /\ Len(logged) = 1 /\ head = 1
        /\ logged[1] = Event("BOOT", "none", 0)
    BY <2>1 DEF RecInit
  <2>3. /\ buf \in [0 .. (TraceBufSize - 1) -> Events]
        /\ buf[0] = Event("BOOT", "none", 0)
    BY <2>0, <2>1 DEF RecInit
  <2>4. /\ spans \in [Slot -> [active : BOOLEAN, tag : Tags, start : Int]]
        /\ handle \in [Callers -> Slot \cup {0, Outside}]
        /\ began \in [Callers -> Int] /\ now \in Nat
    BY DEF RecInit, Inactive, Tags
  <2>5. RecTyped
    BY <2>2, <2>3, <2>4 DEF RecTyped
  <2>6. RingHolds
    <3> SUFFICES ASSUME NEW i \in 1 .. head
                 PROVE  buf[(i - 1) % TraceBufSize] = logged[i]
      BY DEF RingHolds
    <3>1. i = 1 /\ (i - 1) % TraceBufSize = 0
      BY <2>0, <2>2
    <3> QED BY <2>2, <2>3, <3>1
  <2>7. SpansOwn
    BY <2>0 DEF RecInit, SpansOwn
  <2> QED BY <2>5, <2>6, <2>7 DEF RecInv
<1> QED BY <1>1, RecStep, PTL DEF RecSpec

(* The ring, read from the oldest entry, is the last TraceBufSize events,  *)
(* in the order in which they were logged.                                 *)
LEMMA RingRecent == RecInv => RingIsRecent /\ Len(Recent) = Kept /\ Kept \in Nat
<1> SUFFICES ASSUME RecInv PROVE RingIsRecent /\ Len(Recent) = Kept /\ Kept \in Nat
  OBVIOUS
<1>0. /\ TraceBufSize \in Nat \ {0} /\ head \in Nat
      /\ logged \in Seq(Events) /\ Len(logged) = head
      /\ buf \in [0 .. (TraceBufSize - 1) -> Events]
  BY FlightRecAssumption DEF RecInv, RecTyped
<1>1. Kept \in 0 .. head /\ Kept <= TraceBufSize /\ Oldest = head - Kept
  BY <1>0 DEF Kept, Oldest
<1>2. ASSUME NEW i \in 1 .. Kept
      PROVE  /\ Chronicle[i] = logged[head - Kept + i]
             /\ head - Kept + i \in 1 .. head
  <2>1. /\ head - Kept + i \in 1 .. head /\ head - Kept + i > head - TraceBufSize
        /\ Oldest + i - 1 = (head - Kept + i) - 1
    BY <1>0, <1>1
  <2>2. buf[((head - Kept + i) - 1) % TraceBufSize] = logged[head - Kept + i]
    <3> DEFINE k == head - Kept + i
    <3>1. k \in 1 .. head /\ k > head - TraceBufSize
      BY <2>1
    <3> HIDE DEF k
    <3>2. buf[(k - 1) % TraceBufSize] = logged[k]
      BY <3>1 DEF RecInv, RingHolds
    <3> QED BY <3>2 DEF k
  <2> QED BY <2>1, <2>2 DEF Chronicle
<1>3. Chronicle \in Seq(Events) /\ Len(Chronicle) = Kept
  <2>1. \A i \in 1 .. Kept : Chronicle[i] \in Events
    BY <1>0, <1>2
  <2>2. Chronicle \in [1 .. Kept -> Events]
    BY <2>1 DEF Chronicle
  <2> QED BY <1>0, <1>1, <2>2
<1>4. /\ Recent \in Seq(Events) /\ Len(Recent) = Kept
      /\ \A i \in 1 .. Kept : Recent[i] = logged[head - Kept + i]
  <2> DEFINE m == head - Kept + 1
  <2>1. m \in 1 .. (Len(logged) + 1) /\ head \in (m - 1) .. Len(logged)
    BY <1>0, <1>1
  <2>2. \A i \in m .. head : logged[i] \in Events
    BY <1>0, <2>1
  <2>3. Recent = SubSeq(logged, m, head)
    BY <1>0 DEF Recent
  <2>4. /\ SubSeq(logged, m, head) \in Seq(Events)
        /\ Len(SubSeq(logged, m, head)) = head - m + 1
        /\ \A i \in 1 .. (head - m + 1) : SubSeq(logged, m, head)[i] = logged[m + i - 1]
    <3> HIDE DEF m
    <3> QED BY <1>0, <2>1, SubSeqProperties
  <2>5. head - m + 1 = Kept /\ \A i \in 1 .. Kept : m + i - 1 = head - Kept + i
    BY <1>0, <1>1
  <2> HIDE DEF m
  <2> QED BY <2>3, <2>4, <2>5
<1>5. \A i \in 1 .. Kept : Chronicle[i] = Recent[i]
  BY <1>2, <1>4
<1>6. Chronicle = Recent
  BY <1>3, <1>4, <1>5, SeqEqual
<1> QED BY <1>0, <1>1, <1>4, <1>6 DEF RingIsRecent

(* Counting entries by their distance from the oldest is counting them by  *)
(* their place among the recent ones.                                      *)
LEMMA CountShifted ==
  ASSUME NEW n \in Nat, NEW S \in SUBSET (0 .. (n - 1)), NEW T \in SUBSET (1 .. n),
         \A i \in 1 .. n : i \in T <=> i - 1 \in S
  PROVE  Cardinality(S) = Cardinality(T)
<1> DEFINE f == [i \in S |-> i + 1]
<1>1. IsFiniteSet(S)
  <2>1. IsFiniteSet(0 .. (n - 1))
    BY FS_Interval
  <2> QED BY <2>1, FS_Subset
<1>2. \A i \in S : i + 1 \in T /\ i \in Int
  <2> SUFFICES ASSUME NEW i \in S PROVE i + 1 \in T /\ i \in Int
    OBVIOUS
  <2>1. i + 1 \in 1 .. n /\ (i + 1) - 1 = i
    OBVIOUS
  <2> QED BY <2>1
<1>3. f \in [S -> T] /\ \A i \in S : \A j \in S : f[i] = f[j] => i = j
  BY <1>2
<1>4. \A t \in T : \E i \in S : f[i] = t
  <2> SUFFICES ASSUME NEW t \in T PROVE \E i \in S : f[i] = t
    OBVIOUS
  <2>1. t - 1 \in S /\ (t - 1) + 1 = t
    OBVIOUS
  <2> QED BY <2>1
<1>5. f \in Bijection(S, T)
  BY <1>3, <1>4 DEF Bijection, Injection, Surjection, IsInjective
<1>6. ExistsBijection(S, T)
  BY <1>5 DEF ExistsBijection
<1> QED BY <1>1, <1>6, FS_Bijection

(* After any number of laps the ring, read from the oldest entry, is the   *)
(* sequence of the last TraceBufSize events, in the order in which they    *)
(* were logged, and the statistics of a job count its events among them:   *)
(* for every size of the ring and any number of events.                    *)
THEOREM RecorderStaysTrue == RecSpec => []RecorderTrue
<1>1. RecInv => RecorderTrue
  <2> SUFFICES ASSUME RecInv PROVE RecorderTrue
    OBVIOUS
  <2>1. RingIsRecent /\ Len(Recent) = Kept /\ Kept \in Nat
    BY RingRecent
  <2>2. Oldest \in Int
    BY FlightRecAssumption DEF Oldest, RecInv, RecTyped
  <2>3. ASSUME NEW c \in Callers, NEW types
        PROVE  Cardinality({i \in 0 .. (Kept - 1) :
                              /\ buf[(Oldest + i) % TraceBufSize].tag = c
                              /\ buf[(Oldest + i) % TraceBufSize].type \in types})
                 = Cardinality(Mine(c, types))
    <3> DEFINE S == {i \in 0 .. (Kept - 1) :
                       /\ buf[(Oldest + i) % TraceBufSize].tag = c
                       /\ buf[(Oldest + i) % TraceBufSize].type \in types}
               T == Mine(c, types)
    <3>1. S \in SUBSET (0 .. (Kept - 1)) /\ T \in SUBSET (1 .. Kept)
      BY <2>1 DEF Mine
    <3>2. ASSUME NEW i \in 1 .. Kept PROVE i \in T <=> i - 1 \in S
      <4>1. Recent[i] = buf[(Oldest + i - 1) % TraceBufSize]
        BY <2>1 DEF RingIsRecent, Chronicle
      <4>2. Oldest + i - 1 = Oldest + (i - 1) /\ i - 1 \in 0 .. (Kept - 1)
        BY <2>1, <2>2
      <4>3. Recent[i] = buf[(Oldest + (i - 1)) % TraceBufSize]
        BY <4>1, <4>2
      <4> QED BY <2>1, <4>2, <4>3 DEF Mine
    <3> HIDE DEF S, T
    <3>3. Cardinality(S) = Cardinality(T)
      BY <2>1, <3>1, <3>2, CountShifted
    <3> QED BY <3>3 DEF S, T
  <2>4. ASSUME NEW c \in Callers
        PROVE  /\ JobStats(c).steps = Cardinality(Mine(c, {"STEP_END"}))
               /\ JobStats(c).violations = Cardinality(Mine(c, {"VIOLATION", "BUDGET_EXCEED"}))
    <3> DEFINE mine == {i \in 0 .. (Kept - 1) : buf[(Oldest + i) % TraceBufSize].tag = c}
               ends == {i \in mine : buf[(Oldest + i) % TraceBufSize].type = "STEP_END"}
               bad == {i \in mine : buf[(Oldest + i) % TraceBufSize].type
                                       \in {"VIOLATION", "BUDGET_EXCEED"}}
    <3>1. JobStats(c).steps = Cardinality(ends) /\ JobStats(c).violations = Cardinality(bad)
      BY DEF JobStats
    <3>2. ends = {i \in 0 .. (Kept - 1) :
                    /\ buf[(Oldest + i) % TraceBufSize].tag = c
                    /\ buf[(Oldest + i) % TraceBufSize].type \in {"STEP_END"}}
      OBVIOUS
    <3>3. bad = {i \in 0 .. (Kept - 1) :
                   /\ buf[(Oldest + i) % TraceBufSize].tag = c
                   /\ buf[(Oldest + i) % TraceBufSize].type \in {"VIOLATION", "BUDGET_EXCEED"}}
      OBVIOUS
    <3> HIDE DEF ends, bad
    <3> QED BY <2>3, <3>1, <3>2, <3>3
  <2> QED BY <2>1, <2>4 DEF RecorderTrue, StatsMatch
<1> QED BY <1>1, RecInvariant, PTL

(* A caller that ends a valid span reads back as its last duration the     *)
(* time since it began it, whatever spans others began and ended           *)
(* meanwhile: for every number of span slots and every set of callers.     *)
THEOREM DurationStaysOwn == RecSpec => DurationIsOwn
<1> DEFINE Ends(c) == handle[c] \in Slot /\ handle'[c] = Outside
           Own(c) == LastDuration(c)' = now - began[c]
<1>1. ASSUME RecInv, [RecNext]_recVars, NEW c \in Callers, Ends(c)
      PROVE  Own(c)
  <2>0. /\ RecTyped /\ RingHolds /\ SpansOwn /\ TraceBufSize \in Nat \ {0} /\ head \in Nat
        /\ Outside \notin Slot /\ Outside # 0
    BY <1>1, FlightRecAssumption DEF RecInv, RecTyped, Slot, Outside
  <2>1. EndSpan(c)
    <3>1. handle'[c] # handle[c]
      BY <1>1, <2>0
    <3>2. ASSUME NEW d \in Callers, BeginSpan(d) PROVE FALSE
      <4>1. d = c
        BY <2>0, <3>1, <3>2 DEF BeginSpan, RecTyped
      <4> QED BY <1>1, <2>0, <3>2, <4>1 DEF BeginSpan
    <3>3. ASSUME NEW d \in Callers, EndSpan(d) PROVE d = c
      BY <2>0, <3>1, <3>3 DEF EndSpan, RecTyped
    <3>4. ASSUME NEW d \in Callers, LogOther(d) PROVE FALSE
      BY <3>1, <3>4 DEF LogOther
    <3>5. ~Passes /\ ~UNCHANGED recVars
      BY <3>1 DEF Passes, recVars
    <3> QED BY <1>1, <3>2, <3>3, <3>4, <3>5 DEF RecNext
  <2>2. spans[handle[c]] = [active |-> TRUE, tag |-> c, start |-> began[c]]
    BY <1>1, <2>0 DEF SpansOwn
  <2> DEFINE e == Event("STEP_END", c, now - began[c])
  <2>3. Record(e)
    BY <1>1, <2>1, <2>2 DEF EndSpan, EndsSpan
  <2>4. e \in Events
    BY <2>0 DEF Event, Events, Kinds, Tags, RecTyped
  <2>5. e.type = "STEP_END" /\ e.tag = c /\ e.extra = now - began[c]
    BY DEF Event
  <2> HIDE DEF e
  <2>6. head' = head + 1 /\ buf'[head % TraceBufSize] = e
    BY <2>0, <2>3, <2>4, RecordStep
  <2> DEFINE at == {i \in 0 .. (Kept' - 1) :
                      LET x == buf'[(head' - 1 - i) % TraceBufSize]
                      IN x.type = "STEP_END" /\ x.tag = c}
  <2>7. Kept' \in Nat \ {0} /\ head' - 1 - 0 = head
    BY <2>0, <2>6 DEF Kept
  <2>8. 0 \in at /\ \A k \in at : k \in Nat
    <3>1. 0 \in 0 .. (Kept' - 1) /\ \A k \in 0 .. (Kept' - 1) : k \in Nat
      BY <2>0, <2>6 DEF Kept
    <3>2. buf'[(head' - 1 - 0) % TraceBufSize] = e
      BY <2>6, <2>7
    <3> QED BY <2>5, <3>1, <3>2
  <2>9. LastDuration(c)' = IF at = {} THEN 0
          ELSE buf'[(head' - 1 - (CHOOSE i \in at : \A k \in at : i <= k)) % TraceBufSize].extra
    BY DEF LastDuration
  <2> HIDE DEF at
  <2>10. (CHOOSE i \in at : \A k \in at : i <= k) = 0
    BY <2>8
  <2> QED BY <2>5, <2>6, <2>7, <2>8, <2>9, <2>10
<1>2. RecInv /\ [RecNext]_recVars => [\A c \in Callers : Ends(c) => Own(c)]_recVars
  BY <1>1
<1> QED BY <1>2, RecInvariant, PTL DEF RecSpec, DurationIsOwn

-----------------------------------------------------------------------------
(*                             The kernel heap                             *)

HeaderRec == [kind : {"hdr"}, size : Nat, free : BOOLEAN, next : Unit \cup {NULL},
              prev : Unit \cup {NULL}]
Cells == HeaderRec \cup {Junk} \cup {Data(c) : c \in Clients}
Ends(m, b) == b + Hdr + m[b].size

(* The headers at B are a list that tiles the heap, linked both ways.      *)
Links(m, B, b) ==
  /\ m[b] \in HeaderRec /\ m[b].size >= 1 /\ Ends(m, b) <= NUnits
  /\ m[b].next = IF Ends(m, b) = NUnits THEN NULL ELSE Ends(m, b)
  /\ Ends(m, b) # NUnits => Ends(m, b) \in B /\ m[Ends(m, b)].prev = b
  /\ b = 0 => m[b].prev = NULL
  /\ b # 0 => m[b].prev \in B /\ Ends(m, m[b].prev) = b
Chain(m, B) ==
  /\ m \in [Unit -> Cells] /\ B \in SUBSET Unit /\ 0 \in B
  /\ \A b \in B : Links(m, B, b)
  /\ \A b, x \in B : b < x => Ends(m, b) <= x

(* What the units and the bounds are.                                      *)
LEMMA UnitIs ==
  /\ NUnits \in Nat /\ Hdr \in Nat /\ Hdr >= 1 /\ NUnits >= 3
  /\ \A u : u \in Unit <=> u \in Nat /\ u < NUnits
  /\ NULL \notin Unit /\ 0 \in Unit
BY KHeapAssumption DEF Unit, NULL

(* A cell with kind hdr is a header.                                       *)
LEMMA CellIs ==
  /\ \A x \in Cells : x.kind = "hdr" => x \in HeaderRec
  /\ \A x \in HeaderRec : x \in Cells /\ x.kind = "hdr"
  /\ \A c \in Clients : Data(c) \in Cells /\ Data(c).kind # "hdr"
  /\ Junk \in Cells /\ Junk.kind # "hdr"
  /\ \A c, d \in Clients : Data(c) = Data(d) => c = d
<1>1. ASSUME NEW x \in Cells, x.kind = "hdr" PROVE x \in HeaderRec
  BY <1>1 DEF Cells, Junk, Data
<1>2. \A x \in HeaderRec : x \in Cells /\ x.kind = "hdr"
  BY DEF Cells, HeaderRec
<1>3. \A c \in Clients : Data(c) \in Cells /\ Data(c).kind # "hdr"
  BY DEF Cells, Data
<1>4. Junk \in Cells /\ Junk.kind # "hdr"
  BY DEF Cells, Junk
<1>5. \A c, d \in Clients : Data(c) = Data(d) => c = d
  BY DEF Data
<1> QED BY <1>1, <1>2, <1>3, <1>4, <1>5

(* The walk of coalesce back along prev, step by step.                     *)
LEMMA BackWalk ==
  ASSUME NEW m, NEW B, NEW b \in B, \A x \in B : Back(m, x) \in B, m[b].free
  PROVE  \E w : /\ w[0] = b /\ \A i \in 1 .. NUnits : w[i] = Back(m, w[i-1])
                /\ FreeRunStart(m, b) = w[NUnits]
<1> DEFINE Is(u) == u = [i \in 0 .. NUnits |-> IF i = 0 THEN b ELSE Back(m, u[i-1])]
           w == CHOOSE u : Is(u)
           G == [i \in Nat |-> [x \in B |-> Back(m, x)]]
<1>0. NUnits \in Nat
  BY UnitIs
<1>1. PICK f \in [0 .. NUnits -> B] : f[0] = b /\ \A i \in 1 .. NUnits : f[i] = G[i][f[i-1]]
  <2>1. G \in [Nat -> [B -> B]]
    OBVIOUS
  <2> HIDE DEF G
  <2>2. \E f : Iterated(f, B, b, G, NUnits)
    BY <1>0, <2>1, Iterates
  <2> QED BY <2>2 DEF Iterated
<1>2. ASSUME NEW i \in 0 .. NUnits PROVE f[i] = IF i = 0 THEN b ELSE Back(m, f[i-1])
  <2>1. CASE i = 0
    BY <1>1, <2>1
  <2>2. CASE i # 0
    <3>1. i \in 1 .. NUnits /\ i - 1 \in 0 .. NUnits /\ i \in Nat
      BY <1>0, <2>2
    <3>2. f[i-1] \in B /\ G[i][f[i-1]] = Back(m, f[i-1])
      BY <3>1
    <3> QED BY <1>1, <2>2, <3>1, <3>2
  <2> QED BY <2>1, <2>2
<1>3. Is(f)
  BY <1>2
<1>4. Is(w)
  <2> HIDE DEF Is
  <2> QED BY <1>3
<1>5. FreeRunStart(m, b) = w[NUnits]
  BY DEF FreeRunStart
<1> HIDE DEF w
<1>6. w[0] = b
  BY <1>0, <1>4
<1>7. ASSUME NEW i \in 1 .. NUnits PROVE w[i] = Back(m, w[i-1])
  <2>1. i \in 0 .. NUnits /\ i # 0
    BY <1>0
  <2> QED BY <1>4, <2>1
<1> QED BY <1>5, <1>6, <1>7

(* Its walk on along next.                                                 *)
LEMMA OnwardWalk ==
  ASSUME NEW m, NEW B, NEW b \in B, \A x \in B : Onward(m, x) \in B
  PROVE  \E w : /\ w[0] = b /\ \A i \in 1 .. NUnits : w[i] = Onward(m, w[i-1])
                /\ LastOfRun(m, b) = w[NUnits]
<1> DEFINE Is(u) == u = [i \in 0 .. NUnits |-> IF i = 0 THEN b ELSE Onward(m, u[i-1])]
           w == CHOOSE u : Is(u)
           G == [i \in Nat |-> [x \in B |-> Onward(m, x)]]
<1>0. NUnits \in Nat
  BY UnitIs
<1>1. PICK f \in [0 .. NUnits -> B] : f[0] = b /\ \A i \in 1 .. NUnits : f[i] = G[i][f[i-1]]
  <2>1. G \in [Nat -> [B -> B]]
    OBVIOUS
  <2> HIDE DEF G
  <2>2. \E f : Iterated(f, B, b, G, NUnits)
    BY <1>0, <2>1, Iterates
  <2> QED BY <2>2 DEF Iterated
<1>2. ASSUME NEW i \in 0 .. NUnits PROVE f[i] = IF i = 0 THEN b ELSE Onward(m, f[i-1])
  <2>1. CASE i = 0
    BY <1>1, <2>1
  <2>2. CASE i # 0
    <3>1. i \in 1 .. NUnits /\ i - 1 \in 0 .. NUnits /\ i \in Nat
      BY <1>0, <2>2
    <3>2. f[i-1] \in B /\ G[i][f[i-1]] = Onward(m, f[i-1])
      BY <3>1
    <3> QED BY <1>1, <2>2, <3>1, <3>2
  <2> QED BY <2>1, <2>2
<1>3. Is(f)
  BY <1>2
<1>4. Is(w)
  <2> HIDE DEF Is
  <2> QED BY <1>3
<1>5. LastOfRun(m, b) = w[NUnits]
  BY DEF LastOfRun
<1> HIDE DEF w
<1>6. w[0] = b
  BY <1>0, <1>4
<1>7. ASSUME NEW i \in 1 .. NUnits PROVE w[i] = Onward(m, w[i-1])
  <2>1. i \in 0 .. NUnits /\ i # 0
    BY <1>0
  <2> QED BY <1>4, <2>1
<1> QED BY <1>5, <1>6, <1>7

(* A list whose links and sizes are what they were is one still.           *)
LEMMA ChainSame ==
  ASSUME NEW m, NEW B, Chain(m, B), NEW r \in [Unit -> Cells],
         \A b \in B : /\ r[b] \in HeaderRec /\ r[b].size = m[b].size
                      /\ r[b].next = m[b].next /\ r[b].prev = m[b].prev
  PROVE  Chain(r, B) /\ \A b \in B : Ends(r, b) = Ends(m, b)
<1>1. \A b \in B : Ends(r, b) = Ends(m, b)
  BY DEF Ends
<1>2. ASSUME NEW b \in B PROVE Links(r, B, b)
  <2>1. Links(m, B, b)
    BY DEF Chain
  <2> QED BY <1>1, <2>1 DEF Links
<1> QED BY <1>1, <1>2 DEF Chain

(* Where the blocks of a list lie.                                         *)
LEMMA ChainIs ==
  ASSUME NEW m, NEW B, Chain(m, B), NEW b \in B
  PROVE  /\ b \in Unit /\ b \in Nat /\ b < NUnits
         /\ m[b] \in HeaderRec /\ m[b].size \in Nat /\ m[b].size >= 1
         /\ m[b].free \in BOOLEAN /\ IsHeader(m, b)
         /\ Ends(m, b) = b + Hdr + m[b].size /\ Ends(m, b) \in Nat /\ Ends(m, b) <= NUnits
         /\ b + Hdr < Ends(m, b)
         /\ \A u \in Int : b < u /\ u < Ends(m, b) => u \in Unit /\ u \notin B
<1>1. /\ b \in Unit /\ m[b] \in HeaderRec /\ m[b].size >= 1 /\ Ends(m, b) <= NUnits
      /\ \A x \in B : b < x => Ends(m, b) <= x
  BY DEF Chain, Links
<1>2. b \in Nat /\ b < NUnits /\ Hdr \in Nat /\ NUnits \in Nat
  BY <1>1, UnitIs
<1>3. m[b].size \in Nat /\ m[b].free \in BOOLEAN /\ m[b].kind = "hdr"
  BY <1>1 DEF HeaderRec
<1>4. IsHeader(m, b)
  BY <1>1, <1>3 DEF IsHeader
<1>5. /\ Ends(m, b) = b + Hdr + m[b].size /\ Ends(m, b) \in Nat
      /\ b + Hdr < Ends(m, b)
  BY <1>1, <1>2, <1>3 DEF Ends
<1>6. ASSUME NEW u \in Int, b < u, u < Ends(m, b) PROVE u \in Unit /\ u \notin B
  BY <1>1, <1>2, <1>5, <1>6, UnitIs
<1> QED BY <1>1, <1>2, <1>3, <1>4, <1>5, <1>6

(* The neighbours of a block.                                              *)
LEMMA Neighbours ==
  ASSUME NEW m, NEW B, Chain(m, B), NEW b \in B
  PROVE  /\ m[b].next = IF Ends(m, b) = NUnits THEN NULL ELSE Ends(m, b)
         /\ Ends(m, b) # NUnits => Ends(m, b) \in B /\ m[Ends(m, b)].prev = b
         /\ b = 0 => m[b].prev = NULL
         /\ b # 0 => m[b].prev \in B /\ Ends(m, m[b].prev) = b /\ m[b].prev < b
         /\ \A x \in B : x > b => Ends(m, b) <= x
<1>1. Links(m, B, b) /\ \A x \in B : b < x => Ends(m, b) <= x
  BY DEF Chain
<1>2. b # 0 => m[b].prev < b
  <2> SUFFICES ASSUME b # 0 PROVE m[b].prev < b
    OBVIOUS
  <2>1. m[b].prev \in B /\ Ends(m, m[b].prev) = b
    BY <1>1 DEF Links
  <2>2. m[b].prev \in Nat /\ m[b].prev + Hdr < Ends(m, m[b].prev) /\ b \in Nat
    BY <2>1, ChainIs
  <2> QED BY <2>1, <2>2, UnitIs
<1>3. \A x \in B : x > b <=> b < x
  <2>1. b \in Nat /\ \A x \in B : x \in Nat
    BY ChainIs
  <2> QED BY <2>1
<1> QED BY <1>1, <1>2, <1>3 DEF Links

(* The list that kmalloc walks is the list of the blocks.                  *)
LEMMA BlocksIs ==
  ASSUME NEW m, NEW B, Chain(m, B)
  PROVE  Blocks(m) = B
<1> DEFINE Is(u) == u = [i \in 0 .. NUnits |-> IF i = 0 THEN {0} ELSE Behind(m, u[i-1])]
           w == CHOOSE u : Is(u)
           T == SUBSET B
           G == [i \in Nat |-> [x \in T |-> Behind(m, x)]]
<1>0. NUnits \in Nat /\ {0} \in T
  BY UnitIs DEF Chain
<1>1. ASSUME NEW x \in T PROVE Behind(m, x) \in T
  <2>1. \A b \in x : m[b].next = NULL \/ m[b].next \in B
    BY Neighbours
  <2> QED BY <2>1 DEF Behind
<1>2. PICK f \in [0 .. NUnits -> T] : f[0] = {0} /\ \A i \in 1 .. NUnits : f[i] = G[i][f[i-1]]
  <2>1. G \in [Nat -> [T -> T]]
    BY <1>1
  <2> HIDE DEF G, T
  <2>2. \E f : Iterated(f, T, {0}, G, NUnits)
    BY <1>0, <2>1, Iterates
  <2> QED BY <2>2 DEF Iterated
<1>3. ASSUME NEW i \in 0 .. NUnits PROVE f[i] = IF i = 0 THEN {0} ELSE Behind(m, f[i-1])
  <2>1. CASE i = 0
    BY <1>2, <2>1
  <2>2. CASE i # 0
    <3>1. i \in 1 .. NUnits /\ i - 1 \in 0 .. NUnits /\ i \in Nat
      BY <1>0, <2>2
    <3>2. f[i-1] \in T /\ G[i][f[i-1]] = Behind(m, f[i-1])
      <4> HIDE DEF T
      <4> QED BY <3>1
    <3> QED BY <1>2, <2>2, <3>1, <3>2
  <2> QED BY <2>1, <2>2
<1>4. Is(f)
  <2> HIDE DEF T
  <2> QED BY <1>3
<1>5. Is(w)
  <2> HIDE DEF Is, T
  <2> QED BY <1>4
<1>6. Blocks(m) = w[NUnits]
  BY DEF Blocks
<1>7. \A u, v : Is(u) /\ Is(v) => \A i \in 0 .. NUnits : u[i] = v[i]
  <2> SUFFICES ASSUME NEW u, NEW v, Is(u), Is(v) PROVE \A i \in 0 .. NUnits : u[i] = v[i]
    OBVIOUS
  <2> DEFINE Bad == {i \in 0 .. NUnits : u[i] # v[i]}
  <2> SUFFICES ASSUME Bad # {} PROVE FALSE
    OBVIOUS
  <2>1. Min(Bad) \in Bad /\ \A i \in Bad : Min(Bad) <= i
    <3>1. Bad \in SUBSET Nat
      OBVIOUS
    <3> HIDE DEF Bad
    <3> QED BY <3>1, LeastElement
  <2> DEFINE k == Min(Bad)
  <2>2. k \in 0 .. NUnits /\ u[k] # v[k]
    BY <2>1
  <2>3. k # 0
    BY <1>0, <2>2
  <2>4. k - 1 \in 0 .. NUnits /\ ~(k <= k - 1)
    <3> HIDE DEF k
    <3> QED BY <1>0, <2>2, <2>3
  <2>5. u[k-1] = v[k-1]
    BY <2>1, <2>4
  <2>6. u[k] = Behind(m, u[k-1]) /\ v[k] = Behind(m, v[k-1])
    <3> HIDE DEF k
    <3> QED BY <2>2, <2>3
  <2> QED BY <2>2, <2>5, <2>6
<1>8. Blocks(m) = f[NUnits]
  <2> HIDE DEF Is, w
  <2> QED BY <1>0, <1>4, <1>5, <1>6, <1>7
<1> DEFINE Late == {i \in 0 .. NUnits : \E b \in B : b <= i /\ b \notin f[i]}
<1>9. Late = {}
  <2> SUFFICES ASSUME Late # {} PROVE FALSE
    OBVIOUS
  <2> DEFINE k == Min(Late)
  <2>1. k \in Late /\ \A i \in Late : k <= i
    <3>1. Late \in SUBSET Nat
      OBVIOUS
    <3> HIDE DEF Late
    <3> QED BY <3>1, LeastElement
  <2> HIDE DEF k
  <2>2. k \in 0 .. NUnits /\ \E b \in B : b <= k /\ b \notin f[k]
    BY <2>1
  <2>3. PICK b \in B : b <= k /\ b \notin f[k]
    BY <2>2
  <2>4. b \in Nat
    BY ChainIs
  <2>5. k # 0
    BY <1>2, <2>2, <2>3, <2>4
  <2>6. k - 1 \in 0 .. NUnits /\ ~(k <= k - 1)
    BY <1>0, <2>2, <2>5
  <2>7. f[k] = Behind(m, f[k-1])
    BY <1>3, <2>2, <2>5
  <2>8. \A x \in B : x <= k - 1 => x \in f[k-1]
    BY <2>1, <2>6
  <2>9. b \notin f[k-1]
    BY <2>3, <2>7 DEF Behind
  <2>10. b # 0
    <3>1. 0 <= k - 1 /\ 0 \in B
      BY <1>0, <2>2, <2>5 DEF Chain
    <3> QED BY <2>8, <2>9, <3>1
  <2>11. m[b].prev \in B /\ Ends(m, m[b].prev) = b /\ m[b].prev < b /\ m[b].prev \in Nat
    BY <2>10, Neighbours, ChainIs
  <2>12. m[b].prev \in f[k-1]
    BY <2>2, <2>3, <2>4, <2>8, <2>11
  <2>13. m[m[b].prev].next = b /\ IsHeader(m, m[b].prev) /\ b # NULL
    BY <2>4, <2>11, Neighbours, ChainIs, UnitIs DEF NULL
  <2> QED BY <2>3, <2>7, <2>12, <2>13 DEF Behind
<1>10. B \subseteq f[NUnits]
  <2> SUFFICES ASSUME NEW b \in B PROVE b \in f[NUnits]
    OBVIOUS
  <2>1. b \in Nat /\ b <= NUnits /\ NUnits \in 0 .. NUnits
    BY <1>0, ChainIs
  <2> QED BY <1>9, <2>1
<1>11. f[NUnits] \subseteq B
  BY <1>0
<1> QED BY <1>8, <1>10, <1>11

(* No two neighbours are free, except that one of them may be h.           *)
Tidy(m, B, h) == \A b \in B : Ends(m, b) # NUnits /\ m[b].free /\ m[Ends(m, b)].free
                                => b = h \/ Ends(m, b) = h
(* A header left behind in a payload says free.                            *)
OldFree(m, B) == \A u \in Unit : m[u].kind = "hdr" /\ ~m[u].free => u \in B

Whole(m, B) == Chain(m, B) /\ Tidy(m, B, NULL) /\ OldFree(m, B)

(* The blocks in use, those in Out aside, stay with what they hold, and    *)
(* only those in In are in use beside them.                                *)
Used(m, B) == {b \in B : ~m[b].free}
Carry(m, B, r, C, Out, In) ==
  /\ \A b \in Used(m, B) \ Out :
       b \in Used(r, C) /\ r[b].size >= m[b].size
       /\ \A u \in Unit : b < u /\ u < Ends(m, b) => r[u] = m[u]
  /\ Used(r, C) \subseteq (Used(m, B) \ Out) \cup In

(* The first fit is a free block that is large enough.                     *)
LEMMA FirstFitIs ==
  ASSUME NEW m, NEW B, Chain(m, B), NEW want \in Nat, FirstFit(m, want) # NULL
  PROVE  /\ FirstFit(m, want) \in B
         /\ m[FirstFit(m, want)].free /\ m[FirstFit(m, want)].size >= want
<1> DEFINE S == {b \in B : m[b].free /\ m[b].size >= want}
<1>1. Blocks(m) = B
  BY BlocksIs
<1>2. FirstFit(m, want) = IF S = {} THEN NULL ELSE CHOOSE b \in S : \A x \in S : b <= x
  BY <1>1 DEF FirstFit
<1>3. S # {}
  BY <1>2
<1>4. S \in SUBSET Nat
  BY ChainIs
<1>5. FirstFit(m, want) = Min(S)
  BY <1>2, <1>3 DEF Min
<1>6. Min(S) \in S
  <2> HIDE DEF S
  <2> QED BY <1>3, <1>4, LeastElement
<1> QED BY <1>5, <1>6

(* One field of a header is set.                                           *)
LEMMA PrevSet ==
  ASSUME NEW r \in HeaderRec, NEW p \in Unit \cup {NULL}, NEW x, x = [r EXCEPT !.prev = p]
  PROVE  x \in HeaderRec /\ x.prev = p /\ x.size = r.size /\ x.next = r.next /\ x.free = r.free
BY DEF HeaderRec

LEMMA FreeSet ==
  ASSUME NEW r \in HeaderRec, NEW f \in BOOLEAN, NEW x, x = [r EXCEPT !.free = f]
  PROVE  x \in HeaderRec /\ x.free = f /\ x.size = r.size /\ x.next = r.next /\ x.prev = r.prev
BY DEF HeaderRec

(* The blocks behind b up to l become part of b: what each unit holds then. *)
Merged(m, b, l) ==
  [LinkBack(m, m[l].next, b) EXCEPT ![b].size = l + m[l].size - b, ![b].next = m[l].next]

LEMMA MergedIs ==
  ASSUME NEW m, NEW B, Chain(m, B), NEW b \in B, NEW l \in B, b < l
  PROVE  /\ Merged(m, b, l) \in [Unit -> Cells]
         /\ Merged(m, b, l)[b] \in HeaderRec
         /\ Merged(m, b, l)[b].size = Ends(m, l) - (b + Hdr)
         /\ Merged(m, b, l)[b].next = m[l].next
         /\ Merged(m, b, l)[b].prev = m[b].prev
         /\ Merged(m, b, l)[b].free = m[b].free
         /\ Ends(m, l) # NUnits =>
              LET x == Merged(m, b, l)[Ends(m, l)] IN
              /\ x \in HeaderRec /\ x.prev = b /\ x.size = m[Ends(m, l)].size
              /\ x.next = m[Ends(m, l)].next /\ x.free = m[Ends(m, l)].free
         /\ \A u \in Unit : u # b /\ u # Ends(m, l) => Merged(m, b, l)[u] = m[u]
         /\ Ends(m, l) > b + Hdr
<1> DEFINE n == m[l].next
           e == Ends(m, l)
           s == l + m[l].size - b
           m1 == LinkBack(m, n, b)
           h == [m1[b] EXCEPT !.size = s, !.next = n]
           r == [m1 EXCEPT ![b] = h]
<1>1. Merged(m, b, l) = r
  BY DEF Merged
<1>2. /\ b \in Unit /\ l \in Unit /\ b \in Nat /\ l \in Nat /\ m[l].size \in Nat
      /\ m[l].size >= 1 /\ e = l + Hdr + m[l].size /\ e \in Nat /\ Hdr \in Nat
      /\ m[b] \in HeaderRec /\ m[l] \in HeaderRec /\ e <= NUnits /\ NUnits \in Nat
  BY ChainIs, UnitIs
<1>3. s \in Nat /\ s = e - (b + Hdr) /\ e > b + Hdr /\ e # b
  BY <1>2
<1>4. /\ n = IF e = NUnits THEN NULL ELSE e
      /\ e # NUnits => e \in B
  BY Neighbours
<1>5. n \in Unit \cup {NULL} /\ m \in [Unit -> Cells]
  BY <1>4 DEF Chain
<1>6. e # NUnits => e \in Unit /\ m[e] \in HeaderRec /\ e # NULL /\ [m[e] EXCEPT !.prev = b] \in HeaderRec
  <2> SUFFICES ASSUME e # NUnits
               PROVE e \in Unit /\ m[e] \in HeaderRec /\ e # NULL /\ [m[e] EXCEPT !.prev = b] \in HeaderRec
    OBVIOUS
  <2>1. e \in Unit /\ m[e] \in HeaderRec /\ e # NULL
    BY <1>2, <1>4, ChainIs, UnitIs
  <2>2. [m[e] EXCEPT !.prev = b] \in HeaderRec
    <3> HIDE DEF e
    <3> QED BY <1>2, <2>1, PrevSet
  <2> QED BY <2>1, <2>2
<1>7. /\ e # NUnits => m1 = [m EXCEPT ![e] = [m[e] EXCEPT !.prev = b]]
      /\ e = NUnits => m1 = m
  <2>1. CASE e = NUnits
    BY <2>1, <1>4 DEF LinkBack
  <2>2. CASE e # NUnits
    BY <2>2, <1>4, <1>6 DEF LinkBack
  <2> QED BY <2>1, <2>2
<1>8. m1[b] = m[b] /\ m1 \in [Unit -> Cells]
  <2>1. CASE e = NUnits
    BY <2>1, <1>5, <1>7
  <2>2. CASE e # NUnits
    BY <2>2, <1>2, <1>3, <1>5, <1>6, <1>7, CellIs
  <2> QED BY <2>1, <2>2
<1>9. /\ h \in HeaderRec /\ h.size = s /\ h.next = n /\ h.free = m[b].free /\ h.prev = m[b].prev
  <2>1. h = [m[b] EXCEPT !.size = s, !.next = n]
    BY <1>8
  <2>2. s \in Nat /\ n \in Unit \cup {NULL} /\ m[b] \in HeaderRec
    BY <1>2, <1>3, <1>5
  <2> HIDE DEF m1, s, n, h
  <2> QED BY <2>1, <2>2 DEF HeaderRec
<1>10. r \in [Unit -> Cells] /\ r[b] = h /\ \A u \in Unit \ {b} : r[u] = m1[u]
  <2> HIDE DEF m1, h
  <2>1. h \in Cells
    BY <1>9, CellIs
  <2> QED BY <1>2, <1>8, <2>1
<1>11. e # NUnits =>
          LET x == r[e] IN
              /\ x \in HeaderRec /\ x.prev = b /\ x.size = m[e].size
              /\ x.next = m[e].next /\ x.free = m[e].free
  <2> SUFFICES ASSUME e # NUnits PROVE LET x == r[e] IN
              /\ x \in HeaderRec /\ x.prev = b /\ x.size = m[e].size
              /\ x.next = m[e].next /\ x.free = m[e].free
    OBVIOUS
  <2>1. r[e] = [m[e] EXCEPT !.prev = b]
    <3> HIDE DEF e, r, m1
    <3> QED BY <1>3, <1>5, <1>6, <1>7, <1>10
  <2>2. m[e] \in HeaderRec /\ b \in Unit \cup {NULL}
    BY <1>2, <1>6
  <2> HIDE DEF r, e
  <2> QED BY <2>1, <2>2, PrevSet
<1>12. ASSUME NEW u \in Unit, u # b, u # e PROVE r[u] = m[u]
  <2> HIDE DEF e, r, m1
  <2>1. r[u] = m1[u]
    BY <1>10, <1>12
  <2>2. m1[u] = m[u]
    BY <1>5, <1>6, <1>7, <1>12
  <2> QED BY <2>1, <2>2
<1> QED
  <2> HIDE DEF r, h, m1, s
  <2> QED BY <1>1, <1>3, <1>9, <1>10, <1>11, <1>12

(* Merging free blocks into b keeps the list, what is in use and what it   *)
(* holds, and the other blocks' flags.                                     *)
LEMMA MergeKeeps ==
  ASSUME NEW m, NEW B, Chain(m, B), OldFree(m, B), NEW b \in B, NEW l \in B, b < l,
         \A x \in B : b < x /\ x <= l => m[x].free
  PROVE  LET r == Merged(m, b, l)
             C == {x \in B : x <= b \/ l < x}
         IN /\ Chain(r, C) /\ OldFree(r, C) /\ Carry(m, B, r, C, {}, {})
            /\ Ends(r, b) = Ends(m, l) /\ r[b].size >= m[b].size
            /\ \A x \in C : x # b => Ends(r, x) = Ends(m, x)
            /\ \A x \in C : r[x].free = m[x].free
            /\ \A u \in Unit : u \notin B => r[u] = m[u]
<1> DEFINE r == Merged(m, b, l)
           C == {x \in B : x <= b \/ l < x}
           e == Ends(m, l)
<1>1. /\ r \in [Unit -> Cells] /\ r[b] \in HeaderRec
      /\ r[b].size = e - (b + Hdr) /\ r[b].next = m[l].next
      /\ r[b].prev = m[b].prev /\ r[b].free = m[b].free
      /\ e # NUnits =>
           /\ r[e] \in HeaderRec /\ r[e].prev = b /\ r[e].size = m[e].size
           /\ r[e].next = m[e].next /\ r[e].free = m[e].free
      /\ \A u \in Unit : u # b /\ u # e => r[u] = m[u]
      /\ e > b + Hdr
  BY MergedIs
<1> HIDE DEF r
<1>2. /\ b \in Unit /\ l \in Unit /\ b \in Nat /\ l \in Nat /\ e \in Nat /\ l < e
      /\ e <= NUnits /\ Hdr \in Nat /\ Hdr >= 1 /\ NUnits \in Nat /\ Ends(m, b) \in Nat
      /\ Ends(m, b) = b + Hdr + m[b].size /\ m[b].size \in Nat /\ m[b].size >= 1
  BY ChainIs, UnitIs
<1>3. /\ m[l].next = IF e = NUnits THEN NULL ELSE e
      /\ e # NUnits => e \in B
      /\ Ends(m, b) <= l
      /\ \A x \in B : x > l => e <= x
  BY Neighbours, <1>2
<1>4. \A x \in B : x \in Nat /\ x \in Unit /\ Ends(m, x) \in Nat /\ x < Ends(m, x)
  BY ChainIs, UnitIs
<1>5. \A x \in B : x # b => /\ r[x] \in HeaderRec /\ r[x].size = m[x].size
                            /\ r[x].next = m[x].next /\ r[x].free = m[x].free
  <2> SUFFICES ASSUME NEW x \in B, x # b
               PROVE /\ r[x] \in HeaderRec /\ r[x].size = m[x].size
                     /\ r[x].next = m[x].next /\ r[x].free = m[x].free
    OBVIOUS
  <2>1. CASE x = e
    <3>1. e # NUnits
      BY <1>2, <1>4, <2>1, UnitIs
    <3> QED BY <1>1, <2>1, <3>1
  <2>2. CASE x # e
    <3>1. r[x] = m[x] /\ m[x] \in HeaderRec
      BY <1>1, <1>4, <2>2, ChainIs
    <3> QED BY <3>1
  <2> QED BY <2>1, <2>2
<1>6. \A x \in B : x # b /\ x # e => r[x].prev = m[x].prev
  BY <1>1, <1>4
<1>7. Ends(r, b) = e /\ r[b].size >= m[b].size
  BY <1>1, <1>2, <1>3 DEF Ends
<1>8. \A x \in B : x # b => Ends(r, x) = Ends(m, x)
  BY <1>5 DEF Ends
<1>9. b \in C /\ l \notin C /\ (e # NUnits => e \in C)
  BY <1>2, <1>3, <1>4
<1>10. ASSUME NEW x \in C PROVE Links(r, C, x)
  <2>1. x \in B /\ Links(m, B, x) /\ (x <= b \/ l < x) /\ x \in Nat
    BY <1>4 DEF Chain
  <2>2. CASE x = b
    <3>1. b # 0 => /\ m[b].prev \in B /\ Ends(m, m[b].prev) = b /\ m[b].prev < b
                   /\ m[b].prev \in Nat
      BY Neighbours, ChainIs
    <3>2. b # 0 => m[b].prev \in C /\ m[b].prev # b /\ Ends(r, m[b].prev) = b
      BY <1>2, <1>8, <3>1
    <3>3. r[b].size >= 1
      BY <1>1, <1>2
    <3>4. Ends(r, b) # NUnits => Ends(r, b) \in C /\ r[Ends(r, b)].prev = b
      BY <1>1, <1>7, <1>9
    <3>5. b = 0 => r[b].prev = NULL
      BY <1>1, Neighbours
    <3> QED BY <1>1, <1>2, <1>3, <1>7, <2>2, <3>2, <3>3, <3>4, <3>5 DEF Links
  <2>3. CASE x # b
    <3>1. Ends(r, x) = Ends(m, x) /\ r[x] \in HeaderRec /\ r[x].size = m[x].size /\ r[x].next = m[x].next
      BY <1>5, <1>8, <2>1, <2>3
    <3>2. Ends(m, x) # NUnits => Ends(m, x) \in C /\ r[Ends(m, x)].prev = x
      <4> SUFFICES ASSUME Ends(m, x) # NUnits
                   PROVE Ends(m, x) \in C /\ r[Ends(m, x)].prev = x
        OBVIOUS
      <4> DEFINE y == Ends(m, x)
      <4>1. y \in B /\ m[y].prev = x /\ y \in Nat /\ x < y /\ (x < b => y <= b)
        BY <1>2, <1>4, <2>1, Neighbours
      <4>2. y \in C
        BY <1>2, <2>1, <2>3, <4>1
      <4>3. y # e
        <5> SUFFICES ASSUME y = e PROVE FALSE
          OBVIOUS
        <5>1. e # NUnits /\ m[e].prev = l
          BY Neighbours
        <5> QED BY <1>9, <4>1, <5>1
      <4>4. CASE y = b
        BY <1>1, <4>1, <4>2, <4>4
      <4>5. CASE y # b
        <5>1. r[y].prev = m[y].prev
          <6> HIDE DEF y, e
          <6> QED BY <1>6, <4>1, <4>3, <4>5
        <5> QED BY <4>1, <4>2, <5>1
      <4> QED BY <4>2, <4>4, <4>5
    <3>3. x = 0 => r[x].prev = NULL
      <4> SUFFICES ASSUME x = 0 PROVE r[x].prev = NULL
        OBVIOUS
      <4>1. x # e
        BY <1>2
      <4> QED BY <1>6, <2>1, <2>3, <4>1 DEF Links
    <3>4. x # 0 => r[x].prev \in C /\ Ends(r, r[x].prev) = x
      <4> SUFFICES ASSUME x # 0 PROVE r[x].prev \in C /\ Ends(r, r[x].prev) = x
        OBVIOUS
      <4>1. CASE x = e
        <5>1. e # NUnits
          BY <1>2, <1>4, <2>1, <4>1, UnitIs
        <5> QED BY <1>1, <1>7, <1>9, <4>1, <5>1
      <4>2. CASE x # e
        <5> DEFINE p == m[x].prev
        <5>1. r[x].prev = p /\ p \in B /\ Ends(m, p) = x /\ p < x /\ p \in Nat
          <6>1. r[x].prev = p
            <7> HIDE DEF e
            <7> QED BY <1>6, <2>1, <2>3, <4>2
          <6>2. p \in B /\ Ends(m, p) = x /\ p < x
            BY <2>1, Neighbours
          <6> QED BY <1>4, <6>1, <6>2
        <5>2. p # b
          <6> SUFFICES ASSUME p = b PROVE FALSE
            OBVIOUS
          <6>1. x = Ends(m, b) /\ x > b
            BY <5>1
          <6> QED BY <1>2, <1>3, <2>1, <6>1
        <5>3. p \in C
          <6>1. CASE x <= b
            BY <1>2, <2>1, <5>1, <6>1
          <6>2. CASE l < x
            <7>1. ~(b < p /\ p <= l)
              <8> SUFFICES ASSUME b < p, p <= l PROVE FALSE
                OBVIOUS
              <8>1. p # l
                BY <4>2, <5>1
              <8>2. Ends(m, p) <= l
                BY <1>2, <5>1, <8>1, Neighbours
              <8> QED BY <1>2, <2>1, <5>1, <6>2, <8>2
            <7> QED BY <1>2, <5>1, <7>1
          <6> QED BY <2>1, <6>1, <6>2
        <5> QED BY <1>8, <5>1, <5>2, <5>3
      <4> QED BY <4>1, <4>2
    <3> QED BY <2>1, <3>1, <3>2, <3>3, <3>4 DEF Links
  <2> QED BY <2>2, <2>3
<1>11. Chain(r, C)
  <2>1. C \in SUBSET Unit /\ 0 \in C
    <3>1. 0 \in B /\ 0 <= b
      BY <1>2 DEF Chain
    <3> QED BY <1>4, <3>1
  <2>2. ASSUME NEW x \in C, NEW y \in C, x < y PROVE Ends(r, x) <= y
    <3>1. CASE x = b
      BY <1>2, <1>3, <1>4, <1>7, <2>2, <3>1
    <3>2. CASE x # b
      BY <1>4, <1>8, <2>2, <3>2, Neighbours
    <3> QED BY <3>1, <3>2
  <2> HIDE DEF C
  <2> QED BY <1>1, <1>10, <2>1, <2>2 DEF Chain
<1>12. \A x \in C : r[x].free = m[x].free
  BY <1>1, <1>5
<1>13. OldFree(r, C)
  <2> SUFFICES ASSUME NEW u \in Unit, r[u].kind = "hdr", ~r[u].free PROVE u \in C
    BY DEF OldFree
  <2>1. CASE u = b
    BY <1>9, <2>1
  <2>2. CASE u = e
    <3>1. e # NUnits
      BY <1>2, <2>2, UnitIs
    <3> QED BY <1>9, <2>2, <3>1
  <2>3. CASE u # b /\ u # e
    <3>1. u \in B /\ ~m[u].free
      BY <1>1, <2>3 DEF OldFree
    <3>2. ~(b < u /\ u <= l)
      BY <3>1
    <3> QED BY <1>2, <1>4, <3>1, <3>2
  <2> QED BY <2>1, <2>2, <2>3
<1>14. Carry(m, B, r, C, {}, {})
  <2>1. ASSUME NEW x \in Used(m, B) PROVE x \in Used(r, C) /\ r[x].size >= m[x].size
    <3>1. x \in B /\ ~m[x].free
      BY DEF Used
    <3>2. x \in C
      <4>1. ~(b < x /\ x <= l)
        BY <3>1
      <4> QED BY <1>2, <1>4, <3>1, <4>1
    <3>3. r[x].size >= m[x].size
      BY <1>2, <1>5, <1>7, <3>1, ChainIs
    <3> QED BY <1>12, <3>1, <3>2, <3>3 DEF Used
  <2>2. ASSUME NEW x \in Used(m, B), NEW u \in Unit, x < u, u < Ends(m, x)
        PROVE r[u] = m[u]
    <3>1. x \in B /\ u \in Int
      BY UnitIs DEF Used
    <3>2. u \notin B
      BY <2>2, <3>1, ChainIs
    <3>3. u # b /\ (u # e)
      <4>1. u < NUnits
        BY UnitIs
      <4> QED BY <1>2, <1>3, <3>2, <4>1
    <3> QED BY <1>1, <3>3
  <2>3. Used(r, C) \subseteq Used(m, B)
    BY <1>12 DEF Used
  <2> QED BY <2>1, <2>2, <2>3 DEF Carry
<1>15. \A u \in Unit : u \notin B => r[u] = m[u]
  <2> SUFFICES ASSUME NEW u \in Unit, u \notin B PROVE r[u] = m[u]
    OBVIOUS
  <2>1. u # b /\ u # e
    BY <1>2, <1>3, UnitIs
  <2> QED BY <1>1, <2>1
<1>16. \A x \in C : x # b => Ends(r, x) = Ends(m, x)
  BY <1>8
<1> QED
  <2> HIDE DEF C, e
  <2> QED BY <1>7, <1>11, <1>12, <1>13, <1>14, <1>15, <1>16 DEF r, C, e

(* One step of the walks of coalesce.                                      *)
LEMMA StepIs ==
  ASSUME NEW m, NEW B, Chain(m, B), NEW x \in B
  PROVE  /\ Onward(m, x) = IF Ends(m, x) # NUnits /\ m[Ends(m, x)].free THEN Ends(m, x) ELSE x
         /\ Back(m, x) = IF x # 0 /\ m[m[x].prev].free THEN m[x].prev ELSE x
         /\ Onward(m, x) \in B /\ Back(m, x) \in B
<1>1. Onward(m, x) = IF Ends(m, x) # NUnits /\ m[Ends(m, x)].free THEN Ends(m, x) ELSE x
  <2> DEFINE n == Ends(m, x)
  <2>1. CASE n = NUnits
    <3>1. m[x].next = NULL
      BY <2>1, Neighbours
    <3> QED BY <2>1, <3>1, UnitIs DEF Onward, IsHeader
  <2>2. CASE n # NUnits
    <3>1. m[x].next = n /\ n \in B
      BY <2>2, Neighbours
    <3>2. IsHeader(m, n) /\ n + Hdr + m[n].size <= NUnits
      <4> HIDE DEF n
      <4>1. IsHeader(m, n) /\ Ends(m, n) = n + Hdr + m[n].size /\ Ends(m, n) <= NUnits
        BY <3>1, ChainIs
      <4> QED BY <4>1
    <3> HIDE DEF n
    <3>3. Onward(m, x) = IF m[n].free THEN n ELSE x
      BY <3>1, <3>2 DEF Onward
    <3> QED BY <2>2, <3>3 DEF n
  <2> QED BY <2>1, <2>2
<1>2. Back(m, x) = IF x # 0 /\ m[m[x].prev].free THEN m[x].prev ELSE x
  <2>1. CASE x = 0
    <3>1. m[x].prev = NULL
      BY <2>1, Neighbours
    <3> QED BY <2>1, <3>1, UnitIs DEF Back, IsHeader
  <2>2. CASE x # 0
    <3>1. IsHeader(m, m[x].prev)
      <4>1. m[x].prev \in B
        BY <2>2, Neighbours
      <4> QED BY <4>1, ChainIs
    <3> QED BY <2>2, <3>1 DEF Back
  <2> QED BY <2>1, <2>2
<1>3. (Ends(m, x) # NUnits => Ends(m, x) \in B) /\ (x # 0 => m[x].prev \in B)
  BY Neighbours
<1> QED BY <1>1, <1>2, <1>3

(* A freed block's run starts at it or at the block in front of it.        *)
LEMMA RunStartIs ==
  ASSUME NEW m, NEW B, Chain(m, B), NEW h \in B, Tidy(m, B, h), m[h].free
  PROVE  LET b == FreeRunStart(m, h) IN
         /\ b \in B /\ b <= h /\ m[b].free /\ (b = h \/ Ends(m, b) = h)
         /\ b # 0 => ~m[m[b].prev].free
<1> DEFINE b == Back(m, h)
<1>1. b = (IF h # 0 /\ m[m[h].prev].free THEN m[h].prev ELSE h) /\ b \in B
  BY StepIs
<1>2. \A x \in B : x \in Nat
  BY ChainIs
<1>3. h # 0 => m[h].prev \in B /\ Ends(m, m[h].prev) = h /\ m[h].prev < h
  BY Neighbours
<1>4. b <= h /\ m[b].free /\ (b = h \/ Ends(m, b) = h)
  <2>1. h <= h
    BY <1>2
  <2>2. h # 0 => m[h].prev <= h
    BY <1>2, <1>3
  <2> QED BY <1>1, <1>3, <2>1, <2>2
<1> HIDE DEF b
<1>5. b # 0 => ~m[m[b].prev].free
  <2> SUFFICES ASSUME b # 0, m[m[b].prev].free PROVE FALSE
    OBVIOUS
  <2> DEFINE q == m[b].prev
  <2>1. q \in B /\ Ends(m, q) = b /\ q < b
    BY <1>1, Neighbours
  <2>2. b \in Unit /\ b # NUnits
    BY <1>1, <1>2, ChainIs
  <2>3. q = h \/ b = h
    <3> HIDE DEF q
    <3> QED BY <1>4, <2>1, <2>2 DEF Tidy, q
  <2>4. b = h
    BY <1>1, <1>2, <1>4, <2>1, <2>3
  <2> QED BY <1>1, <1>2, <1>3, <2>1, <2>4
<1>6. Back(m, b) = b
  BY <1>1, <1>5, StepIs
<1>7. \A x \in B : Back(m, x) \in B
  BY StepIs
<1>8. PICK w : /\ w[0] = h /\ \A i \in 1 .. NUnits : w[i] = Back(m, w[i-1])
               /\ FreeRunStart(m, h) = w[NUnits]
  BY <1>7, BackWalk
<1>9. NUnits \in Nat /\ NUnits >= 3 /\ 1 \in 0 .. NUnits /\ 1 \in 1 .. NUnits
  BY UnitIs
<1>10. w[1] = b
  BY <1>8, <1>9 DEF b
<1>11. \A i \in (1 + 1) .. NUnits : w[i-1] = w[1] => w[i] = w[1]
  <2> SUFFICES ASSUME NEW i \in 2 .. NUnits, w[i-1] = w[1] PROVE w[i] = w[1]
    OBVIOUS
  <2>1. i \in 1 .. NUnits
    BY <1>9
  <2> QED BY <1>6, <1>8, <1>10, <2>1
<1>12. w[NUnits] = w[1]
  <2>1. \A i \in 1 .. NUnits : w[i] = w[1]
    BY <1>9, <1>11, Settles
  <2> QED BY <1>9, <2>1
<1> QED BY <1>1, <1>4, <1>5, <1>8, <1>10, <1>12

(* The last block of the run that starts at b.                             *)
LEMMA LastOfRunIs ==
  ASSUME NEW m, NEW B, Chain(m, B), NEW h \in B, Tidy(m, B, h), NEW b \in B,
         b = h \/ (Ends(m, b) = h /\ m[h].free)
  PROVE  LET l == LastOfRun(m, b) IN
         /\ l \in B /\ b <= l /\ h <= l
         /\ Ends(m, l) # NUnits => ~m[Ends(m, l)].free
         /\ \A x \in B : b < x /\ x <= l => m[x].free
<1> DEFINE l == Onward(m, h)
           n == Ends(m, h)
<1>1. l = (IF n # NUnits /\ m[n].free THEN n ELSE h) /\ l \in B
  BY StepIs
<1>2. \A x \in B : x \in Nat /\ Ends(m, x) \in Nat /\ x < Ends(m, x) /\ x # NUnits
  BY ChainIs, UnitIs
<1>3. (n # NUnits => n \in B) /\ \A x \in B : x > h => n <= x
  BY Neighbours
<1>4. h <= l /\ b <= h
  <2>1. h <= l
    BY <1>1, <1>2
  <2>2. b <= h
    BY <1>2
  <2> QED BY <2>1, <2>2
<1>5. ASSUME NEW x \in B, h < x, x <= l PROVE m[x].free
  <2>1. n <= x /\ x \in Nat /\ n \in Nat /\ h \in Nat
    BY <1>2, <1>3, <1>5
  <2>2. l # h
    <3> HIDE DEF l
    <3> QED BY <1>5, <2>1
  <2>3. l = n /\ m[n].free
    BY <1>1, <2>2
  <2>4. x = n
    <3> HIDE DEF l, n
    <3> QED BY <1>5, <2>1, <2>3
  <2> QED BY <2>3, <2>4
<1>6. Ends(m, l) # NUnits => ~m[Ends(m, l)].free
  <2> SUFFICES ASSUME Ends(m, l) # NUnits, m[Ends(m, l)].free PROVE FALSE
    OBVIOUS
  <2>1. CASE l = h
    <3>1. n # NUnits /\ m[n].free
      BY <2>1
    <3>2. l = n /\ h < n
      BY <1>1, <1>2, <3>1
    <3>3. n # h
      <4> HIDE DEF n
      <4> QED BY <1>2, <3>1, <3>2, <1>3
    <3> QED BY <2>1, <3>2, <3>3
  <2>2. CASE l # h
    <3>1. l = n /\ m[l].free
      BY <1>1, <2>2
    <3>2. l = h \/ Ends(m, l) = h
      <4> HIDE DEF l
      <4> QED BY <1>1, <3>1 DEF Tidy
    <3>3. h < l /\ l < Ends(m, l)
      <4>1. h < n
        BY <1>2
      <4> HIDE DEF l, n
      <4> QED BY <1>1, <1>2, <3>1, <4>1
    <3> HIDE DEF l
    <3> QED BY <1>1, <1>2, <2>2, <3>2, <3>3
  <2> QED BY <2>1, <2>2
<1>7. Onward(m, l) = l
  <2> HIDE DEF l
  <2> QED BY <1>1, <1>6, StepIs
<1>8. Onward(m, b) = h \/ b = h
  BY <1>2, StepIs
<1> HIDE DEF l
<1>9. ASSUME NEW x \in B, b < x, x <= l PROVE m[x].free
  <2>1. CASE b = h
    BY <1>5, <1>9, <2>1
  <2>2. CASE b # h
    <3>1. h <= x
      BY <1>2, <1>9, <2>2, Neighbours
    <3>2. CASE x = h
      BY <2>2, <3>2
    <3>3. CASE x # h
      BY <1>2, <1>5, <1>9, <3>1, <3>3
    <3> QED BY <3>2, <3>3
  <2> QED BY <2>1, <2>2
<1>10. \A x \in B : Onward(m, x) \in B
  BY StepIs
<1>11. PICK w : /\ w[0] = b /\ \A i \in 1 .. NUnits : w[i] = Onward(m, w[i-1])
                /\ LastOfRun(m, b) = w[NUnits]
  BY <1>10, OnwardWalk
<1>12. NUnits \in Nat /\ NUnits >= 3 /\ 2 \in 0 .. NUnits /\ 1 \in 1 .. NUnits /\ 2 \in 1 .. NUnits
  BY UnitIs
<1>13. w[1] = Onward(m, b) /\ w[2] = Onward(m, w[1])
  BY <1>11, <1>12
<1>14. w[2] = l
  <2>1. CASE b = h
    BY <1>7, <1>13, <2>1 DEF l
  <2>2. CASE b # h
    BY <1>8, <1>13, <2>2 DEF l
  <2> QED BY <2>1, <2>2
<1>15. \A i \in (2 + 1) .. NUnits : w[i-1] = w[2] => w[i] = w[2]
  <2> SUFFICES ASSUME NEW i \in 3 .. NUnits, w[i-1] = w[2] PROVE w[i] = w[2]
    OBVIOUS
  <2>1. i \in 1 .. NUnits
    BY <1>12
  <2> QED BY <1>7, <1>11, <1>14, <2>1
<1>16. w[NUnits] = w[2]
  <2>1. \A i \in 2 .. NUnits : w[i] = w[2]
    BY <1>12, <1>15, Settles
  <2> QED BY <1>12, <2>1
<1>17. b <= l
  BY <1>1, <1>2, <1>4
<1> QED BY <1>1, <1>4, <1>6, <1>9, <1>11, <1>14, <1>16, <1>17

(* coalesce merges the run of free blocks that it finds around h.          *)
LEMMA CoalesceKeeps ==
  ASSUME NEW m, NEW B, Chain(m, B), OldFree(m, B), NEW h \in B, Tidy(m, B, h)
  PROVE  \E C : /\ Whole(Coalesce(m, h), C) /\ Carry(m, B, Coalesce(m, h), C, {}, {})
                /\ \A u \in Unit : u \notin B => Coalesce(m, h)[u] = m[u]
                /\ ~m[h].free =>
                     /\ h \in C /\ ~Coalesce(m, h)[h].free
                     /\ Ends(Coalesce(m, h), h) # NUnits =>
                          ~Coalesce(m, h)[Ends(Coalesce(m, h), h)].free
<1> DEFINE b == FreeRunStart(m, h)
           l == LastOfRun(m, b)
           r == Coalesce(m, h)
<1>1. /\ b \in B /\ b <= h /\ (b = h \/ (Ends(m, b) = h /\ m[h].free))
      /\ m[b].free => (b # 0 => ~m[m[b].prev].free)
      /\ ~m[h].free => b = h
      /\ m[b].free <=> m[h].free
  <2>1. CASE m[h].free
    BY <2>1, RunStartIs
  <2>2. CASE ~m[h].free
    <3>1. b = h /\ h \in Nat
      BY <2>2, ChainIs DEF FreeRunStart
    <3> HIDE DEF b
    <3> QED BY <2>2, <3>1
  <2> QED BY <2>1, <2>2
<1> HIDE DEF b
<1>2. /\ l \in B /\ b <= l /\ h <= l
      /\ Ends(m, l) # NUnits => ~m[Ends(m, l)].free
      /\ \A x \in B : b < x /\ x <= l => m[x].free
  BY <1>1, LastOfRunIs
<1>3. r = IF l = b THEN m ELSE Merged(m, b, l)
  BY DEF Coalesce, Merged, b
<1> HIDE DEF l, r
<1>4. \A x \in B : x \in Nat /\ Ends(m, x) \in Nat /\ x < Ends(m, x) /\ x # NUnits
  BY ChainIs, UnitIs
<1>5. CASE l = b
  <2>1. b = h /\ h = l
    BY <1>1, <1>2, <1>4, <1>5
  <2>2. Tidy(m, B, NULL)
    <3> SUFFICES ASSUME NEW x \in B, Ends(m, x) # NUnits, m[x].free, m[Ends(m, x)].free
                 PROVE FALSE
      BY DEF Tidy
    <3>1. x = h \/ Ends(m, x) = h
      BY DEF Tidy
    <3>2. x # h
      BY <1>2, <2>1
    <3>3. Ends(m, x) = h /\ h # 0
      BY <1>4, <3>1, <3>2
    <3>4. m[h].prev = x
      BY <3>3, Neighbours
    <3> QED BY <1>1, <2>1, <3>3, <3>4
  <2>3. Carry(m, B, m, B, {}, {})
    <3>1. \A x \in Used(m, B) : m[x].size >= m[x].size
      BY ChainIs DEF Used
    <3> QED BY <3>1 DEF Carry
  <2>4. r = m
    BY <1>3, <1>5
  <2>5. /\ Whole(r, B) /\ Carry(m, B, r, B, {}, {})
        /\ \A u \in Unit : u \notin B => r[u] = m[u]
        /\ ~m[h].free =>
             /\ h \in B /\ ~r[h].free
             /\ Ends(r, h) # NUnits => ~r[Ends(r, h)].free
    BY <1>2, <2>1, <2>2, <2>3, <2>4 DEF Whole
  <2> QED BY <2>5 DEF r
<1>6. CASE l # b
  <2>1. b < l
    BY <1>1, <1>2, <1>4, <1>6
  <2> DEFINE C == {x \in B : x <= b \/ l < x}
  <2>2. r = Merged(m, b, l)
    BY <1>3, <1>6
  <2>3. /\ Chain(r, C) /\ OldFree(r, C) /\ Carry(m, B, r, C, {}, {})
        /\ Ends(r, b) = Ends(m, l) /\ r[b].size >= m[b].size
        /\ \A x \in C : x # b => Ends(r, x) = Ends(m, x)
        /\ \A x \in C : r[x].free = m[x].free
        /\ \A u \in Unit : u \notin B => r[u] = m[u]
    BY <1>1, <1>2, <2>1, <2>2, MergeKeeps
  <2>4. b \in C /\ (Ends(m, l) # NUnits => Ends(m, l) \in C)
    <3>1. Ends(m, l) # NUnits => Ends(m, l) \in B
      BY <1>2, Neighbours
    <3>2. l < Ends(m, l) /\ b <= b
      BY <1>1, <1>2, <1>4
    <3> QED BY <1>1, <3>1, <3>2
  <2>5. Ends(r, b) # NUnits => ~r[Ends(r, b)].free
    BY <1>2, <2>3, <2>4
  <2>6. Tidy(r, C, NULL)
    <3> SUFFICES ASSUME NEW x \in C, Ends(r, x) # NUnits, r[x].free, r[Ends(r, x)].free
                 PROVE FALSE
      BY DEF Tidy
    <3> DEFINE y == Ends(r, x)
    <3>1. x # b
      BY <2>5
    <3>2. y = Ends(m, x) /\ x \in B /\ m[x].free
      BY <2>3, <3>1
    <3>3. y \in C /\ y \in B
      BY <2>3, Neighbours
    <3>4. m[y].free
      <4> HIDE DEF y
      <4> QED BY <2>3, <3>3 DEF y
    <3>5. x = h \/ y = h
      BY <3>2, <3>4 DEF Tidy
    <3>6. (x <= b \/ l < x) /\ (y <= b \/ l < y) /\ x \in Nat /\ y \in Nat
      BY <1>4, <3>2, <3>3
    <3>7. h \notin C \/ h = b
      BY <1>1, <1>2, <1>4
    <3>8. y = b /\ b # 0
      <4>1. y = b
        BY <3>1, <3>3, <3>5, <3>7
      <4>2. x < y
        BY <1>4, <3>2
      <4> QED BY <3>6, <4>1, <4>2
    <3>9. m[b].prev = x /\ m[b].free
      <4>1. x \in B /\ Ends(m, x) = b /\ b # NUnits
        BY <1>1, <1>4, <3>2, <3>8
      <4>2. m[Ends(m, x)].prev = x
        BY <4>1, Neighbours
      <4> HIDE DEF y
      <4> QED BY <3>4, <3>8, <4>1, <4>2
    <3> QED BY <1>1, <3>2, <3>8, <3>9
  <2>7. ~m[h].free => /\ h \in C /\ ~r[h].free
                      /\ Ends(r, h) # NUnits => ~r[Ends(r, h)].free
    BY <1>1, <2>3, <2>4, <2>5
  <2> HIDE DEF C
  <2> QED BY <2>3, <2>6, <2>7 DEF Whole, r
<1> QED BY <1>5, <1>6

(* Marking a block changes no link.                                        *)
Mark(m, h, f) == [m EXCEPT ![h].free = f]
Marked(m, B, h, f, r) ==
  /\ Chain(r, B) /\ \A b \in B : Ends(r, b) = Ends(m, b)
  /\ r[h].free = f /\ r[h].size = m[h].size
  /\ \A u \in Unit : u # h => r[u] = m[u]

LEMMA MarkIs ==
  ASSUME NEW m, NEW B, Chain(m, B), NEW h \in B, NEW f \in BOOLEAN
  PROVE  Marked(m, B, h, f, Mark(m, h, f))
<1> DEFINE x == [m[h] EXCEPT !.free = f]
           r == [m EXCEPT ![h] = x]
<1>1. h \in Unit /\ m[h] \in HeaderRec /\ m \in [Unit -> Cells]
  BY ChainIs DEF Chain
<1>2. x \in HeaderRec /\ x.free = f /\ x.size = m[h].size /\ x.next = m[h].next /\ x.prev = m[h].prev
  <2> HIDE DEF x
  <2> QED BY <1>1, FreeSet DEF x
<1> HIDE DEF x
<1>3. r \in [Unit -> Cells] /\ r[h] = x /\ \A u \in Unit : u # h => r[u] = m[u]
  BY <1>1, <1>2, CellIs
<1>4. \A b \in B : /\ r[b] \in HeaderRec /\ r[b].size = m[b].size
                   /\ r[b].next = m[b].next /\ r[b].prev = m[b].prev
  <2> HIDE DEF r
  <2> SUFFICES ASSUME NEW b \in B
               PROVE /\ r[b] \in HeaderRec /\ r[b].size = m[b].size
                     /\ r[b].next = m[b].next /\ r[b].prev = m[b].prev
    OBVIOUS
  <2>1. CASE b = h
    BY <1>2, <1>3, <2>1
  <2>2. CASE b # h
    BY <1>3, <2>2, ChainIs
  <2> QED BY <2>1, <2>2
<1>5. Chain(r, B) /\ \A b \in B : Ends(r, b) = Ends(m, b)
  <2> HIDE DEF r
  <2> QED BY <1>3, <1>4, ChainSame
<1>6. Mark(m, h, f) = r
  BY DEF x, Mark
<1> HIDE DEF r
<1> QED BY <1>2, <1>3, <1>5, <1>6 DEF Marked

(* What is carried twice is carried.                                       *)
LEMMA CarryTwice ==
  ASSUME NEW m, NEW B, NEW r, NEW C, NEW s, NEW D, NEW O, NEW I, NEW P, NEW J,
         Chain(m, B), Chain(r, C), Chain(s, D),
         Carry(m, B, r, C, O, I), Carry(r, C, s, D, P, J)
  PROVE  Carry(m, B, s, D, O \cup P, I \cup J)
<1>1. ASSUME NEW b \in Used(m, B) \ (O \cup P)
      PROVE  /\ b \in Used(s, D) /\ s[b].size >= m[b].size
             /\ \A u \in Unit : b < u /\ u < Ends(m, b) => s[u] = m[u]
  <2>1. /\ b \in Used(r, C) /\ r[b].size >= m[b].size
        /\ \A u \in Unit : b < u /\ u < Ends(m, b) => r[u] = m[u]
    BY DEF Carry
  <2>2. /\ b \in Used(s, D) /\ s[b].size >= r[b].size
        /\ \A u \in Unit : b < u /\ u < Ends(r, b) => s[u] = r[u]
    BY <2>1 DEF Carry
  <2>3. b \in B /\ b \in C /\ b \in D
    BY <2>1, <2>2 DEF Used
  <2>4. /\ m[b].size \in Nat /\ Ends(m, b) = b + Hdr + m[b].size /\ b \in Nat
        /\ Hdr \in Nat
    BY <2>3, ChainIs, UnitIs
  <2>5. r[b].size \in Nat /\ Ends(r, b) = b + Hdr + r[b].size
    BY <2>3, ChainIs
  <2>6. s[b].size \in Nat
    BY <2>3, ChainIs
  <2>7. Ends(m, b) <= Ends(r, b) /\ s[b].size >= m[b].size
    BY <2>1, <2>2, <2>4, <2>5, <2>6
  <2>8. ASSUME NEW u \in Unit, b < u, u < Ends(m, b) PROVE s[u] = m[u]
    <3>1. u \in Nat /\ Ends(m, b) \in Nat /\ Ends(r, b) \in Nat
      BY <2>4, <2>5, UnitIs
    <3>2. u < Ends(r, b)
      BY <2>7, <2>8, <3>1
    <3> QED BY <2>1, <2>2, <2>8, <3>2
  <2> QED BY <2>2, <2>7, <2>8
<1>2. Used(s, D) \subseteq (Used(m, B) \ (O \cup P)) \cup (I \cup J)
  BY DEF Carry
<1> QED BY <1>1, <1>2 DEF Carry

(* kfree of a block in use.                                                *)
LEMMA FreeKeeps ==
  ASSUME NEW m, NEW B, Whole(m, B), NEW h \in Used(m, B)
  PROVE  \E C : /\ Whole(FreeBlock(m, h), C) /\ Carry(m, B, FreeBlock(m, h), C, {h}, {})
                /\ \A u \in Unit : u \notin B => FreeBlock(m, h)[u] = m[u]
<1> DEFINE r == Mark(m, h, TRUE)
           s == Coalesce(r, h)
<1>1. h \in B /\ ~m[h].free /\ Chain(m, B) /\ Tidy(m, B, NULL) /\ OldFree(m, B)
  BY DEF Used, Whole
<1>2. /\ Chain(r, B) /\ \A b \in B : Ends(r, b) = Ends(m, b)
      /\ r[h].free = TRUE /\ r[h].size = m[h].size
      /\ \A u \in Unit : u # h => r[u] = m[u]
  <2>1. Marked(m, B, h, TRUE, r)
    BY <1>1, MarkIs
  <2> QED BY <2>1 DEF Marked
<1> HIDE DEF r
<1>3. \A b \in B : b \in Unit /\ b # NULL /\ (Ends(m, b) # NUnits => Ends(m, b) \in B)
  BY <1>1, ChainIs, Neighbours, UnitIs
<1>4. Tidy(r, B, h)
  <2> SUFFICES ASSUME NEW b \in B, Ends(r, b) # NUnits, r[b].free, r[Ends(r, b)].free,
                      b # h, Ends(r, b) # h
               PROVE FALSE
    BY DEF Tidy
  <2>1. Ends(m, b) # NUnits /\ Ends(m, b) \in B /\ Ends(m, b) # h /\ Ends(r, b) = Ends(m, b)
    BY <1>2, <1>3
  <2>2. m[b].free /\ m[Ends(m, b)].free
    BY <1>2, <1>3, <2>1
  <2>3. b = NULL \/ Ends(m, b) = NULL
    BY <1>1, <2>1, <2>2 DEF Tidy
  <2> QED BY <1>3, <2>1, <2>3
<1>5. OldFree(r, B)
  BY <1>1, <1>2 DEF OldFree
<1>6. Carry(m, B, r, B, {h}, {})
  <2>1. ASSUME NEW b \in Used(m, B) \ {h}
        PROVE  /\ b \in Used(r, B) /\ r[b].size >= m[b].size
               /\ \A u \in Unit : b < u /\ u < Ends(m, b) => r[u] = m[u]
    <3>1. b \in B /\ b # h /\ b \in Unit /\ r[b] = m[b] /\ m[b].size \in Nat
      BY <1>1, <1>2, ChainIs DEF Used
    <3>2. ASSUME NEW u \in Unit, b < u, u < Ends(m, b) PROVE r[u] = m[u]
      <4>1. u \in Int
        BY UnitIs
      <4>2. u # h
        BY <1>1, <3>1, <3>2, <4>1, ChainIs
      <4> QED BY <1>2, <4>2
    <3> QED BY <3>1, <3>2 DEF Used
  <2>2. Used(r, B) \subseteq Used(m, B) \ {h}
    BY <1>2, <1>3 DEF Used
  <2> QED BY <2>1, <2>2 DEF Carry
<1>7. PICK C : /\ Whole(s, C) /\ Carry(r, B, s, C, {}, {})
               /\ \A u \in Unit : u \notin B => s[u] = r[u]
  BY <1>1, <1>2, <1>4, <1>5, CoalesceKeeps
<1> HIDE DEF s
<1>8. Carry(m, B, s, C, {h}, {})
  <2>1. Chain(s, C)
    BY <1>7 DEF Whole
  <2>2. Carry(m, B, s, C, {h} \cup {}, {} \cup {})
    BY <1>1, <1>2, <1>6, <1>7, <2>1, CarryTwice
  <2> QED BY <2>2
<1>9. \A u \in Unit : u \notin B => s[u] = m[u]
  BY <1>1, <1>2, <1>7
<1>10. FreeBlock(m, h) = s
  BY DEF FreeBlock, Mark, r, s
<1> QED BY <1>7, <1>8, <1>9, <1>10

(* krealloc first lets the block in use at h grow over a free one behind.  *)
Grown(m, h) == IF IsHeader(m, m[h].next) /\ m[m[h].next].free THEN Coalesce(m, h) ELSE m

LEMMA GrowKeeps ==
  ASSUME NEW m, NEW B, Whole(m, B), NEW h \in Used(m, B)
  PROVE  \E C : /\ Whole(Grown(m, h), C) /\ Carry(m, B, Grown(m, h), C, {}, {})
                /\ h \in Used(Grown(m, h), C)
                /\ Ends(Grown(m, h), h) # NUnits => ~Grown(m, h)[Ends(Grown(m, h), h)].free
<1>1. h \in B /\ ~m[h].free /\ Chain(m, B) /\ Tidy(m, B, NULL) /\ OldFree(m, B)
  BY DEF Used, Whole
<1>2. CASE IsHeader(m, m[h].next) /\ m[m[h].next].free
  <2>1. Tidy(m, B, h)
    <3>1. \A b \in B : b # NULL /\ (Ends(m, b) # NUnits => Ends(m, b) # NULL)
      BY <1>1, ChainIs, UnitIs DEF NULL
    <3> QED BY <1>1, <3>1 DEF Tidy
  <2> DEFINE r == Coalesce(m, h)
  <2>2. PICK C : /\ Whole(r, C) /\ Carry(m, B, r, C, {}, {})
                 /\ h \in C /\ ~r[h].free
                 /\ Ends(r, h) # NUnits => ~r[Ends(r, h)].free
    BY <1>1, <2>1, CoalesceKeeps
  <2>3. Grown(m, h) = r
    BY <1>2 DEF Grown
  <2> HIDE DEF r
  <2> QED BY <2>2, <2>3 DEF Used
<1>3. CASE ~(IsHeader(m, m[h].next) /\ m[m[h].next].free)
  <2>1. Grown(m, h) = m
    BY <1>3 DEF Grown
  <2>2. Ends(m, h) # NUnits => ~m[Ends(m, h)].free
    <3> SUFFICES ASSUME Ends(m, h) # NUnits PROVE ~m[Ends(m, h)].free
      OBVIOUS
    <3>1. m[h].next = Ends(m, h) /\ Ends(m, h) \in B
      BY <1>1, Neighbours
    <3>2. IsHeader(m, Ends(m, h))
      BY <1>1, <3>1, ChainIs
    <3> QED BY <1>3, <3>1, <3>2
  <2>3. Carry(m, B, m, B, {}, {})
    <3>1. \A x \in Used(m, B) : m[x].size >= m[x].size
      BY <1>1, ChainIs DEF Used
    <3> QED BY <3>1 DEF Carry
  <2> QED BY <2>1, <2>2, <2>3
<1> QED BY <1>2, <1>3

(* split_block: what each unit holds when a remainder is cut off.          *)
LEMMA SplitIs ==
  ASSUME NEW m, NEW B, Chain(m, B), NEW b \in B, NEW want \in Nat, want >= 1,
         m[b].size - want > Hdr + 1
  PROVE  LET r == Split(m, b, want)
             nb == b + Hdr + want
             e == Ends(m, b)
         IN /\ r \in [Unit -> Cells] /\ nb \in Unit /\ nb < e
            /\ r[b] \in HeaderRec /\ r[b].size = want /\ r[b].next = nb
            /\ r[b].prev = m[b].prev /\ r[b].free = m[b].free
            /\ r[nb] \in HeaderRec /\ r[nb].size = e - (nb + Hdr) /\ r[nb].free = TRUE
            /\ r[nb].next = m[b].next /\ r[nb].prev = b
            /\ e # NUnits =>
                 /\ r[e] \in HeaderRec /\ r[e].prev = nb /\ r[e].size = m[e].size
                 /\ r[e].next = m[e].next /\ r[e].free = m[e].free
            /\ \A u \in Unit : u \notin {b, nb, e} => r[u] = m[u]
            /\ e - (nb + Hdr) > 1 /\ e - (nb + Hdr) \in Nat
<1> DEFINE nb == b + Hdr + want
           e == Ends(m, b)
           n == m[b].next
           s == m[b].size - want - Hdr
           m1 == LinkBack(m, n, nb)
           x == Header(s, TRUE, n, b)
           m2 == [m1 EXCEPT ![nb] = x]
           y == Header(want, m2[b].free, nb, m2[b].prev)
           r == [m2 EXCEPT ![b] = y]
<1>1. /\ b \in Unit /\ b \in Nat /\ m[b].size \in Nat /\ e \in Nat /\ e <= NUnits
      /\ e = b + Hdr + m[b].size /\ m[b] \in HeaderRec /\ Hdr \in Nat /\ Hdr >= 1 /\ NUnits \in Nat
  BY ChainIs, UnitIs
<1>2. /\ nb \in Nat /\ nb < e /\ b < nb /\ s \in Nat /\ s = e - (nb + Hdr) /\ s > 1
  BY <1>1
<1>3. nb \in Unit /\ nb # b /\ nb # e /\ b # e
  BY <1>1, <1>2, UnitIs
<1>4. /\ n = IF e = NUnits THEN NULL ELSE e
      /\ e # NUnits => e \in B
  BY Neighbours
<1>5. n \in Unit \cup {NULL} /\ m \in [Unit -> Cells]
  BY <1>4 DEF Chain
<1>6. e # NUnits => e \in Unit /\ m[e] \in HeaderRec /\ e # NULL
  BY <1>1, <1>4, ChainIs, UnitIs
<1> HIDE DEF e, nb, s
<1>7. /\ e # NUnits => m1 = [m EXCEPT ![e] = [m[e] EXCEPT !.prev = nb]]
      /\ e = NUnits => m1 = m
  <2>1. CASE e = NUnits
    BY <2>1, <1>4 DEF LinkBack
  <2>2. CASE e # NUnits
    BY <2>2, <1>4, <1>6 DEF LinkBack
  <2> QED BY <2>1, <2>2
<1>8. /\ m1 \in [Unit -> Cells] /\ \A u \in Unit : u # e => m1[u] = m[u]
      /\ e # NUnits => /\ m1[e] \in HeaderRec /\ m1[e].prev = nb /\ m1[e].size = m[e].size
                       /\ m1[e].next = m[e].next /\ m1[e].free = m[e].free
  <2>1. CASE e = NUnits
    BY <2>1, <1>5, <1>7
  <2>2. CASE e # NUnits
    <3> DEFINE z == [m[e] EXCEPT !.prev = nb]
    <3>1. /\ z \in HeaderRec /\ z.prev = nb /\ z.size = m[e].size
          /\ z.next = m[e].next /\ z.free = m[e].free
      <4> HIDE DEF z
      <4> QED BY <1>3, <1>6, <2>2, PrevSet DEF z
    <3>2. m1 = [m EXCEPT ![e] = z]
      BY <1>7, <2>2
    <3> HIDE DEF z, m1
    <3>3. m1[e] = z /\ m1 \in [Unit -> Cells] /\ \A u \in Unit : u # e => m1[u] = m[u]
      BY <1>5, <1>6, <2>2, <3>1, <3>2, CellIs
    <3> QED BY <3>1, <3>3
  <2> QED BY <2>1, <2>2
<1> HIDE DEF m1
<1>9. /\ x \in HeaderRec /\ x.size = s /\ x.free = TRUE /\ x.next = n /\ x.prev = b
  <2> HIDE DEF n
  <2> QED BY <1>1, <1>2, <1>5 DEF Header, HeaderRec
<1> HIDE DEF x
<1>10. /\ m2 \in [Unit -> Cells] /\ m2[nb] = x /\ \A u \in Unit : u # nb => m2[u] = m1[u]
  BY <1>3, <1>8, <1>9, CellIs
<1> HIDE DEF m2
<1>11. m2[b] = m[b]
  BY <1>1, <1>3, <1>8, <1>10
<1>12. /\ y \in HeaderRec /\ y.size = want /\ y.free = m[b].free /\ y.next = nb /\ y.prev = m[b].prev
  <2>1. m[b].free \in BOOLEAN /\ m[b].prev \in Unit \cup {NULL}
    BY <1>1 DEF HeaderRec
  <2>2. y = Header(want, m[b].free, nb, m[b].prev)
    BY <1>11
  <2> HIDE DEF y
  <2> QED BY <1>3, <2>1, <2>2 DEF Header, HeaderRec
<1> HIDE DEF y
<1>13. /\ r \in [Unit -> Cells] /\ r[b] = y /\ \A u \in Unit : u # b => r[u] = m2[u]
  BY <1>1, <1>10, <1>12, CellIs
<1> HIDE DEF r
<1>14. e # NUnits => r[e] = m1[e]
  BY <1>3, <1>6, <1>10, <1>13
<1>15. r[nb] = x
  BY <1>3, <1>10, <1>13
<1>16. \A u \in Unit : u \notin {b, nb, e} => r[u] = m[u]
  BY <1>8, <1>10, <1>13
<1>17. Split(m, b, want) = r
  <2>1. ~(m[b].size - want <= Hdr + 1)
    BY <1>1
  <2>2. m2[b] = m1[b]
    BY <1>1, <1>3, <1>10
  <2>3. Split(m, b, want) = [m1 EXCEPT ![nb] = x, ![b] = Header(want, @.free, nb, @.prev)]
    BY <2>1 DEF Split, x, m1, s, nb
  <2>4. [m1 EXCEPT ![nb] = x, ![b] = Header(want, @.free, nb, @.prev)] = r
    BY <1>1, <1>3, <1>8, <2>2 DEF r, y, m2
  <2> QED BY <2>3, <2>4
<1>18. /\ r[b] \in HeaderRec /\ r[b].size = want /\ r[b].next = nb
       /\ r[b].prev = m[b].prev /\ r[b].free = m[b].free
       /\ r[nb] \in HeaderRec /\ r[nb].size = e - (nb + Hdr) /\ r[nb].free = TRUE
       /\ r[nb].next = m[b].next /\ r[nb].prev = b
  BY <1>2, <1>9, <1>12, <1>13, <1>15
<1>19. e # NUnits =>
         /\ r[e] \in HeaderRec /\ r[e].prev = nb /\ r[e].size = m[e].size
         /\ r[e].next = m[e].next /\ r[e].free = m[e].free
  BY <1>8, <1>14
<1> QED BY <1>2, <1>3, <1>13, <1>16, <1>17, <1>18, <1>19 DEF e, nb

(* Cutting off a remainder keeps the list; the blocks are one more.        *)
Cut(m, B, b, want, r, nb, e) ==
  /\ Chain(r, B \cup {nb}) /\ nb \notin B
  /\ r[b].size = want /\ r[b].free = m[b].free /\ r[nb].free = TRUE
  /\ Ends(r, b) = nb /\ Ends(r, nb) = e
  /\ \A x \in B : x # b => /\ Ends(r, x) = Ends(m, x) /\ r[x].size = m[x].size
                           /\ r[x].free = m[x].free
  /\ \A u \in Unit : u \notin B \cup {nb} => r[u] = m[u]

LEMMA SplitChain ==
  ASSUME NEW m, NEW B, Chain(m, B), NEW b \in B, NEW want \in Nat, want >= 1,
         m[b].size - want > Hdr + 1
  PROVE  Cut(m, B, b, want, Split(m, b, want), b + Hdr + want, Ends(m, b))
<1> DEFINE r == Split(m, b, want)
           nb == b + Hdr + want
           e == Ends(m, b)
           C == B \cup {nb}
<1>1. /\ r \in [Unit -> Cells] /\ nb \in Unit /\ nb < e
      /\ r[b] \in HeaderRec /\ r[b].size = want /\ r[b].next = nb
      /\ r[b].prev = m[b].prev /\ r[b].free = m[b].free
      /\ r[nb] \in HeaderRec /\ r[nb].size = e - (nb + Hdr) /\ r[nb].free = TRUE
      /\ r[nb].next = m[b].next /\ r[nb].prev = b
      /\ e # NUnits =>
           /\ r[e] \in HeaderRec /\ r[e].prev = nb /\ r[e].size = m[e].size
           /\ r[e].next = m[e].next /\ r[e].free = m[e].free
      /\ \A u \in Unit : u \notin {b, nb, e} => r[u] = m[u]
      /\ e - (nb + Hdr) > 1 /\ e - (nb + Hdr) \in Nat
  BY SplitIs
<1> HIDE DEF r
<1>2. /\ b \in Unit /\ b \in Nat /\ e \in Nat /\ e <= NUnits /\ Hdr \in Nat /\ Hdr >= 1
      /\ NUnits \in Nat /\ nb \in Nat /\ b < nb /\ nb # NULL /\ nb # 0 /\ nb # NUnits
      /\ nb \notin B
  <2>1. /\ b \in Unit /\ b \in Nat /\ e \in Nat /\ e <= NUnits /\ Hdr \in Nat /\ Hdr >= 1
        /\ NUnits \in Nat
    BY ChainIs, UnitIs
  <2>2. nb \in Nat /\ b < nb /\ nb # NULL /\ nb # 0 /\ nb # NUnits
    BY <1>1, <2>1, UnitIs
  <2>3. nb \notin B
    BY <1>1, <2>1, <2>2, ChainIs
  <2> QED BY <2>1, <2>2, <2>3
<1>3. /\ m[b].next = IF e = NUnits THEN NULL ELSE e
      /\ e # NUnits => e \in B /\ m[e].prev = b
      /\ b = 0 => m[b].prev = NULL
      /\ b # 0 => m[b].prev \in B /\ Ends(m, m[b].prev) = b /\ m[b].prev < b
      /\ \A x \in B : x > b => e <= x
  BY Neighbours
<1>4. \A x \in B : /\ x \in Nat /\ x \in Unit /\ Ends(m, x) \in Nat /\ x < Ends(m, x)
                   /\ x # nb /\ m[x] \in HeaderRec
  BY <1>2, ChainIs, UnitIs
<1> HIDE DEF nb, e
<1>5. Ends(r, b) = nb /\ Ends(r, nb) = e
  <2>1. Ends(r, b) = nb
    BY <1>1 DEF Ends, nb
  <2>2. Ends(r, nb) = e
    BY <1>1, <1>2 DEF Ends
  <2> QED BY <2>1, <2>2
<1>6. \A x \in B : x # b => /\ r[x] \in HeaderRec /\ r[x].size = m[x].size
                            /\ r[x].next = m[x].next /\ r[x].free = m[x].free
  <2> SUFFICES ASSUME NEW x \in B, x # b
               PROVE /\ r[x] \in HeaderRec /\ r[x].size = m[x].size
                     /\ r[x].next = m[x].next /\ r[x].free = m[x].free
    OBVIOUS
  <2>1. CASE x = e
    <3>1. e # NUnits
      BY <1>2, <1>4, <2>1, UnitIs
    <3> QED BY <1>1, <2>1, <3>1
  <2>2. CASE x # e
    <3>1. r[x] = m[x] /\ m[x] \in HeaderRec
      BY <1>1, <1>4, <2>2
    <3> QED BY <3>1
  <2> QED BY <2>1, <2>2
<1>7. \A x \in B : x # b /\ x # e => r[x].prev = m[x].prev
  BY <1>1, <1>4
<1>8. \A x \in B : x # b => Ends(r, x) = Ends(m, x)
  BY <1>6 DEF Ends
<1>9. ASSUME NEW x \in C PROVE Links(r, C, x)
  <2>1. CASE x = nb
    <3>1. Ends(r, nb) # NUnits => Ends(r, nb) \in C /\ r[Ends(r, nb)].prev = nb
      BY <1>1, <1>3, <1>5
    <3>2. r[nb].size >= 1
      BY <1>1
    <3> QED BY <1>1, <1>2, <1>3, <1>5, <2>1, <3>1, <3>2 DEF Links
  <2>2. CASE x = b
    <3>1. b # 0 => m[b].prev \in C /\ m[b].prev # b /\ Ends(r, m[b].prev) = b
      BY <1>2, <1>3, <1>8
    <3>2. Ends(r, b) # NUnits => Ends(r, b) \in C /\ r[Ends(r, b)].prev = b
      BY <1>1, <1>5
    <3>3. Ends(r, b) <= NUnits
      BY <1>1, <1>2, <1>5
    <3> QED BY <1>1, <1>2, <1>3, <1>5, <2>2, <3>1, <3>2, <3>3 DEF Links
  <2>3. CASE x # nb /\ x # b
    <3>0. x \in B /\ Links(m, B, x)
      BY <2>3 DEF Chain
    <3>1. Ends(r, x) = Ends(m, x) /\ r[x] \in HeaderRec /\ r[x].size = m[x].size /\ r[x].next = m[x].next
      BY <1>6, <1>8, <2>3, <3>0
    <3>2. Ends(m, x) # NUnits => Ends(m, x) \in C /\ r[Ends(m, x)].prev = x
      <4> SUFFICES ASSUME Ends(m, x) # NUnits
                   PROVE Ends(m, x) \in C /\ r[Ends(m, x)].prev = x
        OBVIOUS
      <4> DEFINE y == Ends(m, x)
      <4>1. y \in B /\ m[y].prev = x
        BY <3>0, Neighbours
      <4> HIDE DEF y
      <4>2. r[y].prev = x
        <5>1. CASE y = b
          BY <1>1, <4>1, <5>1
        <5>2. CASE y # b
          <6>1. y # e
            <7> SUFFICES ASSUME y = e PROVE FALSE
              OBVIOUS
            <7>1. e # NUnits
              BY <1>4, <4>1, UnitIs
            <7> QED BY <1>3, <2>3, <4>1, <7>1
          <6> QED BY <1>7, <4>1, <5>2, <6>1
        <5> QED BY <5>1, <5>2
      <4> QED BY <4>1, <4>2 DEF y
    <3>3. x = 0 => r[x].prev = NULL
      <4> SUFFICES ASSUME x = 0 PROVE r[x].prev = NULL
        OBVIOUS
      <4>1. x # e
        BY <1>1, <1>2
      <4> QED BY <1>7, <2>3, <3>0, <4>1 DEF Links
    <3>4. x # 0 => r[x].prev \in C /\ Ends(r, r[x].prev) = x
      <4> SUFFICES ASSUME x # 0 PROVE r[x].prev \in C /\ Ends(r, r[x].prev) = x
        OBVIOUS
      <4>1. CASE x = e
        <5>1. e # NUnits
          BY <1>4, <3>0, <4>1, UnitIs
        <5> QED BY <1>1, <1>5, <4>1, <5>1
      <4>2. CASE x # e
        <5> DEFINE p == m[x].prev
        <5>1. p \in B /\ Ends(m, p) = x
          BY <3>0, Neighbours
        <5>2. r[x].prev = p
          BY <1>7, <2>3, <3>0, <4>2
        <5>3. p # b
          BY <4>2, <5>1 DEF e
        <5> QED BY <1>8, <5>1, <5>2, <5>3
      <4> QED BY <4>1, <4>2
    <3> QED BY <3>0, <3>1, <3>2, <3>3, <3>4 DEF Links
  <2> QED BY <2>1, <2>2, <2>3
<1>10. ASSUME NEW x \in C, NEW y \in C, x < y PROVE Ends(r, x) <= y
  <2>1. CASE x = nb
    <3>1. y \in B /\ y > b
      BY <1>2, <1>4, <1>10, <2>1
    <3> QED BY <1>3, <1>5, <2>1, <3>1
  <2>2. CASE x = b
    <3>1. CASE y = nb
      BY <1>2, <1>5, <2>2, <3>1
    <3>2. CASE y # nb
      <4>1. y \in B /\ y > b /\ y \in Nat
        BY <1>2, <1>4, <1>10, <2>2, <3>2
      <4>2. e <= y
        BY <1>3, <4>1
      <4> QED BY <1>1, <1>2, <1>5, <2>2, <4>1, <4>2
    <3> QED BY <3>1, <3>2
  <2>3. CASE x # nb /\ x # b
    <3>1. x \in B /\ Ends(r, x) = Ends(m, x) /\ x \in Nat /\ Ends(m, x) \in Nat
      BY <1>4, <1>8, <2>3
    <3>2. CASE y = nb
      <4>1. x < b
        <5> SUFFICES ASSUME ~(x < b) PROVE FALSE
          OBVIOUS
        <5>1. x > b
          BY <1>2, <2>3, <3>1
        <5>2. e <= x
          BY <1>3, <3>1, <5>1
        <5> QED BY <1>1, <1>2, <1>10, <3>1, <3>2, <5>2
      <4>2. Ends(m, x) <= b
        BY <1>2, <3>1, <4>1, Neighbours
      <4> QED BY <1>2, <3>1, <3>2, <4>2
    <3>3. CASE y # nb
      BY <1>4, <1>10, <3>1, <3>3, Neighbours
    <3> QED BY <3>2, <3>3
  <2> QED BY <2>1, <2>2, <2>3
<1>11. Chain(r, C)
  <2>1. C \in SUBSET Unit /\ 0 \in C
    BY <1>1 DEF Chain
  <2> HIDE DEF C
  <2> QED BY <1>1, <1>9, <1>10, <2>1 DEF Chain
<1>12. ASSUME NEW u \in Unit, u \notin C PROVE r[u] = m[u]
  <2>1. u # b /\ u # nb /\ u # e
    BY <1>2, <1>3, <1>12, UnitIs
  <2> QED BY <1>1, <2>1
<1> QED
  <2> HIDE DEF C
  <2> QED BY <1>1, <1>2, <1>5, <1>6, <1>8, <1>11, <1>12 DEF C, r, nb, e, Cut

(* What may be taken: a free block, or one with none free behind it.       *)
NoneBehind(m, b) == Ends(m, b) # NUnits => ~m[Ends(m, b)].free
MayTake(m, b) == m[b].free \/ NoneBehind(m, b)

(* A block that is taken is in use, large enough, and the rest is as it    *)
(* was; what was cut off is free.                                          *)
LEMMA TakeKeeps ==
  ASSUME NEW m, NEW B, Whole(m, B), NEW b \in B, NEW want \in Nat, want >= 1,
         m[b].size >= want, MayTake(m, b)
  PROVE  \E C : /\ Whole(Take(m, b, want), C) /\ Carry(m, B, Take(m, b, want), C, {b}, {b})
                /\ b \in Used(Take(m, b, want), C) /\ Take(m, b, want)[b].size >= want
                /\ \A u \in Unit : u \notin C => Take(m, b, want)[u] = m[u]
<1> DEFINE r == Take(m, b, want)
<1>0. Chain(m, B) /\ Tidy(m, B, NULL) /\ OldFree(m, B)
  BY DEF Whole
<1>1. b \in Unit /\ m[b].size \in Nat /\ Hdr \in Nat /\ b # NULL
  BY <1>0, ChainIs, UnitIs
<1>2. \A x \in B : /\ x # NULL /\ x \in Unit /\ m[x].size \in Nat
                   /\ (Ends(m, x) # NUnits => Ends(m, x) \in B)
  BY <1>0, ChainIs, Neighbours, UnitIs
<1>3. \A x \in B : \A u \in Unit : x < u /\ u < Ends(m, x) => u \notin B
  <2>1. \A u \in Unit : u \in Int
    BY UnitIs
  <2> QED BY <1>0, <2>1, ChainIs
<1>4. \A x \in B : Ends(m, x) # NUnits => ~(m[x].free /\ m[Ends(m, x)].free)
  BY <1>0, <1>2 DEF Tidy
<1>5. CASE m[b].size - want <= Hdr + 1
  <2>1. r = Mark(m, b, FALSE)
    BY <1>5 DEF Take, Split, Mark
  <2>2. /\ Chain(r, B) /\ \A x \in B : Ends(r, x) = Ends(m, x)
        /\ r[b].free = FALSE /\ r[b].size = m[b].size
        /\ \A u \in Unit : u # b => r[u] = m[u]
    <3>1. Marked(m, B, b, FALSE, Mark(m, b, FALSE))
      BY <1>0, MarkIs
    <3> QED BY <2>1, <3>1 DEF Marked
  <2> HIDE DEF r
  <2>3. Tidy(r, B, NULL)
    <3> SUFFICES ASSUME NEW x \in B, Ends(r, x) # NUnits, r[x].free, r[Ends(r, x)].free
                 PROVE FALSE
      BY DEF Tidy
    <3>1. Ends(r, x) = Ends(m, x) /\ x # b /\ Ends(r, x) # b
      BY <2>2
    <3>2. m[x].free /\ m[Ends(m, x)].free /\ Ends(m, x) # NUnits
      BY <1>2, <2>2, <3>1
    <3> QED BY <1>4, <3>2
  <2>4. OldFree(r, B)
    BY <1>0, <2>2 DEF OldFree
  <2>5. Carry(m, B, r, B, {b}, {b})
    <3>1. \A x \in Used(m, B) \ {b} : r[x] = m[x] /\ m[x].size >= m[x].size /\ x \in Used(r, B)
      BY <1>2, <2>2 DEF Used
    <3>2. \A x \in B : \A u \in Unit : x < u /\ u < Ends(m, x) => r[u] = m[u]
      BY <1>3, <2>2
    <3>3. Used(r, B) \subseteq (Used(m, B) \ {b}) \cup {b}
      BY <1>2, <2>2 DEF Used
    <3> QED BY <3>1, <3>2, <3>3 DEF Carry, Used
  <2>6. \A u \in Unit : u \notin B => r[u] = m[u]
    BY <2>2
  <2>7. b \in Used(r, B) /\ r[b].size >= want
    BY <2>2 DEF Used
  <2> QED BY <2>2, <2>3, <2>4, <2>5, <2>6, <2>7 DEF Whole, r
<1>6. CASE m[b].size - want > Hdr + 1
  <2> DEFINE s == Split(m, b, want)
             nb == b + Hdr + want
             e == Ends(m, b)
             C == B \cup {nb}
  <2>1. /\ Chain(s, C) /\ nb \notin B
        /\ s[b].size = want /\ s[b].free = m[b].free /\ s[nb].free = TRUE
        /\ Ends(s, b) = nb /\ Ends(s, nb) = e
        /\ \A x \in B : x # b => /\ Ends(s, x) = Ends(m, x) /\ s[x].size = m[x].size
                                 /\ s[x].free = m[x].free
        /\ \A u \in Unit : u \notin C => s[u] = m[u]
    <3>1. Cut(m, B, b, want, s, nb, e)
      BY <1>0, <1>6, SplitChain
    <3> HIDE DEF r, s, nb, e
    <3> QED BY <3>1 DEF Cut
  <2>2. r = Mark(s, b, FALSE)
    BY DEF Take, Mark
  <2> HIDE DEF s, nb, e, r
  <2>3. /\ Chain(r, C) /\ \A x \in C : Ends(r, x) = Ends(s, x)
        /\ r[b].free = FALSE /\ r[b].size = s[b].size
        /\ \A u \in Unit : u # b => r[u] = s[u]
    <3> HIDE DEF C
    <3>1. b \in C
      BY DEF C
    <3>2. Marked(s, C, b, FALSE, Mark(s, b, FALSE))
      BY <2>1, <3>1, MarkIs
    <3> QED BY <2>2, <3>2 DEF Marked
  <2>4. nb \in Unit /\ nb # b /\ C \subseteq Unit /\ b \in C
    BY <2>1 DEF Chain
  <2>5. \A x \in B : x # b => /\ Ends(r, x) = Ends(m, x) /\ r[x].size = m[x].size
                              /\ r[x].free = m[x].free
    BY <1>2, <2>1, <2>3
  <2>6. Ends(r, nb) = e /\ r[nb].free = TRUE
    BY <2>1, <2>3, <2>4
  <2>7. Tidy(r, C, NULL)
    <3> SUFFICES ASSUME NEW x \in C, Ends(r, x) # NUnits, r[x].free, r[Ends(r, x)].free
                 PROVE FALSE
      BY DEF Tidy
    <3>1. CASE x = nb
      <4>1. e # NUnits /\ e \in B /\ r[e].free
        BY <1>2, <2>6, <3>1 DEF e
      <4>2. e # b
        BY <2>3, <4>1
      <4>3. m[e].free
        BY <2>5, <4>1, <4>2
      <4>4. ~m[b].free
        BY <1>4, <4>1, <4>3 DEF e
      <4> QED BY <4>1, <4>3, <4>4 DEF e, MayTake, NoneBehind
    <3>2. CASE x # nb
      <4>1. x \in B /\ x # b
        BY <2>3, <3>2
      <4>2. Ends(r, x) = Ends(m, x) /\ m[x].free
        BY <2>5, <4>1
      <4> DEFINE y == Ends(m, x)
      <4>3. y \in B /\ y # b /\ r[y].free
        BY <1>2, <2>3, <4>1, <4>2
      <4> HIDE DEF y
      <4>4. m[y].free
        BY <2>5, <4>3
      <4> QED BY <1>4, <4>1, <4>2, <4>4 DEF y
    <3> QED BY <3>1, <3>2
  <2>8. OldFree(r, C)
    <3> SUFFICES ASSUME NEW u \in Unit, r[u].kind = "hdr", ~r[u].free, u \notin C PROVE FALSE
      BY DEF OldFree
    <3>1. r[u] = m[u]
      BY <2>1, <2>3
    <3> QED BY <1>0, <3>1 DEF OldFree
  <2>9. \A u \in Unit : u \notin C => r[u] = m[u]
    BY <2>1, <2>3
  <2>10. Carry(m, B, r, C, {b}, {b})
    <3>1. ASSUME NEW x \in Used(m, B) \ {b}
          PROVE  /\ x \in Used(r, C) /\ r[x].size >= m[x].size
                 /\ \A u \in Unit : x < u /\ u < Ends(m, x) => r[u] = m[u]
      <4>1. x \in B /\ x # b /\ ~m[x].free
        BY DEF Used
      <4>2. x \in Used(r, C) /\ r[x].size = m[x].size /\ m[x].size \in Nat /\ Ends(r, x) = Ends(m, x) /\ x \in C
        BY <1>2, <2>5, <4>1 DEF Used
      <4>3. ASSUME NEW u \in Unit, x < u, u < Ends(m, x) PROVE r[u] = m[u]
        <5>1. u \in Int
          BY UnitIs
        <5>2. u \notin C
          <6> HIDE DEF C
          <6> QED BY <2>3, <4>2, <4>3, <5>1, ChainIs
        <5> QED BY <2>9, <5>2
      <4> QED BY <4>2, <4>3
    <3>2. Used(r, C) \subseteq (Used(m, B) \ {b}) \cup {b}
      BY <2>5, <2>6 DEF Used
    <3> QED BY <3>1, <3>2 DEF Carry
  <2>11. b \in Used(r, C) /\ r[b].size >= want
    BY <2>1, <2>3, <2>4 DEF Used
  <2> HIDE DEF C
  <2> QED BY <2>3, <2>7, <2>8, <2>9, <2>10, <2>11 DEF Whole, r
<1>7. m[b].size - want <= Hdr + 1 \/ m[b].size - want > Hdr + 1
  BY <1>1
<1> QED BY <1>5, <1>6, <1>7

-----------------------------------------------------------------------------
(* What the client c holds: a block in use, as large as it asked for, with *)
(* its data in it.                                                         *)
Holds(m, B, x, c) ==
  /\ x.ptr - Hdr \in Used(m, B) /\ x.want >= 1 /\ m[x.ptr - Hdr].size >= x.want
  /\ \A i \in 0 .. (x.want - 1) : m[x.ptr + i] = Data(c)
Keeps(m, B, hd) ==
  /\ hd \in [Clients -> [ptr : Int, want : Nat]]
  /\ \A c \in Clients : hd[c] # Free => Holds(m, B, hd[c], c)
  /\ \A c, d \in Clients : hd[c] # Free /\ hd[d] # Free /\ hd[c].ptr = hd[d].ptr => c = d
  /\ \A b \in Used(m, B) : \E c \in Clients : hd[c] # Free /\ hd[c].ptr = b + Hdr
OwnBlock(hd, c) == IF hd[c] = Free THEN {} ELSE {hd[c].ptr - Hdr}

(* c ends up with the w units at p, or with nothing; the others with what  *)
(* they had.                                                               *)
Put(hd, c, p, w) == [hd EXCEPT ![c] = [ptr |-> p, want |-> w]]
Hands(m, B, hd, c, r, C, p, w) ==
  /\ w = 0 => p = NULL /\ Carry(m, B, r, C, OwnBlock(hd, c), {})
  /\ w # 0 => /\ Carry(m, B, r, C, OwnBlock(hd, c), {p - Hdr}) /\ p - Hdr \in Used(r, C)
              /\ r[p - Hdr].size >= w /\ p - Hdr \notin Used(m, B) \ OwnBlock(hd, c)
Painted(r, t, c, p, w) ==
  /\ t \in [Unit -> Cells]
  /\ \A u \in Unit : p <= u /\ u < p + w => t[u] = Data(c)
  /\ \A u \in Unit : ~(p <= u /\ u < p + w) =>
                       t[u] = r[u] \/ (r[u] = Data(c) /\ t[u] = Junk)

LEMMA HoldKeeps ==
  ASSUME NEW m, NEW B, Chain(m, B), NEW hd, Keeps(m, B, hd), NEW c \in Clients,
         NEW r, NEW C, Whole(r, C), NEW p \in Int, NEW w \in Nat,
         Hands(m, B, hd, c, r, C, p, w), NEW t, Painted(r, t, c, p, w)
  PROVE  Whole(t, C) /\ Keeps(t, C, Put(hd, c, p, w))
<1> DEFINE O == OwnBlock(hd, c)
           x == [ptr |-> p, want |-> w]
           I == IF x = Free THEN {} ELSE {p - Hdr}
           hn == [hd EXCEPT ![c] = x]
<1>a. /\ t \in [Unit -> Cells]
      /\ \A u \in Unit : u \in p .. (p + w - 1) => t[u] = Data(c)
      /\ \A u \in Unit : u \notin p .. (p + w - 1) =>
                           t[u] = r[u] \/ (r[u] = Data(c) /\ t[u] = Junk)
  <2>1. \A u \in Unit : u \in p .. (p + w - 1) <=> p <= u /\ u < p + w
    BY UnitIs
  <2> QED BY <2>1 DEF Painted
<1>b. (x = Free /\ w = 0) \/ (x # Free /\ w # 0)
  <2>1. x = Free => w = 0
    BY DEF Free
  <2>2. w = 0 => x = Free
    BY DEF Free, Hands
  <2> QED BY <2>1, <2>2
<1>c. \/ x = Free /\ I = {}
      \/ /\ x # Free /\ I = {p - Hdr} /\ w >= 1 /\ p - Hdr \in Used(r, C)
         /\ r[p - Hdr].size >= w /\ p - Hdr \notin Used(m, B) \ OwnBlock(hd, c)
  <2>1. CASE x = Free
    BY <2>1
  <2>2. CASE x # Free
    <3>1. w # 0 /\ w >= 1 /\ I = {p - Hdr}
      BY <1>b, <2>2
    <3> HIDE DEF I, x
    <3> QED BY <2>2, <3>1 DEF Hands
  <2> QED BY <2>1, <2>2
<1>d. Carry(m, B, r, C, O, I)
  <2>1. CASE x = Free
    <3>1. w = 0 /\ I = {}
      BY <1>b, <2>1
    <3> HIDE DEF I, x
    <3> QED BY <3>1 DEF Hands
  <2>2. CASE x # Free
    <3>1. w # 0 /\ I = {p - Hdr}
      BY <1>b, <2>2
    <3> HIDE DEF I, x
    <3> QED BY <3>1 DEF Hands
  <2> QED BY <2>1, <2>2
<1>e. x.ptr = p /\ x.want = w /\ x \in [ptr : Int, want : Nat]
  OBVIOUS
<1> HIDE DEF I, x
<1>1. Chain(r, C) /\ Tidy(r, C, NULL) /\ OldFree(r, C)
  BY DEF Whole
<1>2. /\ hd \in [Clients -> [ptr : Int, want : Nat]]
      /\ \A d \in Clients : hd[d] # Free => Holds(m, B, hd[d], d)
      /\ \A d, e \in Clients : hd[d] # Free /\ hd[e] # Free /\ hd[d].ptr = hd[e].ptr => d = e
      /\ \A b \in Used(m, B) : \E d \in Clients : hd[d] # Free /\ hd[d].ptr = b + Hdr
  BY DEF Keeps
<1>3. x.ptr = p /\ x.want = w /\ x \in [ptr : Int, want : Nat]
  BY <1>e
<1>4. x = Free => p = NULL /\ w = 0
  BY <1>3 DEF Free
<1>5. \A u \in Unit : u \in Nat
  BY UnitIs
<1>6. Hdr \in Nat /\ Hdr >= 1 /\ NULL = -1
  BY UnitIs DEF NULL
(* the units of the new data are the payload of one block *)
<1>7. ASSUME NEW u \in Unit, u \in p .. (p + w - 1)
      PROVE  /\ x # Free /\ p - Hdr \in C /\ p - Hdr \in Nat /\ p - Hdr < u
             /\ u < Ends(r, p - Hdr) /\ u \notin C
  <2>1. x # Free
    <3> SUFFICES ASSUME x = Free PROVE FALSE
      OBVIOUS
    <3>1. p = -1 /\ w = 0
      BY <1>4, <1>6
    <3> QED BY <1>5, <1>7, <3>1
  <2>2. p - Hdr \in C /\ r[p - Hdr].size >= w
    BY <1>c, <2>1 DEF Used
  <2> DEFINE b == p - Hdr
  <2>3. /\ b \in Nat /\ Ends(r, b) = b + Hdr + r[b].size /\ r[b].size \in Nat
    <3> HIDE DEF b
    <3> QED BY <1>1, <2>2, ChainIs DEF b
  <2>4. b < u /\ u < Ends(r, b)
    BY <1>5, <1>6, <1>7, <2>2, <2>3
  <2>5. u \notin C
    <3> HIDE DEF b
    <3> QED BY <1>1, <1>5, <2>2, <2>4, ChainIs DEF b
  <2> QED BY <2>1, <2>2, <2>3, <2>4, <2>5
<1>8. ASSUME NEW u \in C PROVE t[u] = r[u] /\ u \in Unit /\ r[u] \in HeaderRec
  <2>1. u \in Unit /\ r[u] \in HeaderRec
    BY <1>1, ChainIs
  <2>2. u \notin p .. (p + w - 1)
    BY <1>7, <2>1
  <2>3. r[u] # Data(c)
    BY <2>1, CellIs
  <2> QED BY <1>a, <2>1, <2>2, <2>3
<1>9. Chain(t, C) /\ \A b \in C : Ends(t, b) = Ends(r, b)
  BY <1>1, <1>8, <1>a, ChainSame
<1>10. Tidy(t, C, NULL)
  <2> SUFFICES ASSUME NEW b \in C, Ends(t, b) # NUnits, t[b].free, t[Ends(t, b)].free
               PROVE b = NULL \/ Ends(t, b) = NULL
    BY DEF Tidy
  <2>1. Ends(t, b) = Ends(r, b) /\ Ends(r, b) \in C
    BY <1>1, <1>9, Neighbours
  <2>2. r[b].free /\ r[Ends(r, b)].free
    BY <1>8, <2>1
  <2> QED BY <1>1, <2>1, <2>2 DEF Tidy
<1>11. OldFree(t, C)
  <2> SUFFICES ASSUME NEW u \in Unit, t[u].kind = "hdr", ~t[u].free, u \notin C PROVE FALSE
    BY DEF OldFree
  <2>1. t[u] # Data(c) /\ t[u] # Junk
    BY CellIs
  <2>2. t[u] = r[u]
    BY <1>a, <2>1
  <2> QED BY <1>1, <2>2 DEF OldFree
<1>12. Used(t, C) = Used(r, C)
  BY <1>8 DEF Used
<1>13. hn \in [Clients -> [ptr : Int, want : Nat]] /\ hn[c] = x /\ \A d \in Clients : d # c => hn[d] = hd[d]
  BY <1>2, <1>3
<1> HIDE DEF hn
(* what the others hold was carried *)
<1>14. ASSUME NEW d \in Clients, d # c, hd[d] # Free
       PROVE  /\ hd[d].ptr - Hdr \in Used(m, B) \ O /\ hd[d].ptr \in Int
              /\ Holds(t, C, hd[d], d)
  <2> DEFINE q == hd[d].ptr
             k == q - Hdr
             v == hd[d].want
  <2>1. /\ q \in Int /\ v \in Nat /\ k \in Used(m, B) /\ v >= 1 /\ m[k].size >= v
        /\ \A i \in 0 .. (v - 1) : m[q + i] = Data(d)
    BY <1>2, <1>14 DEF Holds
  <2>2. k \notin O
    <3> SUFFICES ASSUME k \in O PROVE FALSE
      OBVIOUS
    <3>1. hd[c] # Free /\ k = hd[c].ptr - Hdr
      BY DEF OwnBlock
    <3>2. hd[c].ptr \in Int
      BY <1>2
    <3>3. hd[c].ptr = q
      BY <1>6, <2>1, <3>1, <3>2
    <3> QED BY <1>2, <1>14, <3>1, <3>3
  <2>3. /\ k \in Used(r, C) /\ r[k].size >= m[k].size
        /\ \A u \in Unit : k < u /\ u < Ends(m, k) => r[u] = m[u]
    BY <1>d, <2>1, <2>2 DEF Carry
  <2>4. k \in B /\ k \in C
    BY <2>1, <2>3 DEF Used
  <2> HIDE DEF k
  <2>5. /\ k \in Nat /\ m[k].size \in Nat /\ Ends(m, k) = k + Hdr + m[k].size
        /\ \A u \in Int : k < u /\ u < Ends(m, k) => u \in Unit
    BY <2>4, ChainIs
  <2>6. r[k].size \in Nat /\ Ends(r, k) = k + Hdr + r[k].size
    BY <1>1, <2>4, ChainIs
  <2>7. ASSUME NEW i \in 0 .. (v - 1) PROVE t[q + i] = Data(d)
    <3> DEFINE u == q + i
    <3>1. u \in Int /\ k < u /\ u < Ends(m, k)
      BY <1>6, <2>1, <2>5 DEF k
    <3>2. u \in Unit /\ r[u] = Data(d) /\ u < Ends(r, k) /\ u \in Nat
      <4>1. u \in Unit
        BY <2>5, <3>1
      <4>2. r[u] = Data(d)
        BY <2>1, <2>3, <3>1, <4>1
      <4>3. u < Ends(r, k)
        BY <1>6, <2>3, <2>5, <2>6, <3>1
      <4> QED BY <1>5, <4>1, <4>2, <4>3
    <3> HIDE DEF u
    <3>3. u \notin p .. (p + w - 1)
      <4> SUFFICES ASSUME u \in p .. (p + w - 1) PROVE FALSE
        OBVIOUS
      <4> DEFINE b == p - Hdr
      <4>1. x # Free /\ b \in C /\ b \in Nat /\ b < u /\ u < Ends(r, b)
        BY <1>7, <3>2
      <4>2. b # k
        BY <1>c, <2>1, <2>2, <4>1
      <4> HIDE DEF b
      <4>3. Ends(r, b) \in Nat /\ Ends(r, k) \in Nat
        BY <1>1, <2>4, <4>1, ChainIs
      <4>4. CASE b < k
        <5>1. Ends(r, b) <= k
          BY <1>1, <2>4, <2>5, <4>1, <4>4, Neighbours
        <5> QED BY <2>5, <3>1, <3>2, <4>1, <4>3, <5>1
      <4>5. CASE k < b
        <5>1. Ends(r, k) <= b
          BY <1>1, <2>4, <2>5, <4>1, <4>5, Neighbours
        <5> QED BY <3>2, <4>1, <4>3, <5>1
      <4> QED BY <2>5, <4>1, <4>2, <4>4, <4>5
    <3>4. r[u] # Data(c)
      BY <1>14, <3>2, CellIs
    <3>5. t[u] = r[u]
      BY <1>a, <3>2, <3>3, <3>4
    <3> QED BY <3>2, <3>5 DEF u
  <2>8. t[k].size >= v
    BY <1>8, <2>1, <2>3, <2>4, <2>5, <2>6
  <2> QED BY <1>12, <2>1, <2>2, <2>3, <2>7, <2>8 DEF Holds, k
<1>15. x # Free => Holds(t, C, x, c)
  <2> SUFFICES ASSUME x # Free PROVE Holds(t, C, x, c)
    OBVIOUS
  <2>1. w >= 1 /\ p - Hdr \in Used(r, C) /\ r[p - Hdr].size >= w /\ p - Hdr \in C
    BY <1>c DEF Used
  <2>2. ASSUME NEW i \in 0 .. (w - 1) PROVE t[p + i] = Data(c)
    <3> DEFINE b == p - Hdr
    <3>1. /\ b \in Nat /\ Ends(r, b) = b + Hdr + r[b].size /\ r[b].size \in Nat
          /\ \A u \in Int : b < u /\ u < Ends(r, b) => u \in Unit
      <4> HIDE DEF b
      <4> QED BY <1>1, <2>1, ChainIs DEF b
    <3>2. p + i \in Int /\ b < p + i /\ p + i < Ends(r, b) /\ p + i \in p .. (p + w - 1)
      BY <1>6, <2>1, <3>1
    <3> QED BY <1>a, <3>1, <3>2
  <2>3. t[p - Hdr].size >= w
    BY <1>8, <2>1
  <2> QED BY <1>3, <1>12, <2>1, <2>2, <2>3 DEF Holds
<1>16. \A d \in Clients : hn[d] # Free => Holds(t, C, hn[d], d)
  BY <1>13, <1>14, <1>15
<1>17. ASSUME NEW d \in Clients, d # c, hd[d] # Free, x # Free PROVE p # hd[d].ptr
  BY <1>14, <1>17, <1>c
<1>18. \A d, e \in Clients : hn[d] # Free /\ hn[e] # Free /\ hn[d].ptr = hn[e].ptr => d = e
  BY <1>2, <1>3, <1>13, <1>17
<1>19. ASSUME NEW b \in Used(t, C) PROVE \E d \in Clients : hn[d] # Free /\ hn[d].ptr = b + Hdr
  <2>1. b \in (Used(m, B) \ O) \cup I
    BY <1>12, <1>d DEF Carry
  <2>2. CASE b \in I
    <3>1. x # Free /\ b = p - Hdr
      BY <1>c, <2>2
    <3> QED BY <1>3, <1>6, <1>13, <3>1
  <2>3. CASE b \in Used(m, B) \ O
    <3>1. PICK d \in Clients : hd[d] # Free /\ hd[d].ptr = b + Hdr
      BY <1>2, <2>3
    <3>2. d # c
      <4> SUFFICES ASSUME d = c PROVE FALSE
        OBVIOUS
      <4>1. O = {hd[c].ptr - Hdr}
        BY <3>1 DEF OwnBlock
      <4>2. b \in Nat
        BY <2>3, ChainIs DEF Used
      <4>3. hd[c].ptr - Hdr = b
        BY <1>6, <3>1, <4>2
      <4> QED BY <2>3, <4>1, <4>3
    <3> QED BY <1>13, <3>1, <3>2
  <2> QED BY <2>1, <2>2, <2>3
<1> QED BY <1>9, <1>10, <1>11, <1>13, <1>16, <1>18, <1>19 DEF Whole, Keeps, hn, Put, x

(* What the client writes, and what it gives back.                         *)
LEMMA FillPaints ==
  ASSUME NEW r \in [Unit -> Cells], NEW c \in Clients, NEW p \in Int, NEW w \in Nat,
         NEW f \in Int, p <= f, \A u \in Unit : p <= u /\ u < f => r[u] = Data(c)
  PROVE  Painted(r, Fill(r, c, f, p + w), c, p, w)
<1> DEFINE t == Fill(r, c, f, p + w)
<1>1. \A u \in Unit : t[u] = IF f <= u /\ u < p + w THEN Data(c) ELSE r[u]
  <2>1. \A u \in Unit : u \in f .. ((p + w) - 1) <=> f <= u /\ u < p + w
    BY UnitIs
  <2> QED BY <2>1 DEF Fill
<1>2. t \in [Unit -> Cells]
  BY CellIs DEF Fill
<1> HIDE DEF t
<1>3. \A u \in Unit : u \in Nat
  BY UnitIs
<1>4. ASSUME NEW u \in Unit, p <= u, u < p + w PROVE t[u] = Data(c)
  BY <1>1, <1>3, <1>4
<1>5. ASSUME NEW u \in Unit, ~(p <= u /\ u < p + w) PROVE t[u] = r[u]
  BY <1>1, <1>3, <1>5
<1> QED BY <1>2, <1>4, <1>5 DEF Painted, t

LEMMA ForgetPaints ==
  ASSUME NEW r, NEW t, NEW c \in Clients, NEW p \in Int, NEW w \in Nat,
         Painted(r, t, c, p, w)
  PROVE  Painted(r, Forget(t, c, p, p + w), c, p, w)
<1> DEFINE s == Forget(t, c, p, p + w)
<1>1. \A u \in Unit : s[u] = IF t[u] = Data(c) /\ ~(p <= u /\ u < p + w) THEN Junk ELSE t[u]
  <2>1. \A u \in Unit : u \in p .. ((p + w) - 1) <=> p <= u /\ u < p + w
    BY UnitIs
  <2> QED BY <2>1 DEF Forget
<1>2. s \in [Unit -> Cells]
  BY CellIs DEF Forget, Painted
<1> HIDE DEF s
<1>3. ASSUME NEW u \in Unit, p <= u, u < p + w PROVE s[u] = Data(c)
  BY <1>1, <1>3 DEF Painted
<1>4. ASSUME NEW u \in Unit, ~(p <= u /\ u < p + w)
      PROVE  s[u] = r[u] \/ (r[u] = Data(c) /\ s[u] = Junk)
  <2>1. Junk # Data(c)
    BY DEF Junk, Data
  <2> QED BY <1>1, <1>4, <2>1 DEF Painted
<1> QED BY <1>2, <1>3, <1>4 DEF Painted, s

LEMMA ForgetAllPaints ==
  ASSUME NEW r \in [Unit -> Cells], NEW c \in Clients
  PROVE  Painted(r, Forget(r, c, 0, 0), c, NULL, 0)
<1> DEFINE s == Forget(r, c, 0, 0)
<1>1. \A u \in Unit : s[u] = IF r[u] = Data(c) THEN Junk ELSE r[u]
  <2>1. \A u : u \notin 0 .. (0 - 1)
    OBVIOUS
  <2> QED BY <2>1 DEF Forget
<1>2. s \in [Unit -> Cells]
  BY CellIs DEF Forget
<1>3. \A u \in Unit : ~(NULL <= u /\ u < NULL + 0)
  BY UnitIs DEF NULL
<1> QED BY <1>1, <1>2, <1>3 DEF Painted

(* The copy of krealloc stays inside the new block's payload.              *)
Copied(t, h, b, n) ==
  [u \in Unit |-> LET i == u - (b + Hdr) IN
     IF i \in 0 .. (n - 1) THEN t[h + Hdr + i] ELSE t[u]]

LEMMA CopyKeeps ==
  ASSUME NEW t, NEW C, Whole(t, C), NEW h \in Used(t, C), NEW b \in Used(t, C), h # b,
         NEW n \in Nat, n <= t[h].size, n <= t[b].size
  PROVE  LET q == Copied(t, h, b, n) IN
         /\ Whole(q, C) /\ Carry(t, C, q, C, {b}, {b})
         /\ h \in Used(q, C) /\ b \in Used(q, C) /\ q[b].size = t[b].size
         /\ \A i \in 0 .. (n - 1) : q[b + Hdr + i] = t[h + Hdr + i]
<1> DEFINE q == Copied(t, h, b, n)
<1>1. Chain(t, C) /\ Tidy(t, C, NULL) /\ OldFree(t, C) /\ h \in C /\ b \in C
  BY DEF Whole, Used
<1>2. /\ h \in Nat /\ Ends(t, h) = h + Hdr + t[h].size /\ t[h].size \in Nat
      /\ \A u \in Int : h < u /\ u < Ends(t, h) => u \in Unit /\ u \notin C
  BY <1>1, ChainIs
<1>3. /\ b \in Nat /\ Ends(t, b) = b + Hdr + t[b].size /\ t[b].size \in Nat
      /\ \A u \in Int : b < u /\ u < Ends(t, b) => u \in Unit /\ u \notin C
  BY <1>1, ChainIs
<1>4. Hdr \in Nat /\ Hdr >= 1 /\ (\A u \in Unit : u \in Nat) /\ t \in [Unit -> Cells]
  BY <1>1, UnitIs DEF Chain
<1>5. ASSUME NEW i \in 0 .. (n - 1)
      PROVE  /\ h + Hdr + i \in Unit /\ h + Hdr + i \notin C
             /\ b + Hdr + i \in Unit /\ b + Hdr + i \notin C
             /\ b < b + Hdr + i /\ b + Hdr + i < Ends(t, b)
  <2>1. h + Hdr + i \in Int /\ h < h + Hdr + i /\ h + Hdr + i < Ends(t, h)
    BY <1>2, <1>4
  <2>2. b + Hdr + i \in Int /\ b < b + Hdr + i /\ b + Hdr + i < Ends(t, b)
    BY <1>3, <1>4
  <2> QED BY <1>2, <1>3, <2>1, <2>2
<1>6. ASSUME NEW u \in Unit, u - (b + Hdr) \in 0 .. (n - 1)
      PROVE  /\ q[u] = t[h + Hdr + (u - (b + Hdr))] /\ q[u] \in Cells
             /\ ~(q[u].kind = "hdr" /\ ~q[u].free) /\ b < u /\ u < Ends(t, b)
  <2> DEFINE i == u - (b + Hdr)
  <2>1. q[u] = t[h + Hdr + i]
    BY <1>6 DEF Copied
  <2>2. b + Hdr + i = u
    BY <1>3, <1>4
  <2>3. h + Hdr + i \in Unit /\ h + Hdr + i \notin C /\ b < u /\ u < Ends(t, b)
    <3> HIDE DEF i
    <3> QED BY <1>5, <1>6, <2>2 DEF i
  <2> HIDE DEF i
  <2>4. ~(t[h + Hdr + i].kind = "hdr" /\ ~t[h + Hdr + i].free)
    BY <1>1, <2>3 DEF OldFree
  <2>5. t[h + Hdr + i] \in Cells
    BY <1>4, <2>3
  <2> QED BY <2>1, <2>3, <2>4, <2>5 DEF i
<1>7. ASSUME NEW u \in Unit, ~(u - (b + Hdr) \in 0 .. (n - 1)) PROVE q[u] = t[u]
  BY <1>7 DEF Copied
<1>8. q \in [Unit -> Cells]
  <2>1. \A u \in Unit : q[u] \in Cells
    BY <1>4, <1>6, <1>7
  <2>2. q = [u \in Unit |-> q[u]]
    BY DEF Copied
  <2> QED BY <2>1, <2>2
<1> HIDE DEF q
<1>9. \A x \in C : q[x] = t[x] /\ t[x] \in HeaderRec /\ x \in Unit
  <2> SUFFICES ASSUME NEW x \in C PROVE q[x] = t[x] /\ t[x] \in HeaderRec /\ x \in Unit
    OBVIOUS
  <2>1. x \in Unit /\ t[x] \in HeaderRec /\ x \in Int
    BY <1>1, <1>4, ChainIs
  <2>2. ~(b < x /\ x < Ends(t, b))
    BY <1>3, <2>1
  <2>3. ~(x - (b + Hdr) \in 0 .. (n - 1))
    BY <1>6, <2>1, <2>2
  <2> QED BY <1>7, <2>1, <2>3
<1>10. Chain(q, C) /\ \A x \in C : Ends(q, x) = Ends(t, x)
  BY <1>1, <1>8, <1>9, ChainSame
<1>11. Tidy(q, C, NULL)
  <2> SUFFICES ASSUME NEW x \in C, Ends(q, x) # NUnits, q[x].free, q[Ends(q, x)].free
               PROVE x = NULL \/ Ends(q, x) = NULL
    BY DEF Tidy
  <2>1. Ends(q, x) = Ends(t, x) /\ Ends(t, x) \in C
    BY <1>1, <1>10, Neighbours
  <2>2. t[x].free /\ t[Ends(t, x)].free
    BY <1>9, <2>1
  <2> QED BY <1>1, <2>1, <2>2 DEF Tidy
<1>12. OldFree(q, C)
  <2> SUFFICES ASSUME NEW u \in Unit, q[u].kind = "hdr", ~q[u].free PROVE u \in C
    BY DEF OldFree
  <2>1. q[u] = t[u]
    BY <1>6, <1>7
  <2> QED BY <1>1, <2>1 DEF OldFree
<1>13. Used(q, C) = Used(t, C)
  BY <1>9 DEF Used
<1>14. ASSUME NEW x \in C, x # b, NEW u \in Unit, x < u, u < Ends(t, x)
       PROVE  q[u] = t[u]
  <2>1. x \in Nat /\ Ends(t, x) \in Nat /\ u \in Nat /\ Ends(t, b) \in Nat
    BY <1>1, <1>4, ChainIs
  <2>2. ~(b < u /\ u < Ends(t, b))
    <3>1. CASE x < b
      <4>1. Ends(t, x) <= b
        BY <1>1, <1>3, <2>1, <3>1, Neighbours
      <4> QED BY <1>3, <1>14, <2>1, <4>1
    <3>2. CASE b < x
      <4>1. Ends(t, b) <= x
        BY <1>1, <1>3, <2>1, <3>2, Neighbours
      <4> QED BY <1>3, <1>14, <2>1, <4>1
    <3> QED BY <1>3, <1>14, <2>1, <3>1, <3>2
  <2>3. ~(u - (b + Hdr) \in 0 .. (n - 1))
    BY <1>6, <2>2
  <2> QED BY <1>7, <2>3
<1>15. Carry(t, C, q, C, {b}, {b})
  <2>1. \A x \in Used(t, C) \ {b} : x \in C /\ x # b /\ q[x].size >= t[x].size
    BY <1>1, <1>9, ChainIs DEF Used
  <2> QED BY <1>13, <1>14, <2>1 DEF Carry
<1>16. ASSUME NEW i \in 0 .. (n - 1) PROVE q[b + Hdr + i] = t[h + Hdr + i]
  <2>1. b + Hdr + i \in Unit
    BY <1>5
  <2>2. (b + Hdr + i) - (b + Hdr) = i
    BY <1>3, <1>4
  <2> QED BY <1>6, <2>1, <2>2
<1> QED BY <1>9, <1>10, <1>11, <1>12, <1>13, <1>15, <1>16, <1>1 DEF Whole, q

(* A block that was not in use need not be left out of what is carried.    *)
LEMMA CarryLess ==
  ASSUME NEW m, NEW B, NEW r, NEW C, NEW O, NEW P, NEW I, NEW J, Carry(m, B, r, C, O, I),
         Used(m, B) \cap O \subseteq P, P \subseteq O, I \subseteq J
  PROVE  Carry(m, B, r, C, P, J)
<1>1. Used(m, B) \ O = Used(m, B) \ P
  OBVIOUS
<1> QED BY <1>1 DEF Carry

-----------------------------------------------------------------------------
Sound(m, hd) == \E B : Whole(m, B) /\ Keeps(m, B, hd)
StaleGone == stale \in Int /\ (stale # NULL => \A c \in Clients : held[c].ptr # stale)
KHeapInv == Sound(mem, held) /\ StaleGone

(* A client's block in a sound heap.                                       *)
LEMMA HeldIs ==
  ASSUME NEW m, NEW B, Whole(m, B), NEW hd, Keeps(m, B, hd), NEW c \in Clients, hd[c] # Free
  PROVE  /\ hd[c].ptr \in Int /\ hd[c].want \in Nat /\ hd[c].want >= 1
         /\ hd[c].ptr - Hdr \in Used(m, B) /\ hd[c].ptr - Hdr \in B /\ ~m[hd[c].ptr - Hdr].free
         /\ IsHeader(m, hd[c].ptr - Hdr)
         /\ m[hd[c].ptr - Hdr].size \in Nat /\ m[hd[c].ptr - Hdr].size >= hd[c].want
         /\ hd[c].ptr - Hdr \in Nat /\ (hd[c].ptr - Hdr) + Hdr = hd[c].ptr /\ hd[c].ptr # NULL
         /\ OwnBlock(hd, c) = {hd[c].ptr - Hdr}
         /\ \A i \in 0 .. (hd[c].want - 1) : m[hd[c].ptr + i] = Data(c)
         /\ \A d \in Clients : d # c => hd[d].ptr # hd[c].ptr
<1> DEFINE h == hd[c].ptr - Hdr
<1>1. Holds(m, B, hd[c], c) /\ hd \in [Clients -> [ptr : Int, want : Nat]]
  BY DEF Keeps
<1>2. /\ hd[c].ptr \in Int /\ hd[c].want \in Nat /\ hd[c].want >= 1 /\ h \in Used(m, B)
      /\ m[h].size >= hd[c].want
      /\ \A i \in 0 .. (hd[c].want - 1) : m[hd[c].ptr + i] = Data(c)
  BY <1>1 DEF Holds
<1>3. h \in B /\ ~m[h].free
  BY <1>2 DEF Used
<1>4. IsHeader(m, h) /\ m[h].size \in Nat /\ h \in Nat
  <2> HIDE DEF h
  <2> QED BY <1>3, ChainIs DEF Whole
<1>5. h + Hdr = hd[c].ptr /\ hd[c].ptr # NULL
  BY <1>2, <1>4, UnitIs DEF NULL
<1>6. ASSUME NEW d \in Clients, d # c, hd[d].ptr = hd[c].ptr PROVE FALSE
  <2>1. hd[d] = Free
    BY <1>6 DEF Keeps
  <2> QED BY <1>5, <1>6, <2>1 DEF Free
<1> QED BY <1>2, <1>3, <1>4, <1>5, <1>6 DEF OwnBlock

LEMMA KmallocKeeps ==
  ASSUME KHeapInv, NEW c \in Clients, NEW w \in 1 .. MaxWant, Kmalloc(c, w)
  PROVE  KHeapInv'
<1> DEFINE b == FirstFit(mem, w)
           p == b + Hdr
           r == Take(mem, b, w)
<1>0. w \in Nat /\ w >= 1 /\ w # 0
  BY KHeapAssumption
<1>1. /\ held[c] = Free /\ b # NULL /\ mem' = Fill(r, c, p, p + w)
      /\ held' = Put(held, c, p, w) /\ stale' = IF stale = p THEN NULL ELSE stale
  BY DEF Kmalloc, Hold, Put
<1>2. PICK B : Whole(mem, B) /\ Keeps(mem, B, held)
  BY DEF KHeapInv, Sound
<1>3. b \in B /\ mem[b].free /\ mem[b].size >= w /\ Chain(mem, B)
  BY <1>0, <1>1, <1>2, FirstFitIs DEF Whole
<1> HIDE DEF b
<1>4. PICK C : /\ Whole(r, C) /\ Carry(mem, B, r, C, {b}, {b})
               /\ b \in Used(r, C) /\ r[b].size >= w
  BY <1>0, <1>2, <1>3, TakeKeeps DEF MayTake
<1> HIDE DEF r
<1>5. b \in Nat /\ Hdr \in Nat /\ Hdr >= 1
  BY <1>3, ChainIs, UnitIs
<1>6. p \in Int /\ p - Hdr = b /\ p # NULL
  BY <1>5 DEF NULL
<1> HIDE DEF p
<1>7. OwnBlock(held, c) = {} /\ b \notin Used(mem, B)
  BY <1>1, <1>3 DEF OwnBlock, Used
<1>8. Carry(mem, B, r, C, {}, {b})
  BY <1>4, <1>7, CarryLess
<1>9. Hands(mem, B, held, c, r, C, p, w)
  BY <1>0, <1>4, <1>6, <1>7, <1>8 DEF Hands
<1>10. Painted(r, mem', c, p, w)
  <2>1. r \in [Unit -> Cells] /\ p <= p /\ \A u \in Unit : ~(p <= u /\ u < p)
    <3>1. \A u \in Unit : u \in Nat
      BY UnitIs
    <3> QED BY <1>4, <1>6, <3>1 DEF Whole, Chain
  <2> QED BY <1>0, <1>1, <1>6, <2>1, FillPaints
<1>11. Whole(mem', C) /\ Keeps(mem', C, held')
  BY <1>0, <1>1, <1>2, <1>3, <1>4, <1>6, <1>9, <1>10, HoldKeeps
<1>12. StaleGone'
  <2>1. stale' \in Int
    BY <1>1 DEF KHeapInv, StaleGone, NULL
  <2>2. ASSUME stale' # NULL, NEW d \in Clients PROVE held'[d].ptr # stale'
    <3>0. stale' = stale /\ stale # p /\ stale # NULL
      BY <1>1, <2>2
    <3>1. held \in [Clients -> [ptr : Int, want : Nat]]
      BY <1>2 DEF Keeps
    <3>2. held'[d].ptr = IF d = c THEN p ELSE held[d].ptr
      BY <1>1, <3>1 DEF Put
    <3> QED BY <3>0, <3>2 DEF KHeapInv, StaleGone
  <2> QED BY <2>1, <2>2 DEF StaleGone
<1> QED BY <1>11, <1>12 DEF KHeapInv, Sound

LEMMA KfreeKeeps ==
  ASSUME KHeapInv, NEW c \in Clients, Kfree(c)
  PROVE  KHeapInv'
<1> DEFINE h == held[c].ptr - Hdr
           r == FreeBlock(mem, h)
<1>1. PICK B : Whole(mem, B) /\ Keeps(mem, B, held)
  BY DEF KHeapInv, Sound
<1>2. held[c] # Free
  BY DEF Kfree
<1>3. /\ held[c].ptr \in Int /\ h \in Used(mem, B) /\ IsHeader(mem, h) /\ ~mem[h].free
      /\ held[c].ptr # NULL /\ OwnBlock(held, c) = {h}
      /\ \A d \in Clients : d # c => held[d].ptr # held[c].ptr
  BY <1>1, <1>2, HeldIs
<1>4. /\ mem' = Forget(r, c, 0, 0) /\ held' = Put(held, c, NULL, 0)
      /\ stale' \in {stale, held[c].ptr}
  BY <1>3 DEF Kfree, Hold, Put
<1>5. PICK C : Whole(r, C) /\ Carry(mem, B, r, C, {h}, {})
  BY <1>1, <1>3, FreeKeeps
<1> HIDE DEF r, h
<1>6. Hands(mem, B, held, c, r, C, NULL, 0)
  BY <1>3, <1>5 DEF Hands
<1>7. Painted(r, mem', c, NULL, 0)
  <2>1. r \in [Unit -> Cells]
    BY <1>5 DEF Whole, Chain
  <2> QED BY <1>4, <2>1, ForgetAllPaints
<1>8. Whole(mem', C) /\ Keeps(mem', C, held')
  <2>1. Chain(mem, B) /\ NULL \in Int /\ 0 \in Nat
    BY <1>1 DEF Whole, NULL
  <2> QED BY <1>1, <1>4, <1>5, <1>6, <1>7, <2>1, HoldKeeps
<1>9. StaleGone'
  <2>1. stale' \in Int
    BY <1>3, <1>4 DEF KHeapInv, StaleGone
  <2>2. ASSUME stale' # NULL, NEW d \in Clients PROVE held'[d].ptr # stale'
    <3>1. held \in [Clients -> [ptr : Int, want : Nat]]
      BY <1>1 DEF Keeps
    <3>2. held'[d].ptr = IF d = c THEN NULL ELSE held[d].ptr
      BY <1>4, <3>1 DEF Put
    <3> QED BY <1>3, <1>4, <2>2, <3>2 DEF KHeapInv, StaleGone
  <2> QED BY <2>1, <2>2 DEF StaleGone
<1> QED BY <1>8, <1>9 DEF KHeapInv, Sound

(* A second kfree of the same pointer finds no block in use there.         *)
LEMMA KfreeAgainKeeps ==
  ASSUME KHeapInv, KfreeAgain
  PROVE  KHeapInv' /\ mem' = mem
<1> DEFINE h == stale - Hdr
<1>1. PICK B : Whole(mem, B) /\ Keeps(mem, B, held)
  BY DEF KHeapInv, Sound
<1>2. stale # NULL /\ stale \in Int /\ held' = held /\ stale' = stale
  BY DEF KfreeAgain, KHeapInv, StaleGone
<1>3. ~(IsHeader(mem, h) /\ ~mem[h].free)
  <2> SUFFICES ASSUME IsHeader(mem, h), ~mem[h].free PROVE FALSE
    OBVIOUS
  <2>1. h \in Used(mem, B)
    BY <1>1 DEF Whole, OldFree, IsHeader, Used
  <2>2. PICK d \in Clients : held[d].ptr = h + Hdr
    BY <1>1, <2>1 DEF Keeps
  <2>3. h + Hdr = stale
    BY <1>2, UnitIs
  <2> QED BY <1>2, <2>2, <2>3 DEF KHeapInv, StaleGone
<1>4. mem' = mem
  BY <1>3 DEF KfreeAgain
<1> QED BY <1>2, <1>4 DEF KHeapInv, Sound, StaleGone

(* krealloc moves no pointer that was freed before into use again.         *)
LEMMA StaleStays ==
  ASSUME StaleGone, NEW c \in Clients, NEW p, NEW w, held \in [Clients -> [ptr : Int, want : Nat]],
         held' = Put(held, c, p, w), p = held[c].ptr, stale' = stale
  PROVE  StaleGone'
<1>1. \A d \in Clients : held'[d].ptr = held[d].ptr
  BY DEF Put
<1> QED BY <1>1 DEF StaleGone

LEMMA KreallocStayKeeps ==
  ASSUME KHeapInv, NEW c \in Clients, NEW w \in 1 .. MaxWant, KreallocStay(c, w)
  PROVE  KHeapInv'
<1> DEFINE p == held[c].ptr
           h == p - Hdr
<1>0. w \in Nat /\ w >= 1 /\ w # 0
  BY KHeapAssumption
<1>1. PICK B : Whole(mem, B) /\ Keeps(mem, B, held)
  BY DEF KHeapInv, Sound
<1>2. /\ held[c] # Free /\ mem[h].size >= w /\ stale' = stale
      /\ mem' = Forget(Fill(mem, c, p, p + w), c, p, p + w)
      /\ held' = Put(held, c, p, w)
  BY DEF KreallocStay, Fits, Hold, Put
<1>3. p \in Int /\ h \in Used(mem, B) /\ OwnBlock(held, c) = {h} /\ Chain(mem, B)
  BY <1>1, <1>2, HeldIs DEF Whole
<1> HIDE DEF p
<1>4. Carry(mem, B, mem, B, {h}, {h})
  <2>1. \A x \in Used(mem, B) : mem[x].size >= mem[x].size
    BY <1>3, ChainIs DEF Used
  <2> QED BY <2>1 DEF Carry
<1>5. Hands(mem, B, held, c, mem, B, p, w)
  BY <1>0, <1>2, <1>3, <1>4 DEF Hands
<1>6. Painted(mem, mem', c, p, w)
  <2>1. mem \in [Unit -> Cells] /\ p <= p /\ \A u \in Unit : ~(p <= u /\ u < p)
    <3>1. \A u \in Unit : u \in Nat
      BY UnitIs
    <3> QED BY <1>3, <3>1 DEF Chain
  <2>2. Painted(mem, Fill(mem, c, p, p + w), c, p, w)
    BY <1>0, <1>3, <2>1, FillPaints
  <2> QED BY <1>0, <1>2, <1>3, <2>2, ForgetPaints
<1>7. Whole(mem', B) /\ Keeps(mem', B, held')
  BY <1>0, <1>1, <1>2, <1>3, <1>5, <1>6, HoldKeeps
<1>8. StaleGone'
  <2>1. held \in [Clients -> [ptr : Int, want : Nat]] /\ StaleGone
    BY <1>1 DEF Keeps, KHeapInv
  <2> QED BY <1>2, <2>1, StaleStays DEF p
<1> QED BY <1>7, <1>8 DEF KHeapInv, Sound

LEMMA KreallocGrowKeeps ==
  ASSUME KHeapInv, NEW c \in Clients, NEW w \in 1 .. MaxWant, KreallocGrow(c, w)
  PROVE  KHeapInv'
<1> DEFINE p == held[c].ptr
           h == p - Hdr
           v == held[c].want
           m == Grown(mem, h)
           r == Take(m, h, w)
<1>0. w \in Nat /\ w >= 1 /\ w # 0
  BY KHeapAssumption
<1>1. PICK B : Whole(mem, B) /\ Keeps(mem, B, held)
  BY DEF KHeapInv, Sound
<1>2. /\ held[c] # Free /\ ~(mem[h].size >= w) /\ m[h].size >= w /\ stale' = stale
      /\ mem' = Fill(r, c, p + v, p + w) /\ held' = Put(held, c, p, w)
  BY DEF KreallocGrow, Fits, GrowsInto, Grown, Hold, Put
<1>3. /\ p \in Int /\ h \in Used(mem, B) /\ OwnBlock(held, c) = {h} /\ Chain(mem, B)
      /\ v \in Nat /\ v >= 1 /\ mem[h].size \in Nat /\ mem[h].size >= v /\ h \in Nat
      /\ \A i \in 0 .. (v - 1) : mem[p + i] = Data(c)
  BY <1>1, <1>2, HeldIs DEF Whole
<1> HIDE DEF h
<1>4. PICK A : /\ Whole(m, A) /\ Carry(mem, B, m, A, {}, {}) /\ h \in Used(m, A)
               /\ NoneBehind(m, h)
  BY <1>1, <1>3, GrowKeeps DEF NoneBehind
<1> HIDE DEF m
<1>5. PICK C : /\ Whole(r, C) /\ Carry(m, A, r, C, {h}, {h})
               /\ h \in Used(r, C) /\ r[h].size >= w
               /\ \A u \in Unit : u \notin C => r[u] = m[u]
  <2>1. h \in A /\ MayTake(m, h)
    BY <1>4 DEF Used, MayTake
  <2> QED BY <1>0, <1>2, <1>4, <2>1, TakeKeeps
<1> HIDE DEF r
<1>6. Carry(mem, B, r, C, {h}, {h})
  <2>1. Chain(m, A) /\ Chain(r, C)
    BY <1>4, <1>5 DEF Whole
  <2>2. Carry(mem, B, r, C, {} \cup {h}, {} \cup {h})
    BY <1>3, <1>4, <1>5, <2>1, CarryTwice
  <2> QED BY <2>2
<1>7. Hands(mem, B, held, c, r, C, p, w)
  <2>1. p - Hdr = h
    BY DEF h
  <2> QED BY <1>0, <1>3, <1>5, <1>6, <2>1 DEF Hands
<1>8. ASSUME NEW u \in Unit, p <= u, u < p + v PROVE r[u] = Data(c)
  <2>0. u \in Nat /\ Hdr \in Nat /\ Hdr >= 1 /\ p = h + Hdr
    BY <1>3, UnitIs DEF h
  <2>1. h \in B /\ h \in C
    BY <1>3, <1>5 DEF Used
  <2>2. h < u /\ u < Ends(mem, h)
    BY <1>3, <1>8, <2>0 DEF Ends
  <2>3. m[u] = mem[u]
    <3>1. \A x \in Used(mem, B) \ {} : \A y \in Unit : x < y /\ y < Ends(mem, x) => m[y] = mem[y]
      BY <1>4 DEF Carry
    <3> QED BY <1>3, <2>2, <3>1
  <2>4. r[h].size \in Nat /\ Ends(r, h) = h + Hdr + r[h].size /\ Chain(r, C)
    BY <1>5, <2>1, ChainIs DEF Whole
  <2>5. u < Ends(r, h)
    BY <1>0, <1>2, <1>3, <1>5, <1>8, <2>0, <2>4
  <2>6. u \notin C
    BY <2>0, <2>1, <2>2, <2>4, <2>5, ChainIs
  <2>7. r[u] = mem[u]
    BY <1>5, <2>3, <2>6
  <2>8. u - p \in 0 .. (v - 1) /\ p + (u - p) = u
    BY <1>3, <1>8, <2>0
  <2>9. mem[p + (u - p)] = Data(c)
    BY <1>3, <2>8
  <2> QED BY <2>7, <2>8, <2>9
<1>9. Painted(r, mem', c, p, w)
  <2>1. r \in [Unit -> Cells] /\ p + v \in Int /\ p <= p + v
    BY <1>3, <1>5 DEF Whole, Chain
  <2> HIDE DEF p, v
  <2> QED BY <1>0, <1>2, <1>3, <1>8, <2>1, FillPaints
<1>10. Whole(mem', C) /\ Keeps(mem', C, held')
  <2> HIDE DEF p
  <2> QED BY <1>0, <1>1, <1>2, <1>3, <1>5, <1>7, <1>9, HoldKeeps
<1>11. StaleGone'
  <2>1. held \in [Clients -> [ptr : Int, want : Nat]] /\ StaleGone
    BY <1>1 DEF Keeps, KHeapInv
  <2> QED BY <1>2, <2>1, StaleStays
<1> QED BY <1>10, <1>11 DEF KHeapInv, Sound

LEMMA KreallocFailKeeps ==
  ASSUME KHeapInv, NEW c \in Clients, NEW w \in 1 .. MaxWant, KreallocFail(c, w)
  PROVE  KHeapInv'
<1> DEFINE p == held[c].ptr
           h == p - Hdr
           v == held[c].want
           m == Grown(mem, h)
<1>1. PICK B : Whole(mem, B) /\ Keeps(mem, B, held)
  BY DEF KHeapInv, Sound
<1>2. /\ held[c] # Free /\ mem' = m /\ held' = held /\ stale' = stale
  BY DEF KreallocFail, GrowsInto, Grown
<1>3. /\ p \in Int /\ h \in Used(mem, B) /\ OwnBlock(held, c) = {h} /\ Chain(mem, B)
      /\ v \in Nat /\ v >= 1 /\ mem[h].size \in Nat /\ mem[h].size >= v /\ h \in Nat
      /\ \A i \in 0 .. (v - 1) : mem[p + i] = Data(c)
  BY <1>1, <1>2, HeldIs DEF Whole
<1> HIDE DEF h
<1>4. PICK A : /\ Whole(m, A) /\ Carry(mem, B, m, A, {}, {}) /\ h \in Used(m, A)
  BY <1>1, <1>3, GrowKeeps
<1> HIDE DEF m
<1>5. /\ m[h].size >= mem[h].size
      /\ \A u \in Unit : h < u /\ u < Ends(mem, h) => m[u] = mem[u]
  <2>1. h \in Used(mem, B) \ {}
    BY <1>3
  <2> QED BY <1>4, <2>1 DEF Carry
<1>6. Carry(mem, B, m, A, {h}, {h})
  BY <1>4 DEF Carry
<1>7. Hands(mem, B, held, c, m, A, p, v)
  <2>1. p - Hdr = h /\ v # 0
    BY <1>3 DEF h
  <2>2. m[h].size >= v
    <3>1. m[h].size \in Nat
      BY <1>4, ChainIs DEF Used, Whole
    <3> QED BY <1>3, <1>5, <3>1
  <2> HIDE DEF p, v
  <2> QED BY <1>3, <1>4, <1>6, <2>1, <2>2 DEF Hands
<1>8. Painted(m, m, c, p, v)
  <2>1. m \in [Unit -> Cells]
    BY <1>4 DEF Whole, Chain
  <2>2. ASSUME NEW u \in Unit, p <= u, u < p + v PROVE m[u] = Data(c)
    <3>0. u \in Nat /\ Hdr \in Nat /\ Hdr >= 1 /\ p = h + Hdr
      BY <1>3, UnitIs DEF h
    <3>1. h < u /\ u < Ends(mem, h)
      BY <1>3, <2>2, <3>0 DEF Ends
    <3>2. u - p \in 0 .. (v - 1) /\ p + (u - p) = u
      BY <1>3, <2>2, <3>0
    <3>3. mem[p + (u - p)] = Data(c)
      BY <1>3, <3>2
    <3> QED BY <1>5, <3>1, <3>2, <3>3
  <2> QED BY <2>1, <2>2 DEF Painted
<1>9. Put(held, c, p, v) = held
  <2>1. held \in [Clients -> [ptr : Int, want : Nat]]
    BY <1>1 DEF Keeps
  <2>2. held[c] = [ptr |-> p, want |-> v]
    BY <2>1
  <2> QED BY <2>1, <2>2 DEF Put
<1>10. Whole(m, A) /\ Keeps(m, A, held)
  <2>1. Whole(m, A) /\ Keeps(m, A, Put(held, c, p, v))
    <3> HIDE DEF p, v
    <3> QED BY <1>1, <1>3, <1>4, <1>7, <1>8, HoldKeeps
  <2> QED BY <1>9, <2>1
<1> QED BY <1>2, <1>10 DEF KHeapInv, Sound, StaleGone

LEMMA KreallocMoveKeeps ==
  ASSUME KHeapInv, NEW c \in Clients, NEW w \in 1 .. MaxWant, KreallocMove(c, w)
  PROVE  KHeapInv'
<1> DEFINE o == held[c].ptr
           h == o - Hdr
           v == held[c].want
           m == Grown(mem, h)
           b == FirstFit(m, w)
           p == b + Hdr
           t == Take(m, b, w)
           n == m[h].size
           q == Moved(m, h, b, w, n)
           r == FreeBlock(q, h)
<1>0. w \in Nat /\ w >= 1 /\ w # 0
  BY KHeapAssumption
<1>1. PICK B : Whole(mem, B) /\ Keeps(mem, B, held)
  BY DEF KHeapInv, Sound
<1>2. /\ held[c] # Free /\ n < w /\ b # NULL
      /\ mem' = Forget(Fill(r, c, p + v, p + w), c, p, p + w)
      /\ held' = Put(held, c, p, w)
      /\ stale' \in {IF stale = p THEN NULL ELSE stale, o}
  BY DEF KreallocMove, Fits, GrowsInto, Grown, Hold, Put
<1>3. /\ o \in Int /\ h \in Used(mem, B) /\ OwnBlock(held, c) = {h} /\ Chain(mem, B)
      /\ v \in Nat /\ v >= 1 /\ mem[h].size \in Nat /\ mem[h].size >= v /\ h \in Nat
      /\ \A i \in 0 .. (v - 1) : mem[o + i] = Data(c)
      /\ o # NULL /\ o = h + Hdr /\ \A d \in Clients : d # c => held[d].ptr # o
  BY <1>1, <1>2, HeldIs DEF Whole
<1> HIDE DEF h
<1>4. PICK A : Whole(m, A) /\ Carry(mem, B, m, A, {}, {}) /\ h \in Used(m, A)
  BY <1>1, <1>3, GrowKeeps
<1>5. Chain(m, A) /\ h \in A /\ ~m[h].free
  BY <1>4 DEF Whole, Used
<1> HIDE DEF m
<1>6. b \in A /\ m[b].free /\ m[b].size >= w
  BY <1>0, <1>2, <1>5, FirstFitIs
<1> HIDE DEF b
<1>7. /\ b \in Nat /\ Hdr \in Nat /\ Hdr >= 1 /\ n \in Nat /\ b # h
      /\ Ends(m, h) = h + Hdr + n
  BY <1>5, <1>6, ChainIs, UnitIs
<1>8. PICK C : /\ Whole(t, C) /\ Carry(m, A, t, C, {b}, {b})
               /\ b \in Used(t, C) /\ t[b].size >= w
  BY <1>0, <1>4, <1>6, TakeKeeps DEF MayTake
<1>9. /\ h \in Used(t, C) /\ t[h].size >= n /\ t[h].size \in Nat /\ t[b].size \in Nat
      /\ \A u \in Unit : h < u /\ u < Ends(m, h) => t[u] = m[u]
  <2>1. h \in Used(m, A) \ {b}
    BY <1>4, <1>7
  <2>2. /\ h \in Used(t, C) /\ t[h].size >= n
        /\ \A u \in Unit : h < u /\ u < Ends(m, h) => t[u] = m[u]
    BY <1>8, <2>1 DEF Carry
  <2>3. h \in C /\ b \in C /\ Chain(t, C)
    BY <1>8, <2>2 DEF Used, Whole
  <2> QED BY <2>2, <2>3, ChainIs
<1>10. q = Copied(t, h, b, n)
  BY DEF Moved, Copied
<1> HIDE DEF t, n, q
<1>11. /\ Whole(q, C) /\ Carry(t, C, q, C, {b}, {b})
       /\ h \in Used(q, C) /\ b \in Used(q, C) /\ q[b].size = t[b].size
       /\ \A i \in 0 .. (n - 1) : q[b + Hdr + i] = t[h + Hdr + i]
  <2>1. n <= t[h].size /\ n <= t[b].size
    BY <1>0, <1>2, <1>7, <1>8, <1>9
  <2>2. /\ Whole(t, C) /\ h \in Used(t, C) /\ b \in Used(t, C) /\ h # b /\ n \in Nat
    BY <1>7, <1>8, <1>9
  <2> QED BY <1>10, <2>1, <2>2, CopyKeeps
<1>12. PICK D : Whole(r, D) /\ Carry(q, C, r, D, {h}, {})
  BY <1>11, FreeKeeps
<1> HIDE DEF r
<1>13. Chain(t, C) /\ Chain(q, C) /\ Chain(r, D) /\ b \in C
  BY <1>8, <1>11, <1>12 DEF Whole, Used
<1>14. /\ b \in Used(r, D) /\ r[b].size >= q[b].size /\ b \in D /\ r[b].size \in Nat
       /\ \A u \in Unit : b < u /\ u < Ends(q, b) => r[u] = q[u]
  <2>1. b \in Used(q, C) \ {h}
    BY <1>7, <1>11
  <2>2. /\ b \in Used(r, D) /\ r[b].size >= q[b].size
        /\ \A u \in Unit : b < u /\ u < Ends(q, b) => r[u] = q[u]
    BY <1>12, <2>1 DEF Carry
  <2>3. b \in D
    BY <2>2 DEF Used
  <2> QED BY <1>13, <2>2, <2>3, ChainIs
<1>15. b \notin Used(mem, B)
  <2>1. \A x \in Used(mem, B) \ {} : x \in Used(m, A)
    BY <1>4 DEF Carry
  <2> QED BY <1>6, <2>1 DEF Used
<1>16. Carry(mem, B, r, D, {h}, {b})
  <2>1. Carry(mem, B, t, C, {} \cup {b}, {} \cup {b})
    BY <1>3, <1>4, <1>5, <1>8, <1>13, CarryTwice
  <2>2. Carry(mem, B, q, C, ({} \cup {b}) \cup {b}, ({} \cup {b}) \cup {b})
    BY <1>3, <1>11, <1>13, <2>1, CarryTwice
  <2>3. Carry(mem, B, q, C, {b}, {b})
    <3>1. ({} \cup {b}) \cup {b} = {b}
      OBVIOUS
    <3> QED BY <2>2, <3>1
  <2>4. Carry(mem, B, r, D, {b} \cup {h}, {b} \cup {})
    BY <1>3, <1>12, <1>13, <2>3, CarryTwice
  <2> DEFINE O == {b} \cup {h}
             I == {b} \cup {}
             P == {h}
             J == {b}
  <2>5. Used(mem, B) \cap O \subseteq P /\ P \subseteq O /\ I \subseteq J
    BY <1>15
  <2>6. Carry(mem, B, r, D, P, J)
    <3>1. Carry(mem, B, r, D, O, I)
      BY <2>4
    <3> HIDE DEF O, I, P, J
    <3> QED BY <2>5, <3>1, CarryLess
  <2> QED BY <2>6
<1>17. p \in Int /\ p - Hdr = b /\ p # NULL /\ p = b + Hdr
  BY <1>7 DEF NULL
<1> HIDE DEF p
<1>18. r[b].size >= w
  BY <1>0, <1>8, <1>9, <1>11, <1>14
<1>19. Hands(mem, B, held, c, r, D, p, w)
  BY <1>0, <1>3, <1>14, <1>15, <1>16, <1>17, <1>18 DEF Hands
<1>20. n >= v
  <2>1. h \in Used(mem, B) \ {}
    BY <1>3
  <2>2. n >= mem[h].size
    BY <1>4, <2>1 DEF Carry, n
  <2> HIDE DEF v
  <2> QED BY <1>3, <1>7, <2>2
<1>21. ASSUME NEW u \in Unit, p <= u, u < p + v PROVE r[u] = Data(c)
  <2> DEFINE i == u - p
  <2>0. u \in Nat
    BY UnitIs
  <2>1. /\ i \in 0 .. (n - 1) /\ i \in 0 .. (v - 1) /\ b + Hdr + i = u /\ i \in Nat
    <3> HIDE DEF v
    <3> QED BY <1>3, <1>7, <1>17, <1>20, <1>21, <2>0
  <2> HIDE DEF i, v
  <2>2. b < u /\ u < Ends(q, b)
    <3>1. b < u
      BY <1>7, <2>1
    <3>2. q[b].size = t[b].size /\ t[b].size \in Nat /\ n < t[b].size
      BY <1>0, <1>2, <1>7, <1>8, <1>9, <1>11
    <3>3. Ends(q, b) = b + Hdr + q[b].size
      BY DEF Ends
    <3> QED BY <1>7, <2>1, <3>1, <3>2, <3>3
  <2>3. r[u] = q[u]
    BY <1>14, <2>2
  <2>4. q[u] = t[h + Hdr + i]
    BY <1>11, <2>1
  <2>5. /\ h + Hdr + i \in Int /\ h < h + Hdr + i /\ h + Hdr + i < Ends(m, h)
        /\ h + Hdr + i < Ends(mem, h)
    <3>1. i < n /\ i < v
      BY <1>3, <1>7, <2>1
    <3>2. Ends(mem, h) = h + Hdr + mem[h].size
      BY DEF Ends
    <3> QED BY <1>3, <1>7, <2>1, <3>1, <3>2
  <2>6. h + Hdr + i \in Unit
    BY <1>5, <2>5, ChainIs
  <2>7. t[h + Hdr + i] = m[h + Hdr + i]
    BY <1>9, <2>5, <2>6
  <2>8. m[h + Hdr + i] = mem[h + Hdr + i]
    <3>1. \A x \in Used(mem, B) \ {} : \A y \in Unit : x < y /\ y < Ends(mem, x) => m[y] = mem[y]
      BY <1>4 DEF Carry
    <3> QED BY <1>3, <2>5, <2>6, <3>1
  <2>9. mem[o + i] = Data(c) /\ o + i = h + Hdr + i
    <3>1. mem[o + i] = Data(c)
      BY <1>3, <2>1 DEF v
    <3>2. o + i = h + Hdr + i
      BY <1>3
    <3> QED BY <3>1, <3>2
  <2> QED BY <2>3, <2>4, <2>7, <2>8, <2>9
<1>22. Painted(r, mem', c, p, w)
  <2>1. r \in [Unit -> Cells]
    BY <1>13 DEF Chain
  <2>2. p + v \in Int /\ p <= p + v
    <3> HIDE DEF v
    <3> QED BY <1>3, <1>17
  <2> HIDE DEF v
  <2>3. Painted(r, Fill(r, c, p + v, p + w), c, p, w)
    BY <1>0, <1>17, <1>21, <2>1, <2>2, FillPaints
  <2> QED BY <1>0, <1>2, <1>17, <2>3, ForgetPaints
<1>23. Whole(mem', D) /\ Keeps(mem', D, held')
  BY <1>0, <1>1, <1>2, <1>3, <1>12, <1>17, <1>19, <1>22, HoldKeeps
<1>24. StaleGone'
  <2>0. StaleGone /\ o # p
    <3>1. o # p
      BY <1>3, <1>7, <1>17
    <3> QED BY <3>1 DEF KHeapInv
  <2>1. stale' \in Int
    BY <1>2, <1>3, <2>0 DEF StaleGone, NULL
  <2>2. ASSUME stale' # NULL, NEW d \in Clients PROVE held'[d].ptr # stale'
    <3>1. held \in [Clients -> [ptr : Int, want : Nat]]
      BY <1>1 DEF Keeps
    <3>2. held'[d].ptr = IF d = c THEN p ELSE held[d].ptr
      BY <1>2, <3>1 DEF Put
    <3> HIDE DEF o
    <3>3. CASE stale' = o
      BY <1>3, <2>0, <3>2, <3>3
    <3>4. CASE stale' # o
      BY <1>2, <2>0, <2>2, <3>2, <3>4 DEF StaleGone
    <3> QED BY <3>3, <3>4
  <2> QED BY <2>1, <2>2 DEF StaleGone
<1> QED BY <1>23, <1>24 DEF KHeapInv, Sound

LEMMA KHeapInitInv == KHeapInit => KHeapInv
<1> SUFFICES ASSUME KHeapInit PROVE KHeapInv
  OBVIOUS
<1> DEFINE x == Header(NUnits - Hdr, TRUE, NULL, NULL)
<1>1. /\ mem = [u \in Unit |-> IF u = 0 THEN x ELSE Junk]
      /\ held = [c \in Clients |-> Free] /\ stale = NULL
  BY DEF KHeapInit
<1>2. /\ NUnits \in Nat /\ Hdr \in Nat /\ NUnits > Hdr + 1 /\ Hdr >= 1
  BY KHeapAssumption
<1>3. /\ x \in HeaderRec /\ x.size = NUnits - Hdr /\ x.free = TRUE /\ x.next = NULL /\ x.prev = NULL
  BY <1>2 DEF Header, HeaderRec
<1> HIDE DEF x
<1>4. mem \in [Unit -> Cells] /\ mem[0] = x /\ \A u \in Unit : u # 0 => mem[u] = Junk
  BY <1>1, <1>3, CellIs, UnitIs
<1>5. Ends(mem, 0) = NUnits
  BY <1>2, <1>3, <1>4 DEF Ends
<1>6. Chain(mem, {0})
  <2>1. Links(mem, {0}, 0)
    BY <1>2, <1>3, <1>4, <1>5 DEF Links
  <2> QED BY <1>4, <2>1, UnitIs DEF Chain
<1>7. Whole(mem, {0})
  <2>1. Tidy(mem, {0}, NULL)
    BY <1>5 DEF Tidy
  <2>2. OldFree(mem, {0})
    BY <1>3, <1>4, CellIs DEF OldFree
  <2> QED BY <1>6, <2>1, <2>2 DEF Whole
<1>8. Keeps(mem, {0}, held)
  <2>1. Used(mem, {0}) = {}
    BY <1>3, <1>4 DEF Used
  <2>2. held \in [Clients -> [ptr : Int, want : Nat]] /\ \A c \in Clients : held[c] = Free
    BY <1>1 DEF Free, NULL
  <2> QED BY <2>1, <2>2 DEF Keeps
<1>9. StaleGone
  BY <1>1 DEF StaleGone, NULL
<1> QED BY <1>7, <1>8, <1>9 DEF KHeapInv, Sound

LEMMA KHeapStep == KHeapInv /\ [KHeapNext]_kheapVars => KHeapInv'
<1> SUFFICES ASSUME KHeapInv, [KHeapNext]_kheapVars PROVE KHeapInv'
  OBVIOUS
<1>1. CASE UNCHANGED kheapVars
  BY <1>1 DEF kheapVars, KHeapInv, Sound, StaleGone
<1>2. ASSUME NEW c \in Clients, NEW w \in 1 .. MaxWant,
             \/ Kmalloc(c, w) \/ KreallocStay(c, w) \/ KreallocGrow(c, w)
             \/ KreallocMove(c, w) \/ KreallocFail(c, w)
      PROVE KHeapInv'
  BY <1>2, KmallocKeeps, KreallocStayKeeps, KreallocGrowKeeps, KreallocMoveKeeps,
     KreallocFailKeeps
<1>3. ASSUME NEW c \in Clients, Kfree(c) PROVE KHeapInv'
  BY <1>3, KfreeKeeps
<1>4. CASE KfreeAgain
  BY <1>4, KfreeAgainKeeps
<1> QED BY <1>1, <1>2, <1>3, <1>4 DEF KHeapNext

LEMMA KHeapInvSound == KHeapInv => HeapSound
<1> SUFFICES ASSUME KHeapInv PROVE HeapSound
  OBVIOUS
<1>1. PICK B : Whole(mem, B) /\ Keeps(mem, B, held)
  BY DEF KHeapInv, Sound
<1>2. Chain(mem, B) /\ Tidy(mem, B, NULL) /\ Blocks(mem) = B
  BY <1>1, BlocksIs DEF Whole
<1>3. Tiled
  <2> SUFFICES ASSUME NEW b \in B
               PROVE LET e == b + Hdr + mem[b].size IN
                     /\ mem[b].kind = "hdr"
                     /\ mem[b].next = IF e = NUnits THEN NULL ELSE e
                     /\ mem[b].next # NULL => mem[mem[b].next].prev = b
    BY <1>2 DEF Tiled
  <2>1. Ends(mem, b) = b + Hdr + mem[b].size /\ mem[b].kind = "hdr"
    BY <1>2, ChainIs DEF IsHeader
  <2>2. /\ mem[b].next = IF Ends(mem, b) = NUnits THEN NULL ELSE Ends(mem, b)
        /\ Ends(mem, b) # NUnits => mem[Ends(mem, b)].prev = b
    BY <1>2, Neighbours
  <2> QED BY <2>1, <2>2
<1>4. Coalesced
  <2> SUFFICES ASSUME NEW b \in B, mem[b].free, mem[b].next # NULL, mem[mem[b].next].free
               PROVE FALSE
    BY <1>2 DEF Coalesced
  <2>1. Ends(mem, b) # NUnits /\ mem[b].next = Ends(mem, b) /\ Ends(mem, b) \in B
    BY <1>2, Neighbours
  <2>2. b = NULL \/ Ends(mem, b) = NULL
    BY <1>2, <2>1 DEF Tidy
  <2> QED BY <1>2, <2>1, <2>2, ChainIs, UnitIs
<1>5. ASSUME NEW c \in Clients, held[c] # Free
      PROVE  /\ held[c].ptr - Hdr \in B /\ ~mem[held[c].ptr - Hdr].free
             /\ mem[held[c].ptr - Hdr].size >= held[c].want
             /\ \A i \in 0 .. (held[c].want - 1) : mem[held[c].ptr + i] = Data(c)
             /\ \A d \in Clients : held[c].ptr = held[d].ptr => c = d
  BY <1>1, <1>5, HeldIs
<1>6. \A b \in B : ~mem[b].free => \E c \in Clients : held[c].ptr = b + Hdr
  BY <1>1 DEF Keeps, Used
<1>7. HeldOnce
  BY <1>2, <1>5, <1>6 DEF HeldOnce
<1>8. Contents
  BY <1>5 DEF Contents
<1> QED BY <1>3, <1>4, <1>7, <1>8 DEF HeapSound

(* The kernel heap, for every size of it and any number of clients: the    *)
(* blocks always tile it, no two free ones lie side by side, what is in    *)
(* use is what some client holds, and every client finds what it stored,   *)
(* through every sequence of kmalloc, krealloc and kfree, a second kfree   *)
(* of a freed pointer included.                                            *)
THEOREM KHeapStaysSound == KHeapSpec => []HeapSound
<1>1. KHeapSpec => []KHeapInv
  BY KHeapInitInv, KHeapStep, PTL DEF KHeapSpec
<1> QED BY <1>1, KHeapInvSound, PTL

(* A second kfree of a pointer that was freed and not handed out again     *)
(* changes nothing, whatever lies there by now.                            *)
THEOREM KfreeTwiceIsHarmless == KHeapSpec => [][KfreeAgain => UNCHANGED mem]_kheapVars
<1>1. KHeapSpec => []KHeapInv
  BY KHeapInitInv, KHeapStep, PTL DEF KHeapSpec
<1>2. KHeapInv => [KfreeAgain => UNCHANGED mem]_kheapVars
  BY KfreeAgainKeeps
<1> QED BY <1>1, <1>2, PTL
=============================================================================
