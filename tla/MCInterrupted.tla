--------------------------- MODULE MCInterrupted ---------------------------
(***************************************************************************)
(* The services that interrupts drive or disturb, side by side: a          *)
(* behaviour is that of the one that part names, and the others stay in    *)
(* their initial state.  They share no state, so nothing is lost by not    *)
(* mixing their steps.                                                     *)
(***************************************************************************)
EXTENDS Interrupts, Terminal, Processes

VARIABLE part

allVars == <<part, irqVars, termVars, procVars>>

Init ==
  /\ part \in {"interrupts", "terminal", "processes"}
  /\ IrqInit /\ TermInit /\ ProcInit
  /\ part # "terminal" => rings = [sent |-> 0, rsp |-> 0]

Next ==
  \/ /\ part = "interrupts" /\ IrqNext
     /\ UNCHANGED <<part, termVars, procVars>>
  \/ /\ part = "terminal" /\ TermNext
     /\ UNCHANGED <<part, irqVars, procVars>>
  \/ /\ part = "processes" /\ ProcNext
     /\ UNCHANGED <<part, irqVars, termVars>>

\* Each service is held to its own fairness when it is the part.
Fairness ==
  \/ part = "interrupts" /\ IrqFairness
  \/ part = "terminal" /\ TermFairness
  \/ part = "processes" /\ ProcFairness

Spec == Init /\ [][Next]_allVars /\ Fairness
=============================================================================
