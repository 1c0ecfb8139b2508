----------------------------- MODULE MCServices -----------------------------
(***************************************************************************)
(* The services that run in one context at a time, side by side: a         *)
(* behaviour is that of the one that part names, and the others stay in    *)
(* their initial state.  They share no state, so nothing is lost by not    *)
(* mixing their steps.                                                     *)
(***************************************************************************)
EXTENDS KHeap, AddressSpaces, FlightRec, WasmParse, Inputs

VARIABLE part

allVars == <<part, kheapVars, spaceVars, recVars, parseVars, inputVars>>

Init ==
  /\ part \in {"heap", "spaces", "recorder", "parser", "inputs"}
  /\ KHeapInit /\ SpaceInit /\ RecInit /\ ParseInit
  /\ IF part = "inputs" THEN InputsInit ELSE probe = [kind |-> "none"]

\* Clients of the heap, and callers of the recorder, are told apart by nothing.
Symmetry == Permutations(Clients)

Next ==
  \/ /\ part = "heap" /\ KHeapNext
     /\ UNCHANGED <<part, spaceVars, recVars, parseVars, inputVars>>
  \/ /\ part = "spaces" /\ SpaceNext
     /\ UNCHANGED <<part, kheapVars, recVars, parseVars, inputVars>>
  \/ /\ part = "recorder" /\ RecNext
     /\ UNCHANGED <<part, kheapVars, spaceVars, parseVars, inputVars>>
  \/ /\ part = "parser" /\ ParseNext
     /\ UNCHANGED <<part, kheapVars, spaceVars, recVars, inputVars>>
  \/ /\ part = "inputs" /\ InputsNext
     /\ UNCHANGED <<part, kheapVars, spaceVars, recVars, parseVars>>

Spec == Init /\ [][Next]_allVars
=============================================================================
