----------------------------- MODULE MCMainLoop -----------------------------
(***************************************************************************)
(* What the kernel's main path runs to its end, side by side: a job graph  *)
(* (sched_run_job), the tuning engine that the main loop ticks, and a      *)
(* WASM module (wasm_run_bytes, wasm_run_agent).  A behaviour is that of   *)
(* the one that part names, and the others stay in their initial state.    *)
(* They share no state, so nothing is lost by not mixing their steps.      *)
(***************************************************************************)
EXTENDS Jobs, Episode, WasmRuntime

VARIABLE part

allVars == <<part, vars, epVars, runtimeVars>>

MainInit ==
  /\ part \in {"jobs", "episode", "wasm"}
  /\ Init /\ EpisodeInit /\ RuntimeInit

MainNext ==
  \/ part = "jobs" /\ Next /\ UNCHANGED <<part, epVars, runtimeVars>>
  \/ part = "episode" /\ EpisodeNext /\ UNCHANGED <<part, vars, runtimeVars>>
  \/ part = "wasm" /\ RuntimeNext /\ UNCHANGED <<part, vars, epVars>>

\* The engine is ticked and the job run for ever; a module is only checked for safety.
MainFairness ==
  \/ part = "jobs" /\ WF_vars(Sched)
  \/ part = "episode" /\ EpisodeFairness
  \/ part = "wasm"

MainSpec == MainInit /\ [][MainNext]_allVars /\ MainFairness
=============================================================================
