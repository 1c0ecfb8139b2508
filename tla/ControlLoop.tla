---------------------------- MODULE ControlLoop ----------------------------
(***************************************************************************)
(* The closed loop the system is for: kernel_main64 reads an observation,  *)
(* chooses an action and hands it to the gym agent on the host, which      *)
(* steps the environment and produces the next observation.  Observations  *)
(* travel either in the streaming rings or in heap blobs named in command  *)
(* responses; telemetry polls share the command and response rings with    *)
(* everything else.                                                        *)
(*                                                                         *)
(* The rings are the queues SpscRing shows them to be and are never full   *)
(* here: the two sides never have more than a few entries outstanding.     *)
(* Observations are numbered; the number is taken modulo Span, more than   *)
(* can exist at one time.  Time enters only through its two tests: whether *)
(* a telemetry poll is due, and whether the last telemetry is too old.     *)
(* What action is chosen does not matter; which observation it was chosen  *)
(* from does.                                                              *)
(*                                                                         *)
(* The blobs the kernel reads were allocated by the bridge, whose headers  *)
(* make heap_get_data answer with the header itself (SharedHeap, property  *)
(* OffsetToData): the kernel finds the header's words where it expects an  *)
(* observation, and reserved[0], which is zero, where it expects done.     *)
(***************************************************************************)
EXTENDS Integers, Sequences, FiniteSets

CONSTANTS StreamReady,  \* ipc_stream_ready and StreamRings.ready: {TRUE} etc.
          Pool,         \* OBS_POOL_SIZE
          EpLen,        \* bound on the steps of an episode (env truncates it)
          Span,         \* observation numbers are modulo Span
          IfrOk,        \* outcomes of ifr_verify_v3 and of the heap_alloc
          Calm,         \* TRUE: no telemetry poll and no failure on the host
          MaxPolls,     \* bound on the telemetry polls of a behaviour
          MayStale,     \* telemetry may get older than telemetry_ttl_usec
          MayFail       \* env.step, or an allocation for telemetry, may fail

ASSUME LoopAssumption ==
  /\ StreamReady \subseteq BOOLEAN /\ IfrOk \subseteq BOOLEAN
  /\ Calm \subseteq BOOLEAN /\ MayStale \in BOOLEAN /\ MayFail \in BOOLEAN
  /\ Pool \in Nat \ {0} /\ EpLen \in Nat \ {0}
  /\ Span \in Nat \ {0, 1} /\ MaxPolls \in Nat

Tele    == Pool + 1             \* the id of any telemetry blob
Garbage == Span                 \* the number of no observation
NoRsp   == [cmd |-> "none", ok |-> FALSE, res |-> 0]

VARIABLES ready,            \* the streaming rings are there (never changes)
          calm,             \* nothing out of the ordinary (never changes)
          cmdq, rspq,       \* command and response ring
          obsq, actq,       \* streaming rings
          kpc,              \* kernel: where in its loop
          useStream, cur,   \* kernel: use_stream, current_blob_id
          kobs,             \* kernel: the observation in hand
          pend,             \* kernel: rsp_pending_buf, or NoRsp
          seen,             \* kernel: last_telemetry_usec # 0
          polls,            \* telemetry polls sent
          counted,          \* observations added to episode_reward
          hpc, hrsp,        \* host: next step, response about to be sent
          streaming,        \* host: self.streaming
          freeIds, inFlight, content,   \* host: the pool of obs blobs
          env, steps        \* host: latest observation, steps in the episode

setup == <<ready, calm>>
kvars == <<kpc, useStream, cur, kobs, pend, seen, polls, counted>>
pool  == <<freeIds, inFlight, content>>
hvars == <<hpc, hrsp, streaming, freeIds, inFlight, content, env, steps>>
vars  == <<ready, calm, cmdq, rspq, obsq, actq, kpc, useStream, cur, kobs, pend, seen,
           polls, counted, hpc, hrsp, streaming, freeIds, inFlight, content, env, steps>>

Cmd(c, arg) == [cmd |-> c, arg |-> arg]
ResetCmd == Cmd("reset", IF ready THEN 1 ELSE 0)
Rsp(c, ok, res) == [cmd |-> c, ok |-> ok, res |-> res]
NoObs == [n |-> 0, seq |-> 0, done |-> FALSE]
HeaderWords == [n |-> Garbage, seq |-> 0, done |-> FALSE]

\* kernel_main64 up to the loop: CMD_ENV_RESET has been sent.
Init ==
  /\ ready \in StreamReady /\ calm \in Calm
  /\ cmdq = <<ResetCmd>> /\ rspq = << >> /\ obsq = << >> /\ actq = << >>
  /\ kpc = "reset" /\ useStream = FALSE /\ cur = 0 /\ kobs = NoObs
  /\ pend = NoRsp /\ seen = FALSE /\ polls = 0 /\ counted = 0
  /\ hpc = "idle" /\ hrsp = NoRsp /\ streaming = FALSE
  /\ freeIds = << >> /\ inFlight = {} /\ content = [b \in 1 .. Pool |-> NoObs]
  /\ env = 0 /\ steps = 0

-----------------------------------------------------------------------------
(* Kernel.                                                                 *)

\* ipc_poll_response_buffered: the stashed response first, then the ring.
HasRsp == pend # NoRsp \/ rspq # << >>
NextRsp == IF pend # NoRsp THEN pend ELSE Head(rspq)
TakeRsp ==
  /\ HasRsp
  /\ pend' = NoRsp
  /\ rspq' = IF pend # NoRsp THEN rspq ELSE Tail(rspq)

\* Both reset waits: any response with RSP_OK ends them.
WaitReset ==
  /\ kpc = "reset" /\ TakeRsp
  /\ useStream' = (NextRsp.ok /\ NextRsp.res = 0 /\ ready)
  /\ cur' = IF NextRsp.ok THEN NextRsp.res ELSE 0
  /\ kpc' = IF useStream' \/ cur' # 0 THEN "obs" ELSE "reset"
  /\ UNCHANGED <<setup, cmdq, obsq, actq, kobs, seen, polls, counted, hvars>>

\* episode_reward += reward, then the test of done.
Observe(o) ==
  /\ kobs' = o
  /\ counted' = IF counted > EpLen THEN counted ELSE counted + 1
  /\ kpc' = IF o.done THEN "done" ELSE "poll"
  /\ UNCHANGED <<setup, cmdq, rspq, actq, useStream, cur, pend, seen, polls, hvars>>

PopObs ==
  /\ kpc = "obs" /\ useStream /\ obsq # << >>
  /\ obsq' = Tail(obsq)
  /\ Observe(Head(obsq))

\* heap_get_data(current_blob_id).
ReadBlob ==
  /\ kpc = "obs" /\ ~useStream /\ cur # 0
  /\ Observe(HeaderWords) /\ UNCHANGED obsq

\* "Invalid obs blob": the loop ends.
ReadNothing ==
  /\ kpc = "obs" /\ ~useStream /\ cur = 0
  /\ kpc' = "exit"
  /\ UNCHANGED <<setup, cmdq, rspq, obsq, actq, useStream, cur, kobs, pend, seen,
                 polls, counted, hvars>>

\* Mutant: episode_reward not set back to zero.
EndEpisode_KeepReward ==
  /\ cmdq' = Append(cmdq, ResetCmd)
  /\ cur' = 0 /\ useStream' = FALSE
  /\ kpc' = "reset"
  /\ UNCHANGED <<setup, obsq, actq, kobs, seen, polls, counted, hvars>>

\* The last part of the done branch: new episode, reset, wait.
EndEpisode ==
  /\ counted' = 0
  /\ cmdq' = Append(cmdq, ResetCmd)
  /\ cur' = 0 /\ useStream' = FALSE
  /\ kpc' = "reset"
  /\ UNCHANGED <<setup, obsq, actq, kobs, seen, polls, hvars>>

\* A record that does not verify is not persisted.
DoneNoRecord ==
  /\ kpc = "done" /\ FALSE \in IfrOk
  /\ EndEpisode /\ UNCHANGED <<rspq, pend>>

DonePersist ==
  /\ kpc = "done" /\ TRUE \in IfrOk
  /\ cmdq' = Append(cmdq, Cmd("persist", 0))
  /\ kpc' = "persist"
  /\ UNCHANGED <<setup, rspq, obsq, actq, useStream, cur, kobs, pend, seen,
                 polls, counted, hvars>>

\* Waiting for one command's response throws all others away.
Skip(c) ==
  /\ kpc = c /\ TakeRsp /\ NextRsp.cmd # c
  /\ UNCHANGED <<setup, cmdq, obsq, actq, kpc, useStream, cur, kobs, seen,
                 polls, counted, hvars>>

Persisted ==
  /\ kpc = "persist" /\ TakeRsp /\ NextRsp.cmd = "persist" /\ NextRsp.ok
  /\ cmdq' = Append(cmdq, Cmd("arb", 0))
  /\ kpc' = "arb"
  /\ UNCHANGED <<setup, obsq, actq, useStream, cur, kobs, seen, polls, counted, hvars>>

PersistFailed ==
  /\ kpc = "persist" /\ TakeRsp /\ NextRsp.cmd = "persist" /\ ~NextRsp.ok
  /\ EndEpisode

\* The decision changes model_id and safemode, the loop goes on as before.
Decided ==
  /\ kpc = "arb" /\ TakeRsp /\ NextRsp.cmd = "arb"
  /\ EndEpisode

\* A telemetry poll is due.
PollTelemetry ==
  /\ kpc = "poll" /\ ~calm /\ polls < MaxPolls
  /\ polls' = polls + 1
  /\ cmdq' = Append(cmdq, Cmd("tele", 0))
  /\ kpc' = "gate"
  /\ UNCHANGED <<setup, rspq, obsq, actq, useStream, cur, kobs, pend, seen,
                 counted, hvars>>

NoPoll ==
  /\ kpc = "poll"
  /\ kpc' = "gate"
  /\ UNCHANGED <<setup, cmdq, rspq, obsq, actq, useStream, cur, kobs, pend, seen,
                 polls, counted, hvars>>

(* One response, if there is one, is looked at: telemetry is taken and its *)
(* blob freed, anything else is stashed.  Then the freshness gate.         *)
Gate ==
  /\ kpc = "gate"
  /\ LET tele == HasRsp /\ NextRsp.cmd = "tele" /\ NextRsp.ok
     IN  /\ pend' = IF tele \/ ~HasRsp THEN NoRsp ELSE NextRsp
         /\ rspq' = IF HasRsp /\ pend = NoRsp THEN Tail(rspq) ELSE rspq
         /\ seen' = (seen \/ tele)
         /\ \E stale \in {FALSE, MayStale /\ seen /\ ~tele} :
              kpc' = IF stale THEN "obs" ELSE "act"
  /\ UNCHANGED <<setup, cmdq, obsq, actq, useStream, cur, kobs, polls, counted, hvars>>

\* Mutant: the result of ipc_stream_action_push ignored when it failed.
PushAction_Dropped ==
  /\ kpc = "act" /\ useStream
  /\ kpc' = "obs"
  /\ UNCHANGED <<setup, cmdq, rspq, obsq, actq, useStream, cur, kobs, pend, seen,
                 polls, counted, hvars>>

\* ipc_stream_action_push(seq, action, seq).
PushAction ==
  /\ kpc = "act" /\ useStream
  /\ actq' = Append(actq, [seq |-> kobs.seq, basis |-> kobs.n])
  /\ kpc' = "obs"
  /\ UNCHANGED <<setup, cmdq, rspq, obsq, useStream, cur, kobs, pend, seen,
                 polls, counted, hvars>>

\* CMD_ENV_STEP with the action and the acknowledged blob.
SendStep ==
  /\ kpc = "act" /\ ~useStream
  /\ cmdq' = Append(cmdq, Cmd("step", cur))
  /\ kpc' = "step"
  /\ UNCHANGED <<setup, rspq, obsq, actq, useStream, cur, kobs, pend, seen,
                 polls, counted, hvars>>

\* Mutant: the loop goes on without waiting for the next observation.
WaitStep_NoWait ==
  /\ kpc = "step"
  /\ kpc' = "obs"
  /\ UNCHANGED <<setup, cmdq, rspq, obsq, actq, useStream, cur, kobs, pend, seen,
                 polls, counted, hvars>>

\* "Wait for Next Obs": any response with RSP_OK will do.
WaitStep ==
  /\ kpc = "step" /\ TakeRsp
  /\ cur' = IF NextRsp.ok THEN NextRsp.res ELSE cur
  /\ kpc' = IF NextRsp.ok THEN "obs" ELSE "step"
  /\ UNCHANGED <<setup, cmdq, obsq, actq, useStream, kobs, seen, polls, counted, hvars>>

-----------------------------------------------------------------------------
(* Host.  run_once polls a command, dispatches it and sends the response;  *)
(* process_stream_step takes one action.                                   *)

NextEnv == (env + 1) % Span
Obs(s, d) == [n |-> NextEnv, seq |-> s, done |-> d]
Fails == {FALSE, MayFail /\ ~calm}

\* Step numbers are capped: the environment goes on to say done after EpLen.
Bump(k) == IF k < EpLen THEN k + 1 ELSE k
Dones(s) == IF s >= EpLen THEN {TRUE} ELSE BOOLEAN

HostTurn(c) ==
  /\ hpc = "idle" /\ cmdq # << >> /\ Head(cmdq).cmd = c
  /\ cmdq' = Tail(cmdq)
  /\ UNCHANGED <<setup, rspq, actq, kvars>>

Reply(ok, res) ==
  /\ hpc' = "reply"
  /\ hrsp' = Rsp(Head(cmdq).cmd, ok, res)

\* _claim_obs_blob on the free list f: the first free blob, else the first
\* of the pool; then the observation is written into it.
Claim(f, fl, o) ==
  LET b == IF f # << >> THEN Head(f) ELSE 1
  IN  /\ freeIds' = IF f # << >> THEN Tail(f) ELSE f
      /\ inFlight' = IF f # << >> THEN fl \cup {b} ELSE fl
      /\ content' = [content EXCEPT ![b] = o]
      /\ Reply(TRUE, b)

\* Mutant: the pool's ids counted from zero, the id that means none.
FreshPool_FromZero == [i \in 1 .. Pool |-> i - 1]

\* _init_obs_pool: every blob of the pool is free again.
FreshPool == [i \in 1 .. Pool |-> i]

HandleReset ==
  /\ HostTurn("reset")
  /\ streaming' = (ready /\ Head(cmdq).arg = 1)
  /\ env' = NextEnv /\ steps' = 0
  /\ IF streaming'
     THEN /\ obsq' = Append(obsq, Obs(0, FALSE))
          /\ Reply(TRUE, 0) /\ UNCHANGED pool
     ELSE /\ Claim(FreshPool, {}, Obs(0, FALSE)) /\ UNCHANGED obsq

\* Mutant: any acknowledged blob goes back to the free list.
Released_Any(b) == Append(freeIds, b)

\* _release_obs_blob: only a blob that is in flight goes back.
Released(b) == IF b \in inFlight THEN Append(freeIds, b) ELSE freeIds

HandleStep ==
  /\ HostTurn("step") /\ ~streaming
  /\ LET b == Head(cmdq).arg
     IN  \/ \E d \in Dones(Bump(steps)) :
              /\ Claim(Released(b), inFlight \ {b}, Obs(Bump(steps), d))
              /\ env' = NextEnv /\ steps' = Bump(steps)
         \/ /\ TRUE \in Fails
            /\ freeIds' = Released(b) /\ inFlight' = inFlight \ {b}
            /\ Reply(FALSE, 0)
            /\ UNCHANGED <<content, env, steps>>
  /\ UNCHANGED <<obsq, streaming>>

HandleStepStreaming ==
  /\ HostTurn("step") /\ streaming
  /\ Reply(FALSE, 0)
  /\ UNCHANGED <<obsq, streaming, pool, env, steps>>

HandleTelemetry ==
  /\ HostTurn("tele")
  /\ \E bad \in Fails : Reply(~bad, IF bad THEN 0 ELSE Tele)
  /\ UNCHANGED <<obsq, streaming, pool, env, steps>>

\* handle_ifr_persist and handle_arb_episode; only the latter has a result.
HandleIfr ==
  /\ HostTurn("persist") \/ HostTurn("arb")
  /\ \E bad \in Fails :
       Reply(~bad, IF bad \/ Head(cmdq).cmd = "persist" THEN 0 ELSE 1)
  /\ UNCHANGED <<obsq, streaming, pool, env, steps>>

SendResponse ==
  /\ hpc = "reply"
  /\ rspq' = Append(rspq, hrsp)
  /\ hpc' = "idle" /\ hrsp' = NoRsp
  /\ UNCHANGED <<setup, cmdq, obsq, actq, kvars, streaming, pool, env, steps>>

\* Mutant: the observation pushed with the action's own sequence number.
StreamStep_SameSeq ==
  /\ hpc = "idle" /\ streaming /\ actq # << >> /\ steps < EpLen
  /\ actq' = Tail(actq)
  /\ \E d \in Dones(Bump(steps)) : obsq' = Append(obsq, Obs(Head(actq).seq, d))
  /\ env' = NextEnv /\ steps' = Bump(steps)
  /\ UNCHANGED <<setup, cmdq, rspq, kvars, hpc, hrsp, streaming, pool>>

\* process_stream_step; an exception of env.step swallows the action.
StreamStep ==
  /\ hpc = "idle" /\ streaming /\ actq # << >>
  /\ actq' = Tail(actq)
  /\ \/ /\ \E d \in Dones(Bump(steps)) :
             obsq' = Append(obsq, Obs(Bump(Head(actq).seq), d))
        /\ env' = NextEnv /\ steps' = Bump(steps)
     \/ /\ TRUE \in Fails
        /\ UNCHANGED <<obsq, env, steps>>
  /\ UNCHANGED <<setup, cmdq, rspq, kvars, hpc, hrsp, streaming, pool>>

-----------------------------------------------------------------------------
Kernel ==
  \/ WaitReset \/ PopObs \/ ReadBlob \/ ReadNothing
  \/ DoneNoRecord \/ DonePersist \/ Skip("persist") \/ Skip("arb")
  \/ Persisted \/ PersistFailed \/ Decided
  \/ PollTelemetry \/ NoPoll \/ Gate
  \/ PushAction \/ SendStep \/ WaitStep

Host ==
  \/ HandleReset \/ HandleStep \/ HandleStepStreaming \/ HandleTelemetry
  \/ HandleIfr \/ SendResponse \/ StreamStep

Next == Kernel \/ Host

Spec == Init /\ [][Next]_vars

(* Both programs are endless loops that never wait for a lock: each takes  *)
(* another step as long as it can.                                         *)
FairSpec == Spec /\ WF_vars(Kernel) /\ WF_vars(Host)

-----------------------------------------------------------------------------
ObsRec == [n : 0 .. Span, seq : 0 .. EpLen, done : BOOLEAN]
RspRec == [cmd : {"none", "reset", "step", "tele", "persist", "arb"},
           ok : BOOLEAN, res : 0 .. Tele]

(* Type invariant.                                                         *)
TypeOK ==
  /\ ready \in BOOLEAN /\ calm \in BOOLEAN
  /\ cmdq \in Seq([cmd : {"reset", "step", "tele", "persist", "arb"},
                   arg : 0 .. Tele])
  /\ rspq \in Seq(RspRec) /\ pend \in RspRec /\ hrsp \in RspRec
  /\ obsq \in Seq(ObsRec) /\ kobs \in ObsRec
  /\ actq \in Seq([seq : 0 .. EpLen, basis : 0 .. Span])
  /\ kpc \in {"reset", "obs", "done", "persist", "arb", "poll", "gate", "act",
              "step", "exit"}
  /\ useStream \in BOOLEAN /\ cur \in 0 .. Tele /\ seen \in BOOLEAN
  /\ polls \in 0 .. MaxPolls /\ counted \in 0 .. (EpLen + 1)
  /\ hpc \in {"idle", "reply"} /\ streaming \in BOOLEAN
  /\ freeIds \in Seq(1 .. Pool) /\ inFlight \subseteq 1 .. Pool
  /\ content \in [1 .. Pool -> ObsRec]
  /\ env \in 0 .. (Span - 1) /\ steps \in 0 .. EpLen

InHand == kpc \in {"poll", "gate", "act"}

(* Every action the environment is about to execute belongs to its latest  *)
(* observation: an action in the ring was chosen from it, a CMD_ENV_STEP   *)
(* acknowledges the blob that holds it.  Never an earlier one, one of the  *)
(* last episode, or a blob that has been written again since.              *)
Fresh ==
  calm => /\ \A i \in DOMAIN actq : actq[i].basis = env
          /\ \A i \in DOMAIN cmdq :
               cmdq[i].cmd = "step" => content[cmdq[i].arg].n = env
          /\ InHand => env = IF useStream THEN kobs.n ELSE content[cur].n

(* Streaming is in lock step: one observation or action exists at a time,  *)
(* and its seq is the number of steps of the episode, also across resets.  *)
LockStep ==
  calm =>
    /\ Len(obsq) + Len(actq) + (IF InHand /\ useStream THEN 1 ELSE 0) <= 1
    /\ \A i \in DOMAIN obsq : obsq[i].seq = steps
    /\ \A i \in DOMAIN actq : actq[i].seq = steps

(* When an episode is over, episode_reward has the reward of each of its   *)
(* observations once.                                                      *)
RewardOnce == calm /\ kpc = "done" => counted = kobs.seq + 1

(* Both: an episode is counted exactly, observation by observation.        *)
EpisodeExact == TypeOK /\ LockStep /\ RewardOnce

(* Whatever the kernel acknowledges, whatever fails: a blob of the         *)
(* observation pool is free, once, or in flight, and none is ever lost.    *)
PoolSound ==
  freeIds # << >> \/ inFlight # {} =>
    /\ \A i, j \in DOMAIN freeIds : i # j => freeIds[i] # freeIds[j]
    /\ {freeIds[i] : i \in DOMAIN freeIds} \cup inFlight = 1 .. Pool
    /\ \A i \in DOMAIN freeIds : freeIds[i] \notin inFlight

(* The loop never stops: the kernel comes back to acting on an             *)
(* observation, and when streaming to the first one of another episode.    *)
KeepsStepping == calm => []<>(InHand /\ kobs.seq = 0) /\ []<>~InHand

(* kmain64.cpp, "Wait for Next Obs": what the kernel takes for the next    *)
(* observation is an observation blob.                                     *)
CurIsObs == cur # Tele

(* obs_action_ring.md: "Kernel reads obs, writes ACTION entry, Host writes *)
(* next OBS entry."                                                        *)
ObsAnswered == (kpc = "gate" /\ useStream) ~> (kpc = "act")
=============================================================================
