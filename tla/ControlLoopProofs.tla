-------------------------- MODULE ControlLoopProofs --------------------------
(***************************************************************************)
(* Proofs about the control loop for every length of an episode, every     *)
(* size of the pool and any number of episodes: the pool of observation    *)
(* blobs, whatever fails on the host; and, as long as nothing out of the   *)
(* ordinary happens, that every action belongs to the latest observation   *)
(* and that an episode is counted exactly.                                 *)
(***************************************************************************)
EXTENDS ControlLoop, CommonLemmas

-----------------------------------------------------------------------------
(* A calm loop has one thing outstanding at a time.  A command is in its   *)
(* ring, or the host is about to answer it, or the answer is in its ring.  *)
Quiet == cmdq = << >> /\ rspq = << >> /\ hpc = "idle"
Asked(c) == cmdq = <<c>> /\ rspq = << >> /\ hpc = "idle"
Working(r) == cmdq = << >> /\ rspq = << >> /\ hpc = "reply" /\ hrsp = r
Answered(r) == cmdq = << >> /\ rspq = <<r>> /\ hpc = "idle"

NoStream == obsq = << >> /\ actq = << >>
BlobFresh(b) == b \in 1 .. Pool /\ content[b].n = env

(* The two sides agree on how observations travel.                         *)
Agree == useStream = ready /\ streaming = ready

(* Waiting for the first observation of an episode.                        *)
ResetRsp == Rsp("reset", TRUE, IF ready THEN 0 ELSE 1)
PhaseReset ==
  /\ kpc = "reset" /\ counted = 0 /\ actq = << >>
  /\ \/ Asked(ResetCmd) /\ obsq = << >>
     \/ /\ Working(ResetRsp) \/ Answered(ResetRsp)
        /\ streaming = ready /\ steps = 0
        /\ IF ready THEN obsq = <<[n |-> env, seq |-> 0, done |-> FALSE]>>
                    ELSE obsq = << >> /\ BlobFresh(1)

(* About to read an observation that is there, or that the host owes for   *)
(* the action it has.                                                      *)
ObsThere ==
  /\ actq = << >> /\ Len(obsq) = 1 /\ counted = steps
  /\ obsq[1].n = env /\ obsq[1].seq = steps
  /\ ~obsq[1].done => steps < EpLen
ActThere ==
  /\ obsq = << >> /\ Len(actq) = 1 /\ counted = steps + 1 /\ steps < EpLen
  /\ actq[1].seq = steps /\ actq[1].basis = env
PhaseObs ==
  /\ kpc = "obs" /\ Quiet /\ Agree
  /\ IF ready THEN ObsThere \/ ActThere ELSE NoStream /\ BlobFresh(cur)

(* An observation is in hand.                                              *)
PhaseHand ==
  /\ InHand /\ Quiet /\ Agree /\ NoStream
  /\ IF ready THEN /\ kobs.n = env /\ kobs.seq = steps
                   /\ counted = steps + 1 /\ steps < EpLen
              ELSE BlobFresh(cur)

PhaseStep ==
  /\ kpc = "step" /\ ~ready /\ Agree /\ NoStream
  /\ \/ Asked(Cmd("step", cur)) /\ BlobFresh(cur)
     \/ \E b \in 1 .. Pool :
          BlobFresh(b) /\ (Working(Rsp("step", TRUE, b)) \/ Answered(Rsp("step", TRUE, b)))

(* An episode is over: nothing is under way but its record.                *)
PhaseDone == kpc = "done" /\ Quiet /\ NoStream /\ counted = kobs.seq + 1
PhaseIfr ==
  /\ kpc \in {"persist", "arb"} /\ NoStream
  /\ \/ Asked(Cmd(kpc, 0))
     \/ \E x \in 0 .. 1 : Working(Rsp(kpc, TRUE, x)) \/ Answered(Rsp(kpc, TRUE, x))

Phase == PhaseReset \/ PhaseObs \/ PhaseHand \/ PhaseStep \/ PhaseDone \/ PhaseIfr

(* Without telemetry there is none to get too old, and no response is ever *)
(* stashed.                                                                *)
CalmInv == calm => pend = NoRsp /\ ~seen /\ Phase

-----------------------------------------------------------------------------
(* Types.                                                                  *)
CmdRec == [cmd : {"reset", "step", "tele", "persist", "arb"}, arg : 0 .. Tele]
ActRec == [seq : 0 .. EpLen, basis : 0 .. Span]

(* What the operations put together.                                       *)
LEMMA EntriesTyped ==
  ASSUME TypeOK
  PROVE  /\ ResetCmd \in CmdRec /\ NoRsp \in RspRec /\ NoObs \in ObsRec
         /\ HeaderWords \in ObsRec
         /\ \A c \in {"tele", "persist", "arb"} : Cmd(c, 0) \in CmdRec
         /\ Cmd("step", cur) \in CmdRec
         /\ [seq |-> kobs.seq, basis |-> kobs.n] \in ActRec
         /\ NextEnv \in 0 .. (Span - 1)
         /\ \A k \in 0 .. EpLen : Bump(k) \in 0 .. EpLen
         /\ \A k \in 0 .. EpLen, d \in BOOLEAN : Obs(k, d) \in ObsRec
<1> USE LoopAssumption DEF TypeOK
<1>1. ResetCmd \in CmdRec /\ \A c \in {"tele", "persist", "arb"} : Cmd(c, 0) \in CmdRec
  BY DEF ResetCmd, Cmd, CmdRec, Tele
<1>2. Cmd("step", cur) \in CmdRec
  BY DEF Cmd, CmdRec
<1>3. NoRsp \in RspRec
  BY DEF NoRsp, RspRec, Tele
<1>4. NoObs \in ObsRec /\ HeaderWords \in ObsRec
  BY DEF NoObs, HeaderWords, ObsRec, Garbage
<1>5. [seq |-> kobs.seq, basis |-> kobs.n] \in ActRec
  BY DEF ActRec, ObsRec
<1>6. NextEnv \in 0 .. (Span - 1)
  BY DEF NextEnv
<1>7. \A k \in 0 .. EpLen : Bump(k) \in 0 .. EpLen
  BY DEF Bump
<1>8. \A k \in 0 .. EpLen, d \in BOOLEAN : Obs(k, d) \in ObsRec
  BY <1>6 DEF Obs, ObsRec
<1> QED BY <1>1, <1>2, <1>3, <1>4, <1>5, <1>6, <1>7, <1>8

(* Taking a response leaves typed responses.                               *)
LEMMA TakeTyped ==
  ASSUME TypeOK, HasRsp
  PROVE  /\ NextRsp \in RspRec
         /\ (IF pend # NoRsp THEN rspq ELSE Tail(rspq)) \in Seq(RspRec)
<1>1. pend \in RspRec /\ rspq \in Seq(RspRec)
  BY DEF TypeOK
<1>2. CASE pend # NoRsp
  BY <1>1, <1>2 DEF NextRsp
<1>3. CASE pend = NoRsp
  <2>1. rspq # << >>
    BY <1>3 DEF HasRsp
  <2> QED BY <1>1, <1>3, <2>1, HeadTailProperties DEF NextRsp
<1> QED BY <1>2, <1>3

(* Every kernel step keeps the types.                                      *)
LEMMA KernelTyped ==
  ASSUME TypeOK, Kernel
  PROVE  TypeOK'
<1>0. /\ cmdq \in Seq(CmdRec) /\ rspq \in Seq(RspRec) /\ obsq \in Seq(ObsRec)
      /\ actq \in Seq(ActRec)
  BY DEF TypeOK, CmdRec, ActRec
<1>1. CASE WaitReset
  <2>1. NextRsp \in RspRec /\ rspq' \in Seq(RspRec) /\ pend' \in RspRec
    BY <1>1, TakeTyped, EntriesTyped DEF WaitReset, TakeRsp
  <2>2. NextRsp.res \in 0 .. Tele /\ NextRsp.ok \in BOOLEAN
    BY <2>1 DEF RspRec
  <2>3. cur' \in 0 .. Tele /\ useStream' \in BOOLEAN /\ kpc' \in {"obs", "reset"}
    BY <1>1, <2>2, LoopAssumption DEF WaitReset, TypeOK, Tele
  <2> QED BY <1>1, <2>1, <2>3 DEF WaitReset, TypeOK, setup, hvars
<1>2. ASSUME NEW o \in ObsRec, Observe(o), obsq' \in Seq(ObsRec) PROVE TypeOK'
  <2>1. counted' \in 0 .. (EpLen + 1) /\ kpc' \in {"done", "poll"}
    BY <1>2, LoopAssumption DEF Observe, TypeOK
  <2> QED BY <1>2, <2>1 DEF Observe, TypeOK, setup, hvars
<1>3. CASE PopObs
  BY <1>0, <1>2, <1>3, HeadTailProperties DEF PopObs
<1>4. CASE ReadBlob
  BY <1>0, <1>2, <1>4, EntriesTyped DEF ReadBlob
<1>5. CASE ReadNothing
  BY <1>5 DEF ReadNothing, TypeOK, setup, hvars
<1>6. ASSUME EndEpisode, rspq' \in Seq(RspRec), pend' \in RspRec PROVE TypeOK'
  <2>1. cmdq' \in Seq(CmdRec)
    BY <1>0, <1>6, EntriesTyped, AppendProperties DEF EndEpisode
  <2>2. cur' \in 0 .. Tele /\ counted' \in 0 .. (EpLen + 1)
    BY <1>6, LoopAssumption DEF EndEpisode, Tele
  <2> QED BY <1>6, <2>1, <2>2 DEF EndEpisode, TypeOK, setup, hvars, CmdRec
<1>7. ASSUME TakeRsp PROVE rspq' \in Seq(RspRec) /\ pend' \in RspRec
  BY <1>7, TakeTyped, EntriesTyped DEF TakeRsp
<1>8. CASE DoneNoRecord
  BY <1>6, <1>8 DEF DoneNoRecord, TypeOK
<1>9. CASE DonePersist
  <2>1. cmdq' \in Seq(CmdRec)
    BY <1>0, <1>9, EntriesTyped, AppendProperties DEF DonePersist
  <2> QED BY <1>9, <2>1 DEF DonePersist, TypeOK, setup, hvars, CmdRec
<1>10. CASE Skip("persist") \/ Skip("arb")
  BY <1>7, <1>10 DEF Skip, TypeOK, setup, hvars
<1>11. CASE Persisted
  <2>1. cmdq' \in Seq(CmdRec)
    BY <1>0, <1>11, EntriesTyped, AppendProperties DEF Persisted
  <2> QED BY <1>7, <1>11, <2>1 DEF Persisted, TypeOK, setup, hvars, CmdRec
<1>12. CASE PersistFailed \/ Decided
  BY <1>6, <1>7, <1>12 DEF PersistFailed, Decided
<1>13. CASE PollTelemetry
  <2>1. cmdq' \in Seq(CmdRec)
    BY <1>0, <1>13, EntriesTyped, AppendProperties DEF PollTelemetry
  <2>2. polls' \in 0 .. MaxPolls
    BY <1>13, LoopAssumption DEF PollTelemetry, TypeOK
  <2> QED BY <1>13, <2>1, <2>2 DEF PollTelemetry, TypeOK, setup, hvars, CmdRec
<1>14. CASE NoPoll
  BY <1>14 DEF NoPoll, TypeOK, setup, hvars
<1>15. CASE Gate
  <2>1. rspq' \in Seq(RspRec)
    BY <1>0, <1>15, TakeTyped DEF Gate
  <2>2. pend' \in RspRec
    BY <1>15, TakeTyped, EntriesTyped DEF Gate
  <2>3. seen' \in BOOLEAN /\ kpc' \in {"obs", "act"}
    BY <1>15 DEF Gate, TypeOK
  <2> QED BY <1>15, <2>1, <2>2, <2>3 DEF Gate, TypeOK, setup, hvars
<1>16. CASE PushAction
  <2>1. actq' \in Seq(ActRec)
    BY <1>0, <1>16, EntriesTyped, AppendProperties DEF PushAction
  <2> QED BY <1>16, <2>1 DEF PushAction, TypeOK, setup, hvars, ActRec
<1>17. CASE SendStep
  <2>1. cmdq' \in Seq(CmdRec)
    BY <1>0, <1>17, EntriesTyped, AppendProperties DEF SendStep
  <2> QED BY <1>17, <2>1 DEF SendStep, TypeOK, setup, hvars, CmdRec
<1>18. CASE WaitStep
  <2>1. NextRsp \in RspRec
    BY <1>18, TakeTyped DEF WaitStep, TakeRsp
  <2>2. cur' \in 0 .. Tele /\ kpc' \in {"obs", "step"}
    BY <1>18, <2>1 DEF WaitStep, RspRec, TypeOK
  <2> QED BY <1>7, <1>18, <2>2 DEF WaitStep, TypeOK, setup, hvars
<1> QED BY <1>1, <1>3, <1>4, <1>5, <1>8, <1>9, <1>10, <1>11, <1>12, <1>13, <1>14, <1>15,
           <1>16, <1>17, <1>18 DEF Kernel

(* A blob claimed from free list f is a blob of the pool.                  *)
LEMMA ClaimTyped ==
  ASSUME TypeOK, NEW f \in Seq(1 .. Pool), NEW fl \in SUBSET (1 .. Pool), NEW o \in ObsRec,
         Head(cmdq) \in CmdRec, Claim(f, fl, o)
  PROVE  /\ freeIds' \in Seq(1 .. Pool) /\ inFlight' \subseteq 1 .. Pool
         /\ content' \in [1 .. Pool -> ObsRec]
         /\ hpc' = "reply" /\ hrsp' \in RspRec
<1> DEFINE b == IF f # << >> THEN Head(f) ELSE 1
<1>1. b \in 1 .. Pool /\ freeIds' \in Seq(1 .. Pool)
  <2>1. CASE f # << >>
    BY <2>1, HeadTailProperties DEF Claim
  <2>2. CASE f = << >>
    BY <2>2, LoopAssumption DEF Claim
  <2> QED BY <2>1, <2>2
<1>2. inFlight' = IF f # << >> THEN fl \cup {b} ELSE fl
  BY DEF Claim
<1>3. content' = [content EXCEPT ![b] = o] /\ hpc' = "reply"
      /\ hrsp' = Rsp(Head(cmdq).cmd, TRUE, b)
  BY DEF Claim, Reply
<1> HIDE DEF b
<1>4. content' \in [1 .. Pool -> ObsRec]
  BY <1>1, <1>3 DEF TypeOK
<1>5. hrsp' \in RspRec
  BY <1>1, <1>3, LoopAssumption DEF Rsp, RspRec, CmdRec, Tele
<1> QED BY <1>1, <1>2, <1>3, <1>4, <1>5

(* Giving a blob back leaves a list of blobs of the pool.                  *)
LEMMA ReleasedTyped ==
  ASSUME TypeOK, NEW b \in 0 .. Tele
  PROVE  Released(b) \in Seq(1 .. Pool) /\ (inFlight \ {b}) \in SUBSET (1 .. Pool)
<1>1. freeIds \in Seq(1 .. Pool) /\ inFlight \in SUBSET (1 .. Pool)
  BY DEF TypeOK
<1>2. CASE b \in inFlight
  BY <1>1, <1>2, AppendProperties DEF Released
<1>3. CASE b \notin inFlight
  BY <1>1, <1>3 DEF Released
<1> QED BY <1>1, <1>2, <1>3

(* The fresh pool has every blob once.                                     *)
LEMMA FreshPoolIs ==
  /\ FreshPool \in Seq(1 .. Pool) /\ Len(FreshPool) = Pool /\ FreshPool # << >>
  /\ \A i \in 1 .. Pool : FreshPool[i] = i
  /\ Head(FreshPool) = 1
<1>1. FreshPool \in [1 .. Pool -> 1 .. Pool] /\ Pool \in Nat /\ Pool >= 1
  BY LoopAssumption DEF FreshPool
<1>2. FreshPool \in Seq(1 .. Pool) /\ Len(FreshPool) = Pool
  BY <1>1
<1>3. \A i \in 1 .. Pool : FreshPool[i] = i
  BY DEF FreshPool
<1> QED BY <1>1, <1>2, <1>3, EmptySeq, HeadTailProperties

(* Every host step keeps the types.                                        *)
LEMMA HostTyped ==
  ASSUME TypeOK, Host
  PROVE  TypeOK'
<1>0. /\ cmdq \in Seq(CmdRec) /\ rspq \in Seq(RspRec) /\ obsq \in Seq(ObsRec)
      /\ actq \in Seq(ActRec) /\ hrsp \in RspRec /\ env \in 0 .. (Span - 1)
      /\ steps \in 0 .. EpLen
  BY DEF TypeOK, CmdRec, ActRec
<1>1. ASSUME NEW c, HostTurn(c)
      PROVE  Head(cmdq) \in CmdRec /\ cmdq' \in Seq(CmdRec) /\ Head(cmdq).arg \in 0 .. Tele
  <2>1. cmdq # << >> /\ cmdq' = Tail(cmdq)
    BY <1>1 DEF HostTurn
  <2>2. Head(cmdq) \in CmdRec /\ cmdq' \in Seq(CmdRec)
    BY <1>0, <2>1, HeadTailProperties
  <2> QED BY <2>2 DEF CmdRec
<1>2. ASSUME NEW c, HostTurn(c), NEW ok \in BOOLEAN, NEW r \in 0 .. Tele, Reply(ok, r)
      PROVE  hrsp' \in RspRec /\ hpc' = "reply"
  <2>1. Head(cmdq).cmd \in {"reset", "step", "tele", "persist", "arb"}
    BY <1>1, <1>2 DEF CmdRec
  <2> QED BY <1>2, <2>1 DEF Reply, Rsp, RspRec
<1>3. ASSUME NEW c, HostTurn(c), obsq' \in Seq(ObsRec), streaming' \in BOOLEAN,
             freeIds' \in Seq(1 .. Pool), inFlight' \subseteq 1 .. Pool,
             content' \in [1 .. Pool -> ObsRec], hpc' \in {"idle", "reply"},
             hrsp' \in RspRec, env' \in 0 .. (Span - 1), steps' \in 0 .. EpLen
      PROVE  TypeOK'
  <2>1. cmdq' \in Seq(CmdRec)
    BY <1>1, <1>3
  <2> QED BY <1>3, <2>1 DEF HostTurn, TypeOK, setup, kvars, CmdRec
<1>4. \A r \in {0, 1, Tele} : r \in 0 .. Tele
  BY LoopAssumption DEF Tele
<1>5. CASE HandleReset
  <2>1. /\ HostTurn("reset") /\ streaming' \in BOOLEAN /\ env' \in 0 .. (Span - 1)
        /\ steps' \in 0 .. EpLen
    BY <1>5, EntriesTyped, LoopAssumption DEF HandleReset, TypeOK
  <2>2. Obs(0, FALSE) \in ObsRec
    <3>1. 0 \in 0 .. EpLen /\ FALSE \in BOOLEAN
      BY LoopAssumption
    <3> QED BY <3>1, EntriesTyped
  <2>3. CASE streaming'
    <3>0. obsq' = Append(obsq, Obs(0, FALSE)) /\ Reply(TRUE, 0) /\ UNCHANGED pool
      BY <1>5, <2>3 DEF HandleReset
    <3>1. obsq' \in Seq(ObsRec) /\ Reply(TRUE, 0) /\ UNCHANGED pool
      BY <1>0, <2>2, <3>0, AppendProperties
    <3>2. hrsp' \in RspRec /\ hpc' = "reply"
      BY <1>2, <1>4, <2>1, <3>1
    <3>3. /\ freeIds' \in Seq(1 .. Pool) /\ inFlight' \subseteq 1 .. Pool
          /\ content' \in [1 .. Pool -> ObsRec]
      BY <3>1 DEF pool, TypeOK
    <3> QED BY <1>3, <2>1, <3>1, <3>2, <3>3
  <2>4. CASE ~streaming'
    <3>1. Claim(FreshPool, {}, Obs(0, FALSE)) /\ obsq' \in Seq(ObsRec)
      BY <1>0, <1>5, <2>4 DEF HandleReset
    <3>2. /\ freeIds' \in Seq(1 .. Pool) /\ inFlight' \subseteq 1 .. Pool
          /\ content' \in [1 .. Pool -> ObsRec] /\ hpc' = "reply" /\ hrsp' \in RspRec
      BY <1>1, <2>1, <2>2, <3>1, ClaimTyped, FreshPoolIs
    <3> QED BY <1>3, <2>1, <3>1, <3>2
  <2> QED BY <2>3, <2>4
<1>6. CASE HandleStep
  <2> DEFINE b == Head(cmdq).arg
  <2>1. /\ HostTurn("step") /\ obsq' \in Seq(ObsRec) /\ streaming' \in BOOLEAN
        /\ b \in 0 .. Tele /\ Head(cmdq) \in CmdRec
    BY <1>0, <1>1, <1>6 DEF HandleStep, TypeOK
  <2>2. Released(b) \in Seq(1 .. Pool) /\ (inFlight \ {b}) \in SUBSET (1 .. Pool)
    BY <2>1, ReleasedTyped
  <2>3. CASE \E d \in Dones(Bump(steps)) :
               /\ Claim(Released(b), inFlight \ {b}, Obs(Bump(steps), d))
               /\ env' = NextEnv /\ steps' = Bump(steps)
    <3>1. PICK d \in Dones(Bump(steps)) :
               /\ Claim(Released(b), inFlight \ {b}, Obs(Bump(steps), d))
               /\ env' = NextEnv /\ steps' = Bump(steps)
      BY <2>3
    <3>2. d \in BOOLEAN
      BY DEF Dones
    <3>3. /\ Obs(Bump(steps), d) \in ObsRec /\ steps' \in 0 .. EpLen
          /\ env' \in 0 .. (Span - 1)
      BY <1>0, <3>1, <3>2, EntriesTyped
    <3>4. /\ freeIds' \in Seq(1 .. Pool) /\ inFlight' \subseteq 1 .. Pool
          /\ content' \in [1 .. Pool -> ObsRec] /\ hpc' = "reply" /\ hrsp' \in RspRec
      BY <2>1, <2>2, <3>1, <3>3, ClaimTyped
    <3> QED BY <1>3, <2>1, <3>3, <3>4
  <2>4. CASE /\ freeIds' = Released(b) /\ inFlight' = inFlight \ {b}
             /\ Reply(FALSE, 0) /\ UNCHANGED <<content, env, steps>>
    <3>1. hrsp' \in RspRec /\ hpc' = "reply"
      BY <1>2, <1>4, <2>1, <2>4
    <3>2. /\ content' \in [1 .. Pool -> ObsRec] /\ env' \in 0 .. (Span - 1)
          /\ steps' \in 0 .. EpLen
      BY <2>4 DEF TypeOK
    <3> QED BY <1>3, <2>1, <2>2, <2>4, <3>1, <3>2
  <2> QED BY <1>6, <2>3, <2>4 DEF HandleStep
<1>7. ASSUME UNCHANGED <<obsq, streaming, pool, env, steps>>
      PROVE  /\ obsq' \in Seq(ObsRec) /\ streaming' \in BOOLEAN
             /\ freeIds' \in Seq(1 .. Pool) /\ inFlight' \subseteq 1 .. Pool
             /\ content' \in [1 .. Pool -> ObsRec] /\ env' \in 0 .. (Span - 1)
             /\ steps' \in 0 .. EpLen
  BY <1>7 DEF TypeOK, pool
<1>8. CASE HandleStepStreaming
  <2>1. HostTurn("step") /\ Reply(FALSE, 0) /\ UNCHANGED <<obsq, streaming, pool, env, steps>>
    BY <1>8 DEF HandleStepStreaming
  <2>2. hrsp' \in RspRec /\ hpc' = "reply"
    BY <1>2, <1>4, <2>1
  <2> QED BY <1>3, <1>7, <2>1, <2>2
<1>9. CASE HandleTelemetry
  <2>1. HostTurn("tele") /\ UNCHANGED <<obsq, streaming, pool, env, steps>>
    BY <1>9 DEF HandleTelemetry
  <2>2. PICK bad \in Fails : Reply(~bad, IF bad THEN 0 ELSE Tele)
    BY <1>9 DEF HandleTelemetry
  <2>3. hrsp' \in RspRec /\ hpc' = "reply"
    BY <1>2, <1>4, <2>1, <2>2
  <2> QED BY <1>3, <1>7, <2>1, <2>3
<1>10. CASE HandleIfr
  <2>1. PICK c \in {"persist", "arb"} : HostTurn(c)
    BY <1>10 DEF HandleIfr
  <2>2. UNCHANGED <<obsq, streaming, pool, env, steps>>
    BY <1>10 DEF HandleIfr
  <2>3. PICK bad \in Fails : Reply(~bad, IF bad \/ Head(cmdq).cmd = "persist" THEN 0 ELSE 1)
    BY <1>10 DEF HandleIfr
  <2>4. hrsp' \in RspRec /\ hpc' = "reply"
    BY <1>2, <1>4, <2>1, <2>3
  <2> QED BY <1>3, <1>7, <2>1, <2>2, <2>4
<1>11. CASE SendResponse
  <2>1. rspq' \in Seq(RspRec) /\ hrsp' \in RspRec
    BY <1>0, <1>11, EntriesTyped, AppendProperties DEF SendResponse
  <2> QED BY <1>11, <2>1 DEF SendResponse, TypeOK, setup, kvars, pool
<1>12. CASE StreamStep
  <2>1. actq # << >> /\ actq' = Tail(actq)
    BY <1>12 DEF StreamStep
  <2>2. actq' \in Seq(ActRec) /\ Head(actq) \in ActRec
    BY <1>0, <2>1, HeadTailProperties
  <2>3. Bump(Head(actq).seq) \in 0 .. EpLen /\ NextEnv \in 0 .. (Span - 1)
        /\ Bump(steps) \in 0 .. EpLen
    <3>1. Head(actq).seq \in 0 .. EpLen
      BY <2>2 DEF ActRec
    <3> QED BY <1>0, <3>1, EntriesTyped
  <2>4. obsq' \in Seq(ObsRec) /\ env' \in 0 .. (Span - 1) /\ steps' \in 0 .. EpLen
    <3>1. CASE UNCHANGED <<obsq, env, steps>>
      BY <1>0, <3>1
    <3>2. CASE /\ \E d \in Dones(Bump(steps)) :
                    obsq' = Append(obsq, Obs(Bump(Head(actq).seq), d))
               /\ env' = NextEnv /\ steps' = Bump(steps)
      <4>1. PICK d \in Dones(Bump(steps)) : obsq' = Append(obsq, Obs(Bump(Head(actq).seq), d))
        BY <3>2
      <4>2. d \in BOOLEAN
        BY DEF Dones
      <4>3. Obs(Bump(Head(actq).seq), d) \in ObsRec
        BY <2>3, <4>2, EntriesTyped
      <4>4. obsq' \in Seq(ObsRec)
        BY <1>0, <4>1, <4>3, AppendProperties
      <4> QED BY <2>3, <3>2, <4>4
    <3> QED BY <1>12, <3>1, <3>2 DEF StreamStep
  <2> QED BY <1>12, <2>2, <2>4 DEF StreamStep, TypeOK, setup, kvars, pool, ActRec
<1> QED BY <1>5, <1>6, <1>8, <1>9, <1>10, <1>11, <1>12 DEF Host

-----------------------------------------------------------------------------
(* The pool of observation blobs: free list f and blobs fl in flight.      *)
PoolIs(f, fl) ==
  f # << >> \/ fl # {} =>
    /\ \A i, j \in 1 .. Len(f) : i # j => f[i] # f[j]
    /\ \A b \in 1 .. Pool : b \in fl \/ \E i \in 1 .. Len(f) : f[i] = b
    /\ \A i \in 1 .. Len(f) : f[i] \notin fl

LEMMA PoolSoundIs ==
  ASSUME TypeOK
  PROVE  PoolSound <=> PoolIs(freeIds, inFlight)
<1>1. /\ DOMAIN freeIds = 1 .. Len(freeIds) /\ inFlight \subseteq 1 .. Pool
      /\ \A i \in 1 .. Len(freeIds) : freeIds[i] \in 1 .. Pool
  BY LenProperties, ElementOfSeq DEF TypeOK
<1>2. ({freeIds[i] : i \in DOMAIN freeIds} \cup inFlight = 1 .. Pool)
      <=> \A b \in 1 .. Pool : b \in inFlight \/ \E i \in 1 .. Len(freeIds) : freeIds[i] = b
  BY <1>1
<1> QED BY <1>1, <1>2 DEF PoolSound, PoolIs

(* Claiming a blob moves the first free one, if any, into flight.          *)
LEMMA ClaimKeeps ==
  ASSUME NEW f \in Seq(1 .. Pool), NEW fl \in SUBSET (1 .. Pool), NEW o,
         PoolIs(f, fl), Claim(f, fl, o)
  PROVE  PoolIs(freeIds, inFlight)'
<1>1. CASE f = << >>
  <2>1. freeIds' = f /\ inFlight' = fl
    BY <1>1 DEF Claim
  <2> QED BY <2>1 DEF PoolIs
<1>2. CASE f # << >>
  <2> DEFINE n == Len(f)
             t == Tail(f)
  <2>1. freeIds' = t /\ inFlight' = fl \cup {f[1]}
    BY <1>2, HeadTailProperties DEF Claim
  <2>2. /\ n \in Nat /\ n >= 1 /\ Len(t) = n - 1
        /\ \A i \in 1 .. (n - 1) : t[i] = f[i + 1]
    BY <1>2, HeadTailProperties, EmptySeq, LenProperties
  <2>3. /\ \A i, j \in 1 .. n : i # j => f[i] # f[j]
        /\ \A b \in 1 .. Pool : b \in fl \/ \E i \in 1 .. n : f[i] = b
        /\ \A i \in 1 .. n : f[i] \notin fl
    BY <1>2 DEF PoolIs
  <2> HIDE DEF n, t
  <2>4. \A i, j \in 1 .. (n - 1) : i # j => t[i] # t[j]
    BY <2>2, <2>3
  <2>5. ASSUME NEW b \in 1 .. Pool, b \notin fl \cup {f[1]}
        PROVE  \E i \in 1 .. (n - 1) : t[i] = b
    <3>1. PICK i \in 1 .. n : f[i] = b
      BY <2>3, <2>5
    <3>2. i # 1
      BY <2>5, <3>1
    <3>3. i - 1 \in 1 .. (n - 1) /\ t[i - 1] = b
      BY <2>2, <3>1, <3>2
    <3> QED BY <3>3
  <2>6. \A i \in 1 .. (n - 1) : t[i] \notin fl \cup {f[1]}
    <3> SUFFICES ASSUME NEW i \in 1 .. (n - 1) PROVE t[i] \notin fl \cup {f[1]}
      OBVIOUS
    <3>1. i + 1 \in 1 .. n /\ 1 \in 1 .. n /\ i + 1 # 1 /\ t[i] = f[i + 1]
      BY <2>2
    <3> QED BY <2>3, <3>1
  <2> QED BY <2>1, <2>2, <2>4, <2>5, <2>6 DEF PoolIs
<1> QED BY <1>1, <1>2

(* _release_obs_blob moves a blob that is in flight back, and only that.   *)
LEMMA ReleaseKeeps ==
  ASSUME TypeOK, PoolIs(freeIds, inFlight), NEW b
  PROVE  PoolIs(Released(b), inFlight \ {b})
<1>1. CASE b \notin inFlight
  <2>1. Released(b) = freeIds /\ inFlight \ {b} = inFlight
    BY <1>1 DEF Released
  <2> QED BY <2>1 DEF PoolIs
<1>2. CASE b \in inFlight
  <2> DEFINE n == Len(freeIds)
             a == Append(freeIds, b)
  <2>1. Released(b) = a /\ b \in 1 .. Pool
    BY <1>2 DEF Released, TypeOK
  <2>2. /\ n \in Nat /\ Len(a) = n + 1 /\ a[n + 1] = b
        /\ \A i \in 1 .. n : a[i] = freeIds[i]
    BY <2>1, AppendProperties, LenProperties DEF TypeOK
  <2>3. /\ \A i, j \in 1 .. n : i # j => freeIds[i] # freeIds[j]
        /\ \A x \in 1 .. Pool : x \in inFlight \/ \E i \in 1 .. n : freeIds[i] = x
        /\ \A i \in 1 .. n : freeIds[i] \notin inFlight
    BY <1>2 DEF PoolIs
  <2> HIDE DEF n, a
  <2>4. \A i \in 1 .. (n + 1) : i = n + 1 \/ i \in 1 .. n
    BY <2>2
  <2>5. \A i, j \in 1 .. (n + 1) : i # j => a[i] # a[j]
    BY <1>2, <2>2, <2>3, <2>4
  <2>6. ASSUME NEW x \in 1 .. Pool, x \notin inFlight \ {b}
        PROVE  \E i \in 1 .. (n + 1) : a[i] = x
    <3>1. CASE x = b
      <4>1. n + 1 \in 1 .. (n + 1)
        BY <2>2
      <4> QED BY <2>2, <3>1, <4>1
    <3>2. CASE x # b
      <4>1. PICK i \in 1 .. n : freeIds[i] = x
        BY <2>3, <2>6, <3>2
      <4>2. i \in 1 .. (n + 1) /\ a[i] = x
        BY <2>2, <4>1
      <4> QED BY <4>2
    <3> QED BY <3>1, <3>2
  <2>7. \A i \in 1 .. (n + 1) : a[i] \notin inFlight \ {b}
    BY <2>2, <2>3, <2>4
  <2> QED BY <2>1, <2>2, <2>5, <2>6, <2>7 DEF PoolIs
<1> QED BY <1>1, <1>2

(* Every step keeps the pool sound: only a reset and a step claim blobs.   *)
LEMMA PoolKept ==
  ASSUME TypeOK, PoolIs(freeIds, inFlight), Next
  PROVE  PoolIs(freeIds, inFlight)'
<1>1. ASSUME UNCHANGED <<freeIds, inFlight>> PROVE PoolIs(freeIds, inFlight)'
  BY <1>1 DEF PoolIs
<1>2. CASE Kernel
  <2>1. UNCHANGED <<freeIds, inFlight>>
    BY <1>2 DEF Kernel, WaitReset, PopObs, ReadBlob, ReadNothing, Observe, DoneNoRecord,
                DonePersist, Skip, Persisted, PersistFailed, Decided, EndEpisode,
                PollTelemetry, NoPoll, Gate, PushAction, SendStep, WaitStep, hvars
  <2> QED BY <1>1, <2>1
<1>3. CASE HandleReset
  <2>1. CASE UNCHANGED pool
    BY <1>1, <2>1 DEF pool
  <2>2. CASE Claim(FreshPool, {}, Obs(0, FALSE))
    <3>1. PoolIs(FreshPool, {})
      BY FreshPoolIs DEF PoolIs
    <3> QED BY <2>2, <3>1, ClaimKeeps, FreshPoolIs
  <2> QED BY <1>3, <2>1, <2>2 DEF HandleReset
<1>4. CASE HandleStep
  <2> DEFINE b == Head(cmdq).arg
  <2>1. b \in 0 .. Tele
    <3>1. cmdq \in Seq(CmdRec) /\ cmdq # << >>
      BY <1>4 DEF HandleStep, HostTurn, TypeOK, CmdRec
    <3>2. Head(cmdq) \in CmdRec
      BY <3>1, HeadTailProperties
    <3> QED BY <3>2 DEF CmdRec
  <2>2. PoolIs(Released(b), inFlight \ {b})
    BY ReleaseKeeps
  <2>3. Released(b) \in Seq(1 .. Pool) /\ (inFlight \ {b}) \in SUBSET (1 .. Pool)
    BY <2>1, ReleasedTyped
  <2>4. CASE \E d \in Dones(Bump(steps)) :
               Claim(Released(b), inFlight \ {b}, Obs(Bump(steps), d))
    BY <2>2, <2>3, <2>4, ClaimKeeps
  <2>5. CASE freeIds' = Released(b) /\ inFlight' = inFlight \ {b}
    BY <2>2, <2>5 DEF PoolIs
  <2> QED BY <1>4, <2>4, <2>5 DEF HandleStep
<1>5. CASE HandleStepStreaming \/ HandleTelemetry \/ HandleIfr \/ SendResponse \/ StreamStep
  <2>1. UNCHANGED <<freeIds, inFlight>>
    BY <1>5 DEF HandleStepStreaming, HandleTelemetry, HandleIfr, SendResponse, StreamStep, pool
  <2> QED BY <1>1, <2>1
<1> QED BY <1>2, <1>3, <1>4, <1>5 DEF Next, Host

LEMMA InitTyped == Init => TypeOK /\ PoolIs(freeIds, inFlight)
<1> SUFFICES ASSUME Init PROVE TypeOK /\ PoolIs(freeIds, inFlight)
  OBVIOUS
<1>1. ready \in BOOLEAN /\ calm \in BOOLEAN
  BY LoopAssumption DEF Init
<1>2. ResetCmd \in CmdRec /\ NoRsp \in RspRec /\ NoObs \in ObsRec
  BY LoopAssumption DEF ResetCmd, Cmd, CmdRec, NoRsp, RspRec, NoObs, ObsRec, Tele
<1>3. /\ cmdq \in Seq(CmdRec) /\ rspq \in Seq(RspRec) /\ obsq \in Seq(ObsRec)
      /\ actq \in Seq(ActRec) /\ freeIds \in Seq(1 .. Pool)
  BY <1>2 DEF Init
<1>4. content \in [1 .. Pool -> ObsRec]
  BY <1>2 DEF Init
<1>5. /\ cur \in 0 .. Tele /\ polls \in 0 .. MaxPolls /\ counted \in 0 .. (EpLen + 1)
      /\ env \in 0 .. (Span - 1) /\ steps \in 0 .. EpLen
  BY LoopAssumption DEF Init, Tele
<1>6. TypeOK
  BY <1>1, <1>2, <1>3, <1>4, <1>5 DEF Init, TypeOK, CmdRec, ActRec
<1>7. PoolIs(freeIds, inFlight)
  BY DEF Init, PoolIs
<1> QED BY <1>6, <1>7

LEMMA StepTyped ==
  ASSUME TypeOK, [Next]_vars
  PROVE  TypeOK'
<1>1. CASE Next
  BY <1>1, KernelTyped, HostTyped DEF Next
<1>2. CASE UNCHANGED vars
  BY <1>2 DEF vars, TypeOK
<1> QED BY <1>1, <1>2

(* Whatever the kernel acknowledges and whatever fails on the host, for a  *)
(* pool of any size: a blob of the pool is free, once, or in flight.       *)
THEOREM PoolStaysSound == Spec => []PoolSound
<1> DEFINE Inv == TypeOK /\ PoolIs(freeIds, inFlight)
<1>1. Init => Inv
  BY InitTyped
<1>2. Inv /\ [Next]_vars => Inv'
  <2> SUFFICES ASSUME Inv, [Next]_vars PROVE Inv'
    OBVIOUS
  <2>1. TypeOK'
    BY StepTyped
  <2>2. CASE Next
    BY <2>1, <2>2, PoolKept
  <2>3. CASE UNCHANGED vars
    BY <2>1, <2>3 DEF vars, PoolIs
  <2> QED BY <2>2, <2>3
<1>3. Inv => PoolSound
  BY PoolSoundIs
<1> HIDE DEF Inv
<1> QED BY <1>1, <1>2, <1>3, PTL DEF Spec

-----------------------------------------------------------------------------
(* A calm loop stays in its phases.                                        *)
LEMMA OneEntry ==
  ASSUME NEW x
  PROVE  /\ Head(<<x>>) = x /\ Tail(<<x>>) = << >> /\ <<x>> # << >>
         /\ Append(<< >>, x) = <<x>> /\ Len(<<x>>) = 1
OBVIOUS

LEMMA OnlyEntry ==
  ASSUME NEW S, NEW q \in Seq(S), Len(q) = 1
  PROVE  q # << >> /\ Head(q) = q[1] /\ Tail(q) = << >> /\ q[1] \in S
<1>1. q # << >>
  BY EmptySeq
<1>2. Tail(q) \in Seq(S) /\ Len(Tail(q)) = 0 /\ Head(q) = q[1] /\ Head(q) \in S
  BY <1>1, HeadTailProperties
<1>3. Tail(q) = << >>
  BY <1>2, EmptySeq
<1> QED BY <1>1, <1>2, <1>3

LEMMA CalmTake ==
  ASSUME pend = NoRsp, TakeRsp
  PROVE  rspq # << >> /\ NextRsp = Head(rspq) /\ pend' = NoRsp /\ rspq' = Tail(rspq)
BY DEF TakeRsp, HasRsp, NextRsp

LEMMA CalmTakeAnswer ==
  ASSUME pend = NoRsp, TakeRsp, NEW r, rspq = <<r>>
  PROVE  NextRsp = r /\ pend' = NoRsp /\ rspq' = << >>
BY CalmTake, OneEntry

(* What kind of phase it is follows from where the kernel is.              *)
LEMMA PhaseOfKernel ==
  ASSUME Phase
  PROVE  /\ kpc = "reset" => PhaseReset
         /\ kpc = "obs" => PhaseObs
         /\ kpc \in {"poll", "gate", "act"} => PhaseHand
         /\ kpc = "step" => PhaseStep
         /\ kpc = "done" => PhaseDone
         /\ kpc \in {"persist", "arb"} => PhaseIfr
         /\ kpc # "exit"
BY DEF Phase, PhaseReset, PhaseObs, PhaseHand, PhaseStep, PhaseDone, PhaseIfr, InHand

(* A new episode is asked for when nothing is under way.                   *)
LEMMA EpisodeAsked ==
  ASSUME EndEpisode, cmdq = << >>, rspq' = << >>, hpc = "idle", NoStream
  PROVE  PhaseReset'
<1>1. cmdq' = <<ResetCmd>> /\ ResetCmd' = ResetCmd
  BY OneEntry DEF EndEpisode, ResetCmd, Cmd, setup
<1> QED BY <1>1 DEF EndEpisode, PhaseReset, Asked, NoStream, hvars

LEMMA CalmKernel ==
  ASSUME TypeOK, CalmInv, calm, Kernel
  PROVE  pend' = NoRsp /\ ~seen' /\ Phase'
<1>0. pend = NoRsp /\ ~seen /\ Phase
  BY DEF CalmInv
<1>1. CASE WaitReset
  <2>1. PhaseReset /\ TakeRsp
    BY <1>0, <1>1, PhaseOfKernel DEF WaitReset
  <2>2. /\ Answered(ResetRsp) /\ streaming = ready /\ steps = 0 /\ counted = 0 /\ actq = << >>
        /\ IF ready THEN obsq = <<[n |-> env, seq |-> 0, done |-> FALSE]>>
                    ELSE obsq = << >> /\ BlobFresh(1)
    BY <1>0, <2>1, CalmTake DEF PhaseReset, Asked, Working
  <2>3. NextRsp = ResetRsp /\ pend' = NoRsp /\ rspq' = << >>
    BY <1>0, <2>1, <2>2, CalmTakeAnswer DEF Answered
  <2>4. ResetRsp.ok = TRUE /\ ResetRsp.res = IF ready THEN 0 ELSE 1
    BY DEF ResetRsp, Rsp
  <2>5. /\ useStream' = ready /\ kpc' = "obs" /\ cur' = IF ready THEN 0 ELSE 1
        /\ UNCHANGED <<setup, cmdq, obsq, actq, seen, counted, hvars>>
    <3>1. useStream' = (ready /\ ResetRsp.ok /\ ResetRsp.res = 0)
      BY <1>1, <2>3 DEF WaitReset
    <3>2. useStream' = ready
      BY <2>4, <3>1 DEF TypeOK
    <3> QED BY <1>1, <2>3, <2>4, <3>2 DEF WaitReset, TypeOK
  <2>6. Quiet' /\ Agree'
    BY <2>2, <2>3, <2>5 DEF Answered, Quiet, Agree, hvars, setup
  <2>7. CASE ready
    <3>1. ObsThere'
      BY <2>2, <2>5, <2>7, LoopAssumption, OneEntry DEF ObsThere, hvars
    <3> QED BY <1>0, <2>3, <2>5, <2>6, <2>7, <3>1 DEF Phase, PhaseObs, setup
  <2>8. CASE ~ready
    <3>1. NoStream' /\ BlobFresh(cur)'
      BY <2>2, <2>5, <2>8 DEF NoStream, BlobFresh, hvars
    <3> QED BY <1>0, <2>3, <2>5, <2>6, <2>8, <3>1 DEF Phase, PhaseObs, setup
  <2> QED BY <2>7, <2>8
<1>2. CASE PopObs
  <2>1. PhaseObs /\ useStream /\ obsq # << >> /\ obsq' = Tail(obsq) /\ Observe(Head(obsq))
    BY <1>0, <1>2, PhaseOfKernel DEF PopObs
  <2>2. ready /\ ObsThere /\ Quiet /\ Agree
    BY <2>1 DEF PhaseObs, Agree, ActThere
  <2>3. obsq' = << >> /\ Head(obsq) = obsq[1]
    BY <2>1, <2>2, OnlyEntry DEF ObsThere, TypeOK
  <2>4. /\ kobs' = obsq[1] /\ kpc' = (IF obsq[1].done THEN "done" ELSE "poll")
        /\ counted' = steps + 1
        /\ UNCHANGED <<setup, cmdq, rspq, actq, useStream, cur, pend, seen, hvars>>
    <3>1. counted = steps /\ steps \in 0 .. EpLen
      BY <2>2 DEF ObsThere, TypeOK
    <3>2. counted' = IF counted > EpLen THEN counted ELSE counted + 1
      BY <2>1 DEF Observe
    <3>3. counted' = steps + 1
      BY <3>1, <3>2, LoopAssumption
    <3> QED BY <2>1, <2>3, <3>3 DEF Observe
  <2>5. Quiet' /\ Agree' /\ NoStream'
    BY <2>2, <2>3, <2>4 DEF Quiet, Agree, NoStream, ObsThere, hvars, setup
  <2>6. CASE obsq[1].done
    <3>1. PhaseDone'
      BY <2>2, <2>4, <2>5, <2>6 DEF PhaseDone, ObsThere
    <3> QED BY <1>0, <2>4, <3>1 DEF Phase
  <2>7. CASE ~obsq[1].done
    <3>1. PhaseHand'
      BY <2>2, <2>4, <2>5, <2>7 DEF PhaseHand, InHand, ObsThere, hvars, setup
    <3> QED BY <1>0, <2>4, <3>1 DEF Phase
  <2> QED BY <2>6, <2>7
<1>3. CASE ReadBlob
  <2>1. PhaseObs /\ ~useStream /\ Observe(HeaderWords) /\ UNCHANGED obsq
    BY <1>0, <1>3, PhaseOfKernel DEF ReadBlob
  <2>2. ~ready /\ Quiet /\ Agree /\ NoStream /\ BlobFresh(cur)
    BY <2>1 DEF PhaseObs, Agree
  <2>3. kpc' = "poll" /\ UNCHANGED <<setup, cmdq, rspq, actq, useStream, cur, pend, seen, hvars>>
    BY <2>1 DEF Observe, HeaderWords
  <2>4. Quiet' /\ Agree' /\ NoStream' /\ BlobFresh(cur)'
    BY <2>1, <2>2, <2>3 DEF Quiet, Agree, NoStream, BlobFresh, hvars, setup
  <2>5. PhaseHand'
    BY <2>2, <2>3, <2>4 DEF PhaseHand, InHand, setup
  <2> QED BY <1>0, <2>3, <2>5 DEF Phase
<1>4. CASE ReadNothing
  <2>1. PhaseObs /\ ~useStream /\ cur = 0
    BY <1>0, <1>4, PhaseOfKernel DEF ReadNothing
  <2>2. cur \in 1 .. Pool
    BY <2>1 DEF PhaseObs, Agree, BlobFresh
  <2> QED BY <2>1, <2>2, LoopAssumption
<1>5. CASE DoneNoRecord
  <2>1. PhaseDone /\ EndEpisode /\ UNCHANGED <<rspq, pend>>
    BY <1>0, <1>5, PhaseOfKernel DEF DoneNoRecord
  <2>2. PhaseReset'
    BY <2>1, EpisodeAsked DEF PhaseDone, Quiet
  <2> QED BY <1>0, <2>1, <2>2 DEF Phase, EndEpisode
<1>6. CASE DonePersist
  <2>1. PhaseDone
    BY <1>0, <1>6, PhaseOfKernel DEF DonePersist
  <2>2. cmdq' = <<Cmd("persist", 0)>>
    BY <1>6, <2>1, OneEntry DEF DonePersist, PhaseDone, Quiet
  <2>3. PhaseIfr'
    BY <1>6, <2>1, <2>2 DEF DonePersist, PhaseDone, Quiet, PhaseIfr, Asked, NoStream, hvars
  <2> QED BY <1>0, <1>6, <2>3 DEF DonePersist, Phase
<1>7. ASSUME kpc \in {"persist", "arb"}, TakeRsp
      PROVE  /\ NextRsp.cmd = kpc /\ NextRsp.ok = TRUE /\ pend' = NoRsp /\ rspq' = << >>
             /\ cmdq = << >> /\ hpc = "idle" /\ NoStream
  <2>1. PhaseIfr
    BY <1>0, <1>7, PhaseOfKernel
  <2>2. rspq # << >>
    BY <1>0, <1>7, CalmTake
  <2>3. PICK x \in 0 .. 1 : Answered(Rsp(kpc, TRUE, x))
    BY <2>1, <2>2 DEF PhaseIfr, Asked, Working
  <2>4. NextRsp = Rsp(kpc, TRUE, x) /\ pend' = NoRsp /\ rspq' = << >>
    BY <1>0, <1>7, <2>3, CalmTakeAnswer DEF Answered
  <2> QED BY <2>1, <2>3, <2>4 DEF Answered, Rsp, PhaseIfr
<1>8. CASE Skip("persist") \/ Skip("arb")
  BY <1>7, <1>8 DEF Skip
<1>9. CASE Persisted
  <2>1. pend' = NoRsp /\ rspq' = << >> /\ cmdq = << >> /\ hpc = "idle" /\ NoStream
    BY <1>7, <1>9 DEF Persisted
  <2>2. cmdq' = <<Cmd("arb", 0)>>
    BY <1>9, <2>1, OneEntry DEF Persisted
  <2>3. PhaseIfr'
    BY <1>9, <2>1, <2>2 DEF Persisted, PhaseIfr, Asked, NoStream, hvars
  <2> QED BY <1>0, <1>9, <2>1, <2>3 DEF Persisted, Phase
<1>10. CASE PersistFailed
  BY <1>7, <1>10 DEF PersistFailed
<1>11. CASE Decided
  <2>1. pend' = NoRsp /\ rspq' = << >> /\ cmdq = << >> /\ hpc = "idle" /\ NoStream
    BY <1>7, <1>11 DEF Decided
  <2>2. PhaseReset'
    BY <1>11, <2>1, EpisodeAsked DEF Decided
  <2> QED BY <1>0, <1>11, <2>1, <2>2 DEF Decided, EndEpisode, Phase
<1>12. CASE PollTelemetry
  BY <1>12 DEF PollTelemetry
<1>13. CASE NoPoll
  <2>1. PhaseHand
    BY <1>0, <1>13, PhaseOfKernel DEF NoPoll
  <2>2. PhaseHand'
    BY <1>13, <2>1 DEF NoPoll, PhaseHand, InHand, Quiet, Agree, NoStream, BlobFresh, hvars, setup
  <2> QED BY <1>0, <1>13, <2>2 DEF NoPoll, Phase
<1>14. CASE Gate
  <2>1. PhaseHand
    BY <1>0, <1>14, PhaseOfKernel DEF Gate
  <2>2. ~HasRsp
    BY <1>0, <2>1 DEF PhaseHand, Quiet, HasRsp
  <2>3. /\ pend' = NoRsp /\ rspq' = rspq /\ ~seen' /\ kpc' = "act"
        /\ UNCHANGED <<setup, cmdq, obsq, actq, useStream, cur, kobs, counted, hvars>>
    BY <1>0, <1>14, <2>2 DEF Gate
  <2>4. PhaseHand'
    BY <2>1, <2>3 DEF PhaseHand, InHand, Quiet, Agree, NoStream, BlobFresh, hvars, setup
  <2> QED BY <2>3, <2>4 DEF Phase
<1>15. CASE PushAction
  <2>1. PhaseHand /\ useStream
    BY <1>0, <1>15, PhaseOfKernel DEF PushAction
  <2>2. ready
    BY <2>1 DEF PhaseHand, Agree
  <2>3. actq' = <<[seq |-> kobs.seq, basis |-> kobs.n]>>
    BY <1>15, <2>1, OneEntry DEF PushAction, PhaseHand, NoStream
  <2>4. Quiet' /\ Agree'
    BY <1>15, <2>1 DEF PushAction, PhaseHand, Quiet, Agree, hvars, setup
  <2>5. ActThere'
    <3>1. Len(actq') = 1 /\ actq'[1].seq = kobs.seq /\ actq'[1].basis = kobs.n
      BY <2>3
    <3> QED BY <1>15, <2>1, <2>2, <3>1 DEF PushAction, PhaseHand, NoStream, ActThere, hvars
  <2>6. PhaseObs'
    BY <1>15, <2>2, <2>4, <2>5 DEF PushAction, PhaseObs, setup
  <2> QED BY <1>0, <1>15, <2>6 DEF PushAction, Phase
<1>16. CASE SendStep
  <2>1. PhaseHand /\ ~useStream
    BY <1>0, <1>16, PhaseOfKernel DEF SendStep
  <2>2. ~ready /\ BlobFresh(cur) /\ Agree /\ NoStream /\ Quiet
    BY <2>1 DEF PhaseHand, Agree
  <2>3. cmdq' = <<Cmd("step", cur)>>
    BY <1>16, <2>2, OneEntry DEF SendStep, Quiet
  <2>4. PhaseStep'
    BY <1>16, <2>2, <2>3 DEF SendStep, PhaseStep, BlobFresh, Agree, NoStream, Quiet, Asked,
                             hvars, setup
  <2> QED BY <1>0, <1>16, <2>4 DEF SendStep, Phase
<1>17. CASE WaitStep
  <2>1. PhaseStep /\ TakeRsp
    BY <1>0, <1>17, PhaseOfKernel DEF WaitStep
  <2>2. rspq # << >>
    BY <1>0, <2>1, CalmTake
  <2>3. PICK b \in 1 .. Pool : BlobFresh(b) /\ Answered(Rsp("step", TRUE, b))
    BY <2>1, <2>2 DEF PhaseStep, Asked, Working
  <2>4. NextRsp = Rsp("step", TRUE, b) /\ pend' = NoRsp /\ rspq' = << >>
    BY <1>0, <2>1, <2>3, CalmTakeAnswer DEF Answered
  <2>5. cur' = b /\ kpc' = "obs"
    BY <1>17, <2>4 DEF WaitStep, Rsp
  <2>6. Quiet' /\ Agree' /\ NoStream' /\ BlobFresh(cur)'
    BY <1>17, <2>1, <2>3, <2>4, <2>5 DEF WaitStep, PhaseStep, Answered, Quiet, Agree, NoStream,
                                         BlobFresh, hvars, setup
  <2>7. PhaseObs'
    BY <1>17, <2>1, <2>5, <2>6 DEF WaitStep, PhaseStep, PhaseObs, setup
  <2> QED BY <1>0, <1>17, <2>4, <2>7 DEF WaitStep, Phase
<1> QED BY <1>1, <1>2, <1>3, <1>4, <1>5, <1>6, <1>8, <1>9, <1>10, <1>11, <1>12, <1>13, <1>14,
           <1>15, <1>16, <1>17 DEF Kernel

(* What is under way when the host takes a command, an answer or an action *)
(* in a calm loop.                                                         *)
LEMMA PhaseOfHost ==
  ASSUME Phase
  PROVE  /\ cmdq # << >> => \/ PhaseReset /\ Asked(ResetCmd) /\ obsq = << >>
                            \/ PhaseStep /\ Asked(Cmd("step", cur)) /\ BlobFresh(cur)
                            \/ PhaseIfr /\ Asked(Cmd(kpc, 0))
         /\ actq # << >> => PhaseObs /\ ready /\ ActThere
<1>1. cmdq # << >> => \/ PhaseReset /\ Asked(ResetCmd) /\ obsq = << >>
                      \/ PhaseStep /\ Asked(Cmd("step", cur)) /\ BlobFresh(cur)
                      \/ PhaseIfr /\ Asked(Cmd(kpc, 0))
  BY DEF Phase, PhaseReset, PhaseObs, PhaseHand, PhaseStep, PhaseDone, PhaseIfr, Quiet,
         Working, Answered
<1>2. actq # << >> => PhaseObs /\ ready /\ ActThere
  BY DEF Phase, PhaseReset, PhaseObs, PhaseHand, PhaseStep, PhaseDone, PhaseIfr, NoStream,
         ObsThere
<1> QED BY <1>1, <1>2

LEMMA CalmHost ==
  ASSUME TypeOK, CalmInv, calm, Host
  PROVE  pend' = NoRsp /\ ~seen' /\ Phase'
<1>0. pend = NoRsp /\ ~seen /\ Phase
  BY DEF CalmInv
<1>1. ASSUME NEW c, HostTurn(c)
      PROVE  /\ cmdq # << >> /\ Head(cmdq).cmd = c /\ cmdq' = Tail(cmdq)
             /\ UNCHANGED <<ready, calm, rspq, actq, kpc, useStream, cur, kobs, pend, seen,
                            counted>>
  BY <1>1 DEF HostTurn, setup, kvars
<1>2. ResetCmd.cmd = "reset" /\ Cmd("step", cur).cmd = "step" /\ Cmd(kpc, 0).cmd = kpc
  BY DEF ResetCmd, Cmd
<1>3. Fails = {FALSE}
  BY DEF Fails
<1>4. CASE HandleReset
  <2>1. HostTurn("reset")
    BY <1>4 DEF HandleReset
  <2>2. PhaseReset /\ Asked(ResetCmd) /\ obsq = << >>
    <3>1. ASSUME NEW k, Asked(k) PROVE Head(cmdq) = k
      BY <3>1, OneEntry DEF Asked
    <3> QED BY <1>0, <1>1, <1>2, <2>1, <3>1, PhaseOfHost DEF PhaseIfr
  <2>3. Head(cmdq) = ResetCmd /\ cmdq' = << >> /\ rspq' = << >> /\ actq' = << >>
        /\ kpc' = "reset" /\ counted' = 0 /\ ready' = ready
    BY <1>1, <2>1, <2>2, OneEntry DEF Asked, PhaseReset
  <2>4. env' = NextEnv /\ steps' = 0 /\ streaming' = ready
    <3>1. streaming' = (ready /\ Head(cmdq).arg = 1)
      BY <1>4 DEF HandleReset
    <3>2. Head(cmdq).arg = IF ready THEN 1 ELSE 0
      BY <2>3 DEF ResetCmd, Cmd
    <3>3. streaming' = ready
      BY <3>1, <3>2 DEF TypeOK
    <3> QED BY <1>4, <3>3 DEF HandleReset
  <2>5. CASE ready
    <3>1. obsq' = Append(obsq, Obs(0, FALSE)) /\ Reply(TRUE, 0)
      BY <1>4, <2>4, <2>5 DEF HandleReset
    <3>2. obsq' = <<[n |-> env', seq |-> 0, done |-> FALSE]>>
      BY <2>2, <2>4, <3>1, OneEntry DEF Obs
    <3>3. ResetRsp' = Rsp("reset", TRUE, 0)
      BY <2>3, <2>5 DEF ResetRsp, Rsp
    <3>4. Working(ResetRsp)'
      BY <1>2, <2>3, <3>1, <3>3 DEF Reply, Working
    <3> QED BY <1>0, <1>1, <2>1, <2>3, <2>4, <2>5, <3>2, <3>4 DEF Phase, PhaseReset
  <2>6. CASE ~ready
    <3>1. Claim(FreshPool, {}, Obs(0, FALSE)) /\ obsq' = obsq
      BY <1>4, <2>4, <2>6 DEF HandleReset
    <3>2. content' = [content EXCEPT ![1] = Obs(0, FALSE)] /\ Reply(TRUE, 1)
      BY <3>1, FreshPoolIs DEF Claim
    <3>3. ResetRsp' = Rsp("reset", TRUE, 1)
      BY <2>3, <2>6 DEF ResetRsp, Rsp
    <3>4. Working(ResetRsp)'
      BY <1>2, <2>3, <3>2, <3>3 DEF Reply, Working
    <3>5. BlobFresh(1)'
      BY <2>4, <3>2, LoopAssumption DEF BlobFresh, Obs, TypeOK
    <3> QED BY <1>0, <1>1, <2>1, <2>2, <2>3, <2>4, <2>6, <3>1, <3>4, <3>5 DEF Phase, PhaseReset
  <2> QED BY <2>5, <2>6
<1>5. CASE HandleStep
  <2>1. HostTurn("step") /\ obsq' = obsq /\ streaming' = streaming
    BY <1>5 DEF HandleStep
  <2>2. PhaseStep /\ Asked(Cmd("step", cur)) /\ BlobFresh(cur)
    <3>1. ASSUME NEW k, Asked(k) PROVE Head(cmdq) = k
      BY <3>1, OneEntry DEF Asked
    <3> QED BY <1>0, <1>1, <1>2, <2>1, <3>1, PhaseOfHost DEF PhaseIfr
  <2> DEFINE a == Head(cmdq).arg
  <2>3. a \in 0 .. Tele /\ Head(cmdq).cmd = "step" /\ cmdq' = << >> /\ rspq' = << >>
    <3>1. Head(cmdq) = Cmd("step", cur) /\ Tail(cmdq) = << >>
      BY <2>2, OneEntry DEF Asked
    <3>2. a = cur
      BY <3>1 DEF Cmd
    <3> QED BY <1>1, <1>2, <2>1, <2>2, <3>1, <3>2 DEF TypeOK, Asked
  <2> HIDE DEF a
  <2>4. PICK d \in Dones(Bump(steps)) :
          /\ Claim(Released(a), inFlight \ {a}, Obs(Bump(steps), d))
          /\ env' = NextEnv
    BY <1>3, <1>5 DEF HandleStep, a
  <2>5. PICK b \in 1 .. Pool : b = IF Released(a) # << >> THEN Head(Released(a)) ELSE 1
    BY <2>3, ReleasedTyped, HeadTailProperties, LoopAssumption
  <2>6. content' = [content EXCEPT ![b] = Obs(Bump(steps), d)] /\ Reply(TRUE, b)
    BY <2>4, <2>5 DEF Claim
  <2>7. BlobFresh(b)'
    BY <2>4, <2>5, <2>6 DEF BlobFresh, Obs, TypeOK
  <2>8. Working(Rsp("step", TRUE, b))'
    BY <2>3, <2>6 DEF Reply, Working
  <2>9. PhaseStep'
    BY <1>1, <2>1, <2>2, <2>5, <2>7, <2>8 DEF PhaseStep, Agree, NoStream
  <2> QED BY <1>0, <1>1, <2>1, <2>9 DEF Phase
<1>6. CASE HandleStepStreaming
  <2>1. HostTurn("step") /\ streaming
    BY <1>6 DEF HandleStepStreaming
  <2>2. PhaseStep
    <3>1. ASSUME NEW k, Asked(k) PROVE Head(cmdq) = k
      BY <3>1, OneEntry DEF Asked
    <3> QED BY <1>0, <1>1, <1>2, <2>1, <3>1, PhaseOfHost DEF PhaseIfr
  <2> QED BY <2>1, <2>2 DEF PhaseStep, Agree
<1>7. CASE HandleTelemetry
  <2>1. HostTurn("tele")
    BY <1>7 DEF HandleTelemetry
  <2>2. ASSUME NEW k, Asked(k) PROVE Head(cmdq) = k
    BY <2>2, OneEntry DEF Asked
  <2>3. Head(cmdq).cmd \in {"reset", "step", "persist", "arb"}
    BY <1>0, <1>1, <1>2, <2>1, <2>2, PhaseOfHost DEF PhaseIfr
  <2>4. Head(cmdq).cmd = "tele"
    BY <2>1 DEF HostTurn
  <2> QED BY <2>3, <2>4
<1>8. CASE HandleIfr
  <2>1. PICK c \in {"persist", "arb"} : HostTurn(c)
    BY <1>8 DEF HandleIfr
  <2>2. UNCHANGED <<obsq, streaming, pool, env, steps>>
    BY <1>8 DEF HandleIfr
  <2>3. PhaseIfr /\ Asked(Cmd(kpc, 0))
    <3>1. ASSUME NEW k, Asked(k) PROVE Head(cmdq) = k
      BY <3>1, OneEntry DEF Asked
    <3> QED BY <1>0, <1>1, <1>2, <2>1, <3>1, PhaseOfHost
  <2>4. Reply(TRUE, IF Head(cmdq).cmd = "persist" THEN 0 ELSE 1)
    BY <1>3, <1>8 DEF HandleIfr
  <2>5. PICK x \in 0 .. 1 : Reply(TRUE, x)
    <3>1. CASE Head(cmdq).cmd = "persist"
      <4>1. Reply(TRUE, 0) /\ 0 \in 0 .. 1
        BY <2>4, <3>1 DEF Reply
      <4> QED BY <4>1
    <3>2. CASE Head(cmdq).cmd # "persist"
      <4>1. Reply(TRUE, 1) /\ 1 \in 0 .. 1
        BY <2>4, <3>2 DEF Reply
      <4> QED BY <4>1
    <3> QED BY <3>1, <3>2
  <2>6. Head(cmdq).cmd = kpc /\ cmdq' = << >> /\ rspq' = << >> /\ kpc' = kpc
    BY <1>1, <1>2, <2>1, <2>3, OneEntry DEF Asked
  <2>7. Working(Rsp(kpc, TRUE, x))'
    BY <2>5, <2>6 DEF Reply, Working, Rsp
  <2>8. PhaseIfr'
    BY <1>1, <2>1, <2>2, <2>3, <2>7 DEF PhaseIfr, NoStream
  <2> QED BY <1>0, <1>1, <2>1, <2>8 DEF Phase
<1>9. CASE SendResponse
  <2>1. /\ hpc = "reply" /\ hpc' = "idle" /\ rspq' = Append(rspq, hrsp)
        /\ UNCHANGED <<ready, calm, cmdq, obsq, actq, kpc, useStream, cur, kobs, pend, seen,
                       counted, streaming, content, env, steps>>
    BY <1>9 DEF SendResponse, setup, kvars, pool
  <2>2. ASSUME NEW r, Working(r) PROVE cmdq' = << >> /\ rspq' = <<r>> /\ hpc' = "idle"
    BY <2>1, <2>2, OneEntry DEF Working
  <2>3. CASE PhaseReset
    <3>1. Working(ResetRsp) /\ streaming = ready /\ steps = 0
      BY <2>1, <2>3 DEF PhaseReset, Asked, Answered
    <3>2. Answered(ResetRsp)'
      BY <2>1, <2>2, <3>1 DEF Answered, ResetRsp
    <3>3. PhaseReset'
      BY <2>1, <2>3, <3>1, <3>2 DEF PhaseReset, Asked, Answered, BlobFresh
    <3> QED BY <1>0, <2>1, <3>3 DEF Phase
  <2>4. CASE PhaseStep
    <3>1. PICK b \in 1 .. Pool : BlobFresh(b) /\ Working(Rsp("step", TRUE, b))
      BY <2>1, <2>4 DEF PhaseStep, Asked, Answered
    <3>2. Answered(Rsp("step", TRUE, b))' /\ BlobFresh(b)'
      BY <2>1, <2>2, <3>1 DEF Answered, BlobFresh
    <3>3. PhaseStep'
      BY <2>1, <2>4, <3>2 DEF PhaseStep, Agree, NoStream
    <3> QED BY <1>0, <2>1, <3>3 DEF Phase
  <2>5. CASE PhaseIfr
    <3>1. PICK x \in 0 .. 1 : Working(Rsp(kpc, TRUE, x))
      BY <2>1, <2>5 DEF PhaseIfr, Asked, Answered
    <3>2. Answered(Rsp(kpc, TRUE, x))'
      BY <2>1, <2>2, <3>1 DEF Answered, Rsp
    <3>3. PhaseIfr'
      BY <2>1, <2>5, <3>2 DEF PhaseIfr, NoStream
    <3> QED BY <1>0, <2>1, <3>3 DEF Phase
  <2>6. CASE PhaseObs \/ PhaseHand \/ PhaseDone
    BY <2>1, <2>6 DEF PhaseObs, PhaseHand, PhaseDone, Quiet
  <2> QED BY <1>0, <2>3, <2>4, <2>5, <2>6 DEF Phase
<1>10. CASE StreamStep
  <2>1. /\ actq # << >> /\ actq' = Tail(actq)
        /\ UNCHANGED <<ready, calm, cmdq, rspq, kpc, useStream, cur, kobs, pend, seen, counted,
                       hpc, streaming>>
    BY <1>10 DEF StreamStep, setup, kvars
  <2>2. PhaseObs /\ ready /\ ActThere
    BY <1>0, <2>1, PhaseOfHost
  <2>3. actq' = << >> /\ Head(actq) = actq[1]
    BY <2>1, <2>2, OnlyEntry DEF ActThere, TypeOK
  <2>4. PICK d \in Dones(Bump(steps)) : obsq' = Append(obsq, Obs(Bump(Head(actq).seq), d))
    BY <1>3, <1>10 DEF StreamStep
  <2>5. env' = NextEnv /\ steps' = Bump(steps)
    BY <1>3, <1>10 DEF StreamStep
  <2>6. Bump(steps) = steps + 1 /\ Bump(Head(actq).seq) = steps + 1 /\ steps + 1 <= EpLen
    BY <2>2, <2>3, LoopAssumption DEF ActThere, Bump, TypeOK
  <2>7. obsq' = <<Obs(steps + 1, d)>> /\ (~d => steps + 1 < EpLen)
    <3>1. obsq' = <<Obs(steps + 1, d)>>
      BY <2>2, <2>4, <2>6, OneEntry DEF ActThere
    <3>2. ~d => steps + 1 < EpLen
      <4>1. CASE steps + 1 >= EpLen
        <5>1. d \in {TRUE}
          BY <2>4, <2>6, <4>1 DEF Dones
        <5> QED BY <5>1
      <4>2. CASE ~(steps + 1 >= EpLen)
        BY <4>2, LoopAssumption DEF TypeOK
      <4> QED BY <4>1, <4>2
    <3> QED BY <3>1, <3>2
  <2>8. /\ Len(obsq') = 1 /\ obsq'[1].n = env' /\ obsq'[1].seq = steps'
        /\ (~obsq'[1].done => steps' < EpLen)
    BY <2>5, <2>6, <2>7 DEF Obs
  <2>9. ObsThere'
    BY <2>1, <2>2, <2>3, <2>5, <2>6, <2>8 DEF ObsThere, ActThere
  <2>10. PhaseObs'
    BY <2>1, <2>2, <2>9 DEF PhaseObs, Quiet, Agree
  <2> QED BY <1>0, <2>1, <2>10 DEF Phase
<1> QED BY <1>4, <1>5, <1>6, <1>7, <1>8, <1>9, <1>10 DEF Host

LEMMA CalmInit == Init => CalmInv
<1> SUFFICES ASSUME Init, calm PROVE pend = NoRsp /\ ~seen /\ PhaseReset
  BY DEF CalmInv, Phase
<1> QED BY DEF Init, PhaseReset, Asked

LEMMA CalmStep ==
  ASSUME TypeOK, CalmInv, [Next]_vars
  PROVE  CalmInv'
<1>1. CASE UNCHANGED vars
  BY <1>1 DEF vars, CalmInv, Phase, PhaseReset, PhaseObs, PhaseHand, PhaseStep, PhaseDone,
              PhaseIfr, ResetRsp, ResetCmd, Rsp, Cmd, Quiet, Asked, Working, Answered, NoStream,
              BlobFresh, Agree, ObsThere, ActThere, InHand
<1>2. CASE Next
  <2>1. calm' = calm
    <3>1. CASE Kernel
      BY <3>1 DEF Kernel, WaitReset, PopObs, ReadBlob, ReadNothing, Observe, DoneNoRecord,
                  DonePersist, Skip, Persisted, PersistFailed, Decided, EndEpisode,
                  PollTelemetry, NoPoll, Gate, PushAction, SendStep, WaitStep, setup
    <3>2. CASE Host
      BY <3>2 DEF Host, HandleReset, HandleStep, HandleStepStreaming, HandleTelemetry, HandleIfr,
                  SendResponse, StreamStep, HostTurn, setup
    <3> QED BY <1>2, <3>1, <3>2 DEF Next
  <2> SUFFICES ASSUME calm PROVE (pend = NoRsp /\ ~seen /\ Phase)'
    BY <2>1 DEF CalmInv
  <2> QED BY <1>2, CalmKernel, CalmHost DEF Next
<1> QED BY <1>1, <1>2

LEMMA CalmAlways == Spec => [](TypeOK /\ CalmInv)
<1> DEFINE Inv == TypeOK /\ CalmInv
<1>1. Init => Inv
  BY InitTyped, CalmInit
<1>2. Inv /\ [Next]_vars => Inv'
  BY StepTyped, CalmStep
<1> HIDE DEF Inv
<1>3. Spec => []Inv
  BY <1>1, <1>2, PTL DEF Spec
<1> QED BY <1>3 DEF Inv

(* Nothing the environment is about to execute was chosen from another     *)
(* than its latest observation, however long episodes are and however many *)
(* there have been.                                                        *)
THEOREM ActionsStayFresh == Spec => []Fresh
<1>1. TypeOK /\ CalmInv => Fresh
  <2> SUFFICES ASSUME TypeOK, calm, Phase PROVE Fresh
    BY DEF CalmInv, Fresh
  <2>0. DOMAIN << >> = {} /\ \A x : DOMAIN <<x>> = {1} /\ <<x>>[1] = x
    OBVIOUS
  <2>1. \A i \in DOMAIN actq : actq[i].basis = env
    <3>1. CASE actq = << >>
      BY <2>0, <3>1
    <3>2. CASE actq # << >>
      <4>1. Len(actq) = 1 /\ actq[1].basis = env
        BY <3>2, PhaseOfHost DEF ActThere
      <4>2. DOMAIN actq = 1 .. 1
        BY <4>1, LenProperties DEF TypeOK
      <4> QED BY <4>1, <4>2
    <3> QED BY <3>1, <3>2
  <2>2. \A i \in DOMAIN cmdq : cmdq[i].cmd = "step" => content[cmdq[i].arg].n = env
    <3>1. CASE cmdq = << >>
      BY <2>0, <3>1
    <3>2. CASE Asked(Cmd("step", cur)) /\ BlobFresh(cur)
      <4>1. DOMAIN cmdq = {1} /\ cmdq[1].arg = cur
        BY <2>0, <3>2 DEF Asked, Cmd
      <4> QED BY <3>2, <4>1 DEF BlobFresh
    <3>3. CASE Asked(ResetCmd)
      <4>1. DOMAIN cmdq = {1} /\ cmdq[1].cmd = "reset"
        BY <2>0, <3>3 DEF Asked, ResetCmd, Cmd
      <4> QED BY <4>1
    <3>4. CASE PhaseIfr /\ Asked(Cmd(kpc, 0))
      <4>1. DOMAIN cmdq = {1} /\ cmdq[1].cmd = kpc /\ kpc # "step"
        BY <2>0, <3>4 DEF Asked, Cmd, PhaseIfr
      <4> QED BY <4>1
    <3> QED BY <3>1, <3>2, <3>3, <3>4, PhaseOfHost
  <2>3. InHand => env = IF useStream THEN kobs.n ELSE content[cur].n
    BY PhaseOfKernel DEF InHand, PhaseHand, Agree, BlobFresh
  <2> QED BY <2>1, <2>2, <2>3 DEF Fresh
<1> QED BY <1>1, CalmAlways, PTL

(* Streaming stays in lock step and an episode's reward counts each of its *)
(* observations once.                                                      *)
THEOREM EpisodesAreExact == Spec => []EpisodeExact
<1>1. TypeOK /\ CalmInv => EpisodeExact
  <2> SUFFICES ASSUME TypeOK, CalmInv PROVE LockStep /\ RewardOnce
    BY DEF EpisodeExact
  <2>1. RewardOnce
    BY PhaseOfKernel DEF CalmInv, RewardOnce, PhaseDone
  <2>2. ASSUME calm, InHand \/ actq # << >> \/ obsq # << >>
        PROVE  \/ obsq = << >> /\ actq = << >>
               \/ ~InHand /\ obsq = << >> /\ Len(actq) = 1 /\ actq[1].seq = steps
               \/ ~InHand /\ actq = << >> /\ Len(obsq) = 1 /\ obsq[1].seq = steps
    <3>1. Phase
      BY <2>2 DEF CalmInv
    <3>2. CASE PhaseReset
      <4>1. actq = << >> /\ ~InHand
        BY <3>2 DEF PhaseReset, InHand
      <4>2. obsq = << >> \/ (obsq = <<[n |-> env, seq |-> 0, done |-> FALSE]>> /\ steps = 0)
        BY <3>2 DEF PhaseReset
      <4>3. obsq = << >> \/ (Len(obsq) = 1 /\ obsq[1].seq = steps)
        BY <4>2
      <4> QED BY <4>1, <4>3
    <3>3. CASE PhaseObs
      BY <3>3 DEF PhaseObs, InHand, ObsThere, ActThere, NoStream
    <3>4. CASE PhaseHand \/ PhaseStep \/ PhaseDone \/ PhaseIfr
      BY <3>4 DEF PhaseHand, PhaseStep, PhaseDone, PhaseIfr, NoStream
    <3> QED BY <3>1, <3>2, <3>3, <3>4 DEF Phase
  <2>3. LockStep
    <3> SUFFICES ASSUME calm PROVE LockStep
      BY DEF LockStep
    <3>0. Len(<< >>) = 0 /\ DOMAIN << >> = {}
      OBVIOUS
    <3>1. CASE obsq = << >> /\ actq = << >>
      BY <3>0, <3>1 DEF LockStep
    <3>2. CASE ~InHand /\ obsq = << >> /\ Len(actq) = 1 /\ actq[1].seq = steps
      <4>1. DOMAIN actq = 1 .. 1
        BY <3>2, LenProperties DEF TypeOK
      <4> QED BY <3>0, <3>2, <4>1 DEF LockStep
    <3>3. CASE ~InHand /\ actq = << >> /\ Len(obsq) = 1 /\ obsq[1].seq = steps
      <4>1. DOMAIN obsq = 1 .. 1
        BY <3>3, LenProperties DEF TypeOK
      <4> QED BY <3>0, <3>3, <4>1 DEF LockStep
    <3> QED BY <2>2, <3>1, <3>2, <3>3
  <2> QED BY <2>1, <2>3
<1> QED BY <1>1, CalmAlways, PTL

=============================================================================
