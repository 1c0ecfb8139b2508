-------------------------- MODULE IpcChannelProofs --------------------------
(***************************************************************************)
(* Proofs about IpcChannel for every ring size, number of commands and     *)
(* number of bridge crashes: what each bridge promises about the commands  *)
(* (CommandsKept), and what becomes of every response (ResponsesKept).     *)
(***************************************************************************)
EXTENDS IpcChannel, CommonLemmas

Cmds == 0 .. MaxCmds

-----------------------------------------------------------------------------
(* How many commands have left the command ring.  The ring holds the       *)
(* accepted commands after those, in order.                                *)
Consumed == sent - Len(cmdq)

CmdsInOrder ==
  /\ Len(cmdq) <= sent
  /\ \A i \in 1 .. Len(cmdq) : cmdq[i] = Consumed + i

Typed ==
  /\ TypeOK
  /\ handled \in Seq(Cmds) /\ taken \in Seq(Cmds)
  /\ bpc # "idle" => bcmd \in 1 .. MaxCmds

(* The Python bridge works on the last command that left the ring, and has *)
(* executed none after it.                                                 *)
PyOrder ==
  bridge = "py" =>
    /\ bpc # "advance"
    /\ bpc # "idle" => bcmd = Consumed
    /\ Increasing(handled)
    /\ \A i \in 1 .. Len(handled) : handled[i] <= Consumed
    /\ bpc = "handle" => \A i \in 1 .. Len(handled) : handled[i] < Consumed

(* The C bridge works on the first command that is still in the ring, and  *)
(* the command it executed last is that one or the one before.             *)
COrder ==
  bridge = "c" =>
    /\ bpc # "idle" => cmdq # << >> /\ bcmd = Consumed + 1
    /\ \A c \in 1 .. Consumed : \E i \in 1 .. Len(handled) : handled[i] = c
    /\ \A i \in 1 .. (Len(handled) - 1) : handled[i + 1] - handled[i] \in {0, 1}
    /\ handled = << >> => Consumed = 0
    /\ handled # << >> => handled[Len(handled)] \in {Consumed, Consumed + 1}
    /\ Answering \/ bpc = "advance" =>
         handled # << >> /\ handled[Len(handled)] = bcmd

CommandsInv == Typed /\ CmdsInOrder /\ PyOrder /\ COrder

-----------------------------------------------------------------------------
(* The response in each slot, as far as its two words are of one.          *)
WholeAt(i) == Joined(rfirst[i], rsecond[i])
Wholes == [i \in Slots |-> WholeAt(i)]

(* What the kernel has consumed and will consume next, in order.           *)
Base == taken \o InRing

(* Until the interrupt consumes a response in the middle of it, what       *)
(* ipc_poll_response found in the ring stays there.                        *)
PollOwn ==
  ~raced =>
    /\ mpc = "head" /\ mhead # rtail => rhead # rtail
    /\ mpc \in {"first", "second", "advance"} => mtail = rtail /\ rhead # rtail
    /\ mpc = "second" => mrsp = rfirst[rtail]
    /\ mpc = "advance" => mrsp = WholeAt(rtail)

(* A bridge past its check has a free slot, and the words it has written.  *)
WriteOwn ==
  /\ ~raced /\ bpc \in {"write", "second", "publish"} => NextRsp(rhead) # rtail
  /\ bpc \in {"second", "publish"} => rfirst[rhead] = bcmd
  /\ bpc = "publish" => rsecond[rhead] = bcmd

Pending == IF Answering THEN {bcmd} ELSE {}

(* What is answered was executed; until a race, so was what is consumed.   *)
Executed ==
  /\ Answering => bcmd \in ToSet(handled)
  /\ ~raced => ToSet(Base) \subseteq ToSet(handled)

(* Where the response of every executed command is, between the steps.     *)
AnswersPlaced ==
  bridge = "py" /\ ~raced =>
    /\ Increasing(Base)
    /\ dropped \subseteq ToSet(handled)
    /\ ToSet(handled) \subseteq ToSet(Base) \cup dropped \cup lost \cup Pending
    /\ ToSet(Base) \cap (dropped \cup lost) = {}
    /\ \A x \in lost : x <= Consumed /\ (bpc # "idle" => x < Consumed)
    /\ Answering => \A x \in ToSet(Base) \cup dropped \cup lost : x < bcmd

ResponsesInv == CommandsInv /\ PollOwn /\ WriteOwn /\ Executed /\ AnswersPlaced
-----------------------------------------------------------------------------
(* The successor of an index of the response ring is another index.        *)
LEMMA NextRspIs ==
  ASSUME NEW i \in Slots
  PROVE  /\ NextRsp(i) = IF i = RspSize - 1 THEN 0 ELSE i + 1
         /\ NextRsp(i) \in Slots
         /\ NextRsp(i) # i
         /\ NextRsp(i) = RingNext(RspSize, i)
<1>1. NextRsp(i) = RingNext(RspSize, i)
  BY DEF NextRsp, RingNext
<1> QED BY <1>1, RingNextIs, ChannelAssumption DEF Slots

LEMMA JoinedTyped ==
  ASSUME NEW a \in Cmds, NEW b \in Cmds
  PROVE  Joined(a, b) \in Cmds
  BY ChannelAssumption DEF Joined, Cmds

(* Every step keeps the types.                                             *)
LEMMA TypedStep ==
  ASSUME Typed, PyOrder, COrder, [Next]_vars
  PROVE  Typed'
<1> USE DEF Typed, TypeOK, setup, cmdVars, slotVars, pollVars, consumedVars, kernelVars,
        bridgeVars
<1>0. /\ CmdSize \in Nat /\ MaxCmds \in Nat /\ 0 \in Slots /\ 0 \in 0 .. MaxCmds
      /\ rfirst \in [Slots -> Cmds] /\ rsecond \in [Slots -> Cmds]
      /\ mrsp \in Cmds /\ bcmd \in Cmds
  BY ChannelAssumption DEF Slots, Cmds
<1>1. CASE Send
  <2>1. sent + 1 \in 1 .. MaxCmds
    BY <1>0, <1>1 DEF Send
  <2>2. cmdq' \in Seq(1 .. MaxCmds) /\ Len(cmdq') < CmdSize
    BY <1>0, <1>1, <2>1 DEF Send
  <2>3. UNCHANGED <<setup, rhead, rtail, slotVars, kernelVars, bridgeVars>> /\ sent' = sent + 1
    BY <1>1 DEF Send
  <2>4. sent' \in 0 .. MaxCmds
    BY <1>0, <2>1, <2>3
  <2>5. UNCHANGED <<bridge, irqOn, rhead, rtail, rfirst, rsecond>>
    BY <2>3
  <2>6. UNCHANGED <<mpc, mhead, mtail, mrsp, irq, raced, bpc, bcmd, handled, taken, dropped, lost>>
    BY <2>3 DEF kernelVars
  <2> HIDE DEF setup, cmdVars, slotVars, pollVars, consumedVars, kernelVars, bridgeVars
  <2> QED BY <2>2, <2>4, <2>5, <2>6
<1>2. CASE PollHead \/ PollTail \/ PollEmpty
  BY <1>0, <1>2 DEF PollHead, PollTail, PollEmpty
<1>3. CASE PollFirst \/ PollSecond
  <2>1. mrsp' \in 0 .. MaxCmds
    <3>1. CASE PollFirst
      BY <1>0, <3>1 DEF PollFirst, Cmds
    <3>2. CASE PollSecond
      <4>1. rsecond[mtail] \in Cmds
        BY <1>0
      <4> QED BY <1>0, <3>2, <4>1, JoinedTyped DEF PollSecond, Cmds
    <3> QED BY <1>3, <3>1, <3>2
  <2> QED BY <1>3, <2>1 DEF PollFirst, PollSecond
<1>4. CASE PollAdvance
  <2>1. taken' \in Seq(Cmds)
    BY <1>0, <1>4 DEF PollAdvance
  <2> QED BY <1>0, <1>4, <2>1, NextRspIs DEF PollAdvance
<1>5. CASE IrqEnter \/ IrqReturn
  BY <1>5 DEF IrqEnter, IrqReturn
<1>6. CASE IrqDrain
  <2>1. Joined(rfirst[rtail], rsecond[rtail]) \in Cmds
    BY <1>0, JoinedTyped
  <2>2. taken' \in Seq(Cmds)
    BY <1>6, <2>1 DEF IrqDrain
  <2> QED BY <1>6, <2>2, NextRspIs DEF IrqDrain
<1>7. CASE BridgePoll
  <2>0. cmdq \in Seq(1 .. MaxCmds) /\ cmdq # << >> /\ Len(cmdq) < CmdSize
    BY <1>7 DEF BridgePoll
  <2>1. /\ Head(cmdq) \in 1 .. MaxCmds
        /\ Tail(cmdq) \in Seq(1 .. MaxCmds) /\ Len(Tail(cmdq)) < CmdSize
    <3> HIDE DEF Typed, TypeOK
    <3> QED BY <1>0, <2>0, HeadTailProperties
  <2>2. cmdq' \in Seq(1 .. MaxCmds) /\ Len(cmdq') < CmdSize
    <3>1. CASE bridge = "py"
      BY <1>7, <2>1, <3>1 DEF BridgePoll
    <3>2. CASE bridge # "py"
      BY <1>7, <3>2 DEF BridgePoll
    <3> QED BY <3>1, <3>2
  <2>3. bcmd' \in 1 .. MaxCmds /\ bcmd' \in 0 .. MaxCmds
    <3>1. bcmd' = Head(cmdq)
      BY <1>7 DEF BridgePoll
    <3> HIDE DEF Typed, TypeOK
    <3> QED BY <1>0, <2>1, <3>1
  <2> QED BY <1>7, <2>2, <2>3 DEF BridgePoll
<1>8. CASE BridgeHandle
  <2>1. handled' \in Seq(Cmds)
    BY <1>8 DEF BridgeHandle, Cmds
  <2> QED BY <1>8, <2>1 DEF BridgeHandle
<1>9. CASE BridgeRespond \/ BridgeFirst \/ BridgeSecond
  BY <1>9 DEF BridgeRespond, BridgeFirst, BridgeSecond
<1>10. CASE BridgePublish \/ BridgeDrop
  BY <1>10, NextRspIs DEF BridgePublish, BridgeDrop, AfterAnswer
<1>11. CASE BridgeAdvance
  <2>1. cmdq # << >>
    <3>1. bridge = "c"
      BY <1>11 DEF BridgeAdvance, PyOrder
    <3> QED BY <1>11, <3>1 DEF BridgeAdvance, COrder
  <2>2. Tail(cmdq) \in Seq(1 .. MaxCmds) /\ Len(Tail(cmdq)) < CmdSize
    BY <1>0, <2>1, HeadTailProperties
  <2> QED BY <1>11, <2>2 DEF BridgeAdvance
<1>12. CASE BridgeRestart
  BY <1>12 DEF BridgeRestart
<1>13. CASE UNCHANGED vars
  BY <1>13 DEF vars
<1> QED
  BY <1>1, <1>2, <1>3, <1>4, <1>5, <1>6, <1>7, <1>8, <1>9, <1>10, <1>11, <1>12,
     <1>13 DEF Next, PollRun, KernelIrq, BridgeRun, Responding

(* Accepting a command adds it at the end of the ring; consuming one takes *)
(* the first and leaves the rest in order.                                 *)
LEMMA CmdsTaken ==
  ASSUME Typed, CmdsInOrder, cmdq # << >>
  PROVE  /\ Head(cmdq) = Consumed + 1
         /\ Consumed \in Nat
         /\ Len(Tail(cmdq)) = Len(cmdq) - 1
         /\ \A i \in 1 .. Len(Tail(cmdq)) : Tail(cmdq)[i] = Consumed + 1 + i
<1>1. /\ cmdq \in Seq(1 .. MaxCmds) /\ sent \in Nat /\ Len(cmdq) \in Nat
      /\ Len(cmdq) >= 1
  BY ChannelAssumption DEF Typed, TypeOK
<1>2. Consumed \in Nat
  BY <1>1 DEF CmdsInOrder, Consumed
<1>3. /\ Tail(cmdq) \in Seq(1 .. MaxCmds) /\ Len(Tail(cmdq)) = Len(cmdq) - 1
      /\ \A i \in 1 .. Len(Tail(cmdq)) : Tail(cmdq)[i] = cmdq[i + 1]
  BY <1>1, HeadTailProperties
<1>4. Head(cmdq) = Consumed + 1
  BY <1>1 DEF CmdsInOrder
<1>5. \A i \in 1 .. Len(Tail(cmdq)) : Tail(cmdq)[i] = Consumed + 1 + i
  <2> SUFFICES ASSUME NEW i \in 1 .. Len(Tail(cmdq))
               PROVE  Tail(cmdq)[i] = Consumed + 1 + i
    OBVIOUS
  <2>1. i + 1 \in 1 .. Len(cmdq) /\ Tail(cmdq)[i] = cmdq[i + 1]
    BY <1>1, <1>3
  <2>2. cmdq[i + 1] = Consumed + (i + 1)
    BY <2>1 DEF CmdsInOrder
  <2> QED BY <1>2, <2>1, <2>2
<1> QED BY <1>2, <1>3, <1>4, <1>5

(* Every step keeps the command ring in order, and moves Consumed by at    *)
(* most one: in BridgePoll of the Python bridge, in BridgeAdvance of the C *)
(* bridge.                                                                 *)
LEMMA CmdsStep ==
  ASSUME Typed, PyOrder, COrder, CmdsInOrder, [Next]_vars
  PROVE  /\ CmdsInOrder'
         /\ Consumed \in Nat
         /\ Consumed' = IF (BridgePoll /\ bridge = "py") \/ BridgeAdvance
                        THEN Consumed + 1 ELSE Consumed
<1>0. /\ cmdq \in Seq(1 .. MaxCmds) /\ sent \in Nat /\ Len(cmdq) \in Nat
      /\ Consumed \in Nat /\ Consumed = sent - Len(cmdq)
  BY ChannelAssumption DEF Typed, TypeOK, CmdsInOrder, Consumed
<1> USE DEF setup, cmdVars, slotVars, pollVars, consumedVars, kernelVars, bridgeVars
<1>1. CASE Send
  <2>1. sent + 1 \in 1 .. MaxCmds
    BY <1>1, ChannelAssumption DEF Send, Typed, TypeOK
  <2>2. /\ Len(cmdq') = Len(cmdq) + 1
        /\ \A i \in 1 .. Len(cmdq) : cmdq'[i] = cmdq[i]
        /\ cmdq'[Len(cmdq) + 1] = sent + 1
    BY <1>0, <1>1, <2>1, AppendProperties DEF Send
  <2>3. Consumed' = Consumed /\ sent' = sent + 1
    BY <1>0, <1>1, <2>2 DEF Send, Consumed
  <2>4. ASSUME NEW i \in 1 .. (Len(cmdq) + 1) PROVE cmdq'[i] = Consumed + i
    <3>1. CASE i \in 1 .. Len(cmdq)
      BY <2>2, <3>1 DEF CmdsInOrder
    <3>2. CASE i = Len(cmdq) + 1
      BY <1>0, <2>2, <3>2
    <3> QED BY <1>0, <3>1, <3>2
  <2>5. CmdsInOrder'
    BY <1>0, <2>2, <2>3, <2>4 DEF CmdsInOrder
  <2>6. ~BridgePoll /\ ~BridgeAdvance
    BY <1>0, <1>1, <2>2 DEF Send, BridgePoll, BridgeAdvance
  <2> QED BY <1>0, <2>3, <2>5, <2>6
<1>2. CASE (BridgePoll /\ bridge = "py") \/ BridgeAdvance
  <2>1. cmdq' = Tail(cmdq) /\ sent' = sent /\ cmdq # << >>
    BY <1>2 DEF BridgePoll, BridgeAdvance, PyOrder, COrder, Typed, TypeOK
  <2>2. /\ Len(cmdq') = Len(cmdq) - 1
        /\ \A i \in 1 .. Len(cmdq') : cmdq'[i] = Consumed + 1 + i
    BY <2>1, CmdsTaken
  <2>3. Consumed' = Consumed + 1
    BY <1>0, <2>1, <2>2 DEF Consumed
  <2>4. CmdsInOrder'
    BY <1>0, <2>1, <2>2, <2>3 DEF CmdsInOrder
  <2> QED BY <1>0, <1>2, <2>3, <2>4
<1>3. CASE ~Send /\ ~((BridgePoll /\ bridge = "py") \/ BridgeAdvance)
  <2>1. cmdq' = cmdq /\ sent' = sent
    BY <1>3 DEF Next, PollRun, KernelIrq, BridgeRun, Responding, PollHead, PollTail,
       PollEmpty, PollFirst, PollSecond, PollAdvance, IrqEnter, IrqDrain,
       IrqReturn, BridgePoll, BridgeHandle, BridgeRespond, BridgeFirst,
       BridgeSecond, BridgePublish, BridgeDrop, BridgeRestart, vars
  <2> QED BY <1>0, <1>3, <2>1 DEF CmdsInOrder, Consumed
<1> QED BY <1>1, <1>2, <1>3

(* What executing a command adds to the history.                           *)
LEMMA HandledStep ==
  ASSUME Typed, BridgeHandle
  PROVE  /\ Len(handled') = Len(handled) + 1 /\ Len(handled) \in Nat
         /\ \A i \in 1 .. Len(handled) : handled'[i] = handled[i]
         /\ handled'[Len(handled) + 1] = bcmd
         /\ \A i \in 1 .. Len(handled) : handled[i] \in Nat
         /\ ToSet(handled') = ToSet(handled) \cup {bcmd}
         /\ handled' # << >>
<1>1. handled \in Seq(Cmds) /\ bcmd \in Cmds /\ handled' = Append(handled, bcmd)
  BY DEF Typed, TypeOK, BridgeHandle, Cmds
<1>2. ToSet(handled') = ToSet(handled) \cup {bcmd}
  BY <1>1, AppendToSet
<1>3. \A i \in 1 .. Len(handled) : handled[i] \in Nat
  BY <1>1, ChannelAssumption DEF Cmds
<1> QED BY <1>1, <1>2, <1>3, AppendProperties, LenProperties

(* The Python bridge, which advances the tail first, stays behind.         *)
LEMMA PyStep ==
  ASSUME Typed, PyOrder, COrder, CmdsInOrder, [Next]_vars
  PROVE  PyOrder'
<1> SUFFICES ASSUME bridge = "py", bridge' = "py" PROVE PyOrder'
  BY DEF PyOrder,
     Next, PollRun, KernelIrq, BridgeRun, Responding, Send, PollHead,
     PollTail, PollEmpty, PollFirst, PollSecond, PollAdvance, IrqEnter,
     IrqDrain, IrqReturn, BridgePoll, BridgeHandle, BridgeRespond,
     BridgeFirst, BridgeSecond, BridgePublish, BridgeDrop, BridgeAdvance,
     BridgeRestart, vars, setup
<1> USE DEF setup, cmdVars, slotVars, pollVars, consumedVars, kernelVars, bridgeVars
<1>0. /\ Consumed \in Nat /\ ~BridgeAdvance
      /\ Consumed' = IF BridgePoll THEN Consumed + 1 ELSE Consumed
  BY CmdsStep DEF PyOrder, BridgeAdvance
<1>1. CASE BridgePoll
  <2>1. /\ bcmd' = Consumed + 1 /\ Consumed' = Consumed + 1 /\ handled' = handled
        /\ bpc' = "handle"
    BY <1>0, <1>1, CmdsTaken DEF BridgePoll
  <2>2. \A i \in 1 .. Len(handled) : handled[i] \in Nat /\ handled[i] <= Consumed
    BY ChannelAssumption DEF PyOrder, Typed, Cmds
  <2>3. \A i \in 1 .. Len(handled) :
          handled[i] <= Consumed + 1 /\ handled[i] < Consumed + 1
    BY <1>0, <2>2
  <2> QED BY <2>1, <2>3 DEF PyOrder, Increasing
<1>2. CASE BridgeHandle
  <2>1. /\ bcmd = Consumed /\ Consumed' = Consumed /\ bcmd' = bcmd /\ bpc' = "respond"
        /\ \A i \in 1 .. Len(handled) : handled[i] < Consumed
    <3>1. ~BridgePoll
      BY <1>2 DEF BridgeHandle, BridgePoll
    <3> QED BY <1>0, <1>2, <3>1 DEF BridgeHandle, PyOrder
  <2>2. /\ Len(handled') = Len(handled) + 1 /\ Len(handled) \in Nat
        /\ \A i \in 1 .. Len(handled) : handled'[i] = handled[i]
        /\ handled'[Len(handled) + 1] = bcmd
        /\ \A i \in 1 .. Len(handled) : handled[i] \in Nat
    BY <1>2, HandledStep
  <2>3. DOMAIN handled = 1 .. Len(handled) /\ DOMAIN handled' = 1 .. (Len(handled) + 1)
    <3>1. handled \in Seq(Cmds) /\ handled' \in Seq(Cmds)
      BY TypedStep DEF Typed
    <3> QED BY <2>2, <3>1, LenProperties
  <2>4. \A i \in 1 .. (Len(handled) + 1) : i \in 1 .. Len(handled) \/ i = Len(handled) + 1
    BY <2>2
  <2>5. Increasing(handled')
    <3> SUFFICES ASSUME NEW i \in 1 .. (Len(handled) + 1),
                        NEW j \in 1 .. (Len(handled) + 1), i < j
                 PROVE  handled'[i] < handled'[j]
      BY <2>3 DEF Increasing
    <3>1. i \in 1 .. Len(handled)
      BY <2>2
    <3>2. CASE j \in 1 .. Len(handled)
      BY <2>2, <2>3, <3>1, <3>2 DEF PyOrder, Increasing
    <3>3. CASE j = Len(handled) + 1
      BY <2>1, <2>2, <3>1, <3>3
    <3> QED BY <2>4, <3>2, <3>3
  <2>6. \A i \in 1 .. Len(handled') : handled'[i] <= Consumed
    <3> SUFFICES ASSUME NEW i \in 1 .. (Len(handled) + 1) PROVE handled'[i] <= Consumed
      BY <2>2
    <3>1. CASE i \in 1 .. Len(handled)
      BY <1>0, <2>1, <2>2, <3>1
    <3>2. CASE i = Len(handled) + 1
      BY <1>0, <2>1, <2>2, <3>2
    <3> QED BY <2>4, <3>1, <3>2
  <2> QED BY <2>1, <2>5, <2>6 DEF PyOrder
<1>3. CASE ~BridgePoll /\ ~BridgeHandle
  <2>1. /\ handled' = handled /\ Consumed' = Consumed
        /\ \/ bpc' = "idle"
           \/ bpc' = bpc /\ bcmd' = bcmd
           \/ Answering /\ bpc' \notin {"advance", "handle"} /\ bcmd' = bcmd
    BY <1>0, <1>3 DEF Answering, AfterAnswer,
       Next, PollRun, KernelIrq, BridgeRun, Responding, Send, PollHead,
       PollTail, PollEmpty, PollFirst, PollSecond, PollAdvance, IrqEnter,
       IrqDrain, IrqReturn, BridgeRespond, BridgeFirst, BridgeSecond,
       BridgePublish, BridgeDrop, BridgeRestart, vars
  <2> QED BY <2>1 DEF PyOrder, Increasing, Answering
<1> QED BY <1>1, <1>2, <1>3

(* The C bridge, which advances the tail last, skips nothing.              *)
LEMMA CStep ==
  ASSUME Typed, PyOrder, COrder, CmdsInOrder, [Next]_vars
  PROVE  COrder'
<1> SUFFICES ASSUME bridge = "c", bridge' = "c" PROVE COrder'
  BY DEF COrder,
     Next, PollRun, KernelIrq, BridgeRun, Responding, Send, PollHead,
     PollTail, PollEmpty, PollFirst, PollSecond, PollAdvance, IrqEnter,
     IrqDrain, IrqReturn, BridgePoll, BridgeHandle, BridgeRespond,
     BridgeFirst, BridgeSecond, BridgePublish, BridgeDrop, BridgeAdvance,
     BridgeRestart, vars, setup
<1> USE DEF setup, cmdVars, slotVars, pollVars, consumedVars, kernelVars, bridgeVars
<1>0. /\ Consumed \in Nat /\ Len(handled) \in Nat
      /\ Consumed' = IF BridgeAdvance THEN Consumed + 1 ELSE Consumed
      /\ \A i \in 1 .. Len(handled) : handled[i] \in Nat
      /\ handled # << >> <=> Len(handled) >= 1
  BY CmdsStep, ChannelAssumption DEF Typed, Cmds
<1>1. CASE BridgePoll
  <2>1. /\ bcmd' = Consumed + 1 /\ Consumed' = Consumed /\ handled' = handled
        /\ bpc' = "handle" /\ cmdq' = cmdq /\ cmdq # << >>
    BY <1>0, <1>1, CmdsTaken DEF BridgePoll, BridgeAdvance
  <2> QED BY <2>1 DEF COrder, Answering
<1>2. CASE BridgeHandle
  <2>1. /\ cmdq # << >> /\ cmdq' = cmdq /\ bcmd = Consumed + 1 /\ bcmd' = bcmd
        /\ Consumed' = Consumed /\ bpc' = "respond"
    BY <1>0, <1>2 DEF BridgeHandle, BridgeAdvance, COrder
  <2>2. /\ Len(handled') = Len(handled) + 1
        /\ \A i \in 1 .. Len(handled) : handled'[i] = handled[i]
        /\ handled'[Len(handled) + 1] = bcmd
        /\ handled' # << >>
    BY <1>2, HandledStep
  <2>3. \A c \in 1 .. Consumed : \E i \in 1 .. Len(handled') : handled'[i] = c
    <3> SUFFICES ASSUME NEW c \in 1 .. Consumed
                 PROVE  \E i \in 1 .. Len(handled') : handled'[i] = c
      OBVIOUS
    <3>1. PICK i \in 1 .. Len(handled) : handled[i] = c
      BY DEF COrder
    <3>2. i \in 1 .. Len(handled') /\ handled'[i] = c
      BY <1>0, <2>2, <3>1
    <3> QED BY <3>2
  <2>4. \A i \in 1 .. (Len(handled') - 1) : handled'[i + 1] - handled'[i] \in {0, 1}
    <3> SUFFICES ASSUME NEW i \in 1 .. Len(handled)
                 PROVE  handled'[i + 1] - handled'[i] \in {0, 1}
      BY <1>0, <2>2
    <3>1. handled'[i] = handled[i] /\ handled[i] \in Nat
      BY <1>0, <2>2
    <3>2. CASE i = Len(handled)
      <4>1. handled[i] \in {Consumed, Consumed + 1}
        BY <1>0, <3>2 DEF COrder
      <4>2. handled'[i + 1] = Consumed + 1
        BY <2>1, <2>2, <3>2
      <4> QED BY <1>0, <3>1, <4>1, <4>2
    <3>3. CASE i # Len(handled)
      <4>1. i \in 1 .. (Len(handled) - 1) /\ i + 1 \in 1 .. Len(handled)
        BY <1>0, <3>3
      <4>2. handled'[i + 1] = handled[i + 1]
        BY <2>2, <4>1
      <4>3. handled[i + 1] - handled[i] \in {0, 1}
        BY <4>1 DEF COrder
      <4> QED BY <3>1, <4>2, <4>3
    <3> QED BY <3>2, <3>3
  <2> QED BY <2>1, <2>2, <2>3, <2>4 DEF COrder, Answering
<1>3. CASE BridgeAdvance
  <2>1. /\ bpc' = "idle" /\ handled' = handled /\ handled # << >>
        /\ handled[Len(handled)] = Consumed + 1 /\ Consumed' = Consumed + 1
    BY <1>0, <1>3 DEF BridgeAdvance, COrder
  <2>2. \A c \in 1 .. (Consumed + 1) : \E i \in 1 .. Len(handled) : handled[i] = c
    <3> SUFFICES ASSUME NEW c \in 1 .. (Consumed + 1)
                 PROVE  \E i \in 1 .. Len(handled) : handled[i] = c
      OBVIOUS
    <3>1. CASE c \in 1 .. Consumed
      BY <3>1 DEF COrder
    <3>2. CASE c = Consumed + 1
      <4>1. Len(handled) \in 1 .. Len(handled) /\ handled[Len(handled)] = c
        BY <1>0, <2>1, <3>2
      <4> QED BY <4>1
    <3> QED BY <1>0, <3>1, <3>2
  <2> QED BY <2>1, <2>2 DEF COrder, Answering
<1>4. CASE ~BridgePoll /\ ~BridgeHandle /\ ~BridgeAdvance
  <2>1. /\ handled' = handled /\ Consumed' = Consumed
        /\ \/ bpc' = "idle"
           \/ bpc' = bpc /\ bcmd' = bcmd
           \/ Answering /\ bpc' # "idle" /\ bcmd' = bcmd
        /\ cmdq # << >> => cmdq' # << >>
    <3>1. cmdq # << >> => cmdq' # << >>
      <4>1. CASE Send
        <5>1. /\ cmdq \in Seq(1 .. MaxCmds) /\ sent + 1 \in 1 .. MaxCmds
              /\ cmdq' = Append(cmdq, sent + 1)
          BY <4>1, ChannelAssumption DEF Send, Typed, TypeOK
        <5> QED BY <5>1, AppendProperties
      <4>2. CASE ~Send
        BY <1>4, <4>2
           DEF Next, PollRun, KernelIrq, BridgeRun, Responding, PollHead,
               PollTail, PollEmpty, PollFirst, PollSecond, PollAdvance,
               IrqEnter, IrqDrain, IrqReturn, BridgeRespond, BridgeFirst,
               BridgeSecond, BridgePublish, BridgeDrop, BridgeRestart, vars
      <4> QED BY <4>1, <4>2
    <3> QED BY <1>0, <1>4, <3>1 DEF Answering, AfterAnswer,
          Next, PollRun, KernelIrq, BridgeRun, Responding, Send, PollHead,
          PollTail, PollEmpty, PollFirst, PollSecond, PollAdvance, IrqEnter,
          IrqDrain, IrqReturn, BridgeRespond, BridgeFirst, BridgeSecond,
          BridgePublish, BridgeDrop, BridgeRestart, vars
  <2> QED BY <2>1 DEF COrder, Answering
<1> QED BY <1>1, <1>2, <1>3, <1>4

LEMMA CommandsInvariant == Spec => []CommandsInv
<1>1. Init => CommandsInv
  <2> SUFFICES ASSUME Init PROVE CommandsInv
    OBVIOUS
  <2>1. Typed
    <3>1. /\ bridge \in {"py", "c"} /\ irqOn \in BOOLEAN
          /\ 0 \in Slots /\ 0 \in 0 .. MaxCmds
      BY ChannelAssumption DEF Init, Slots
    <3>2. rfirst \in [Slots -> 0 .. MaxCmds] /\ rsecond \in [Slots -> 0 .. MaxCmds]
      BY <3>1 DEF Init
    <3>3. /\ cmdq \in Seq(1 .. MaxCmds) /\ Len(cmdq) < CmdSize
          /\ handled \in Seq(Cmds) /\ taken \in Seq(Cmds)
      BY ChannelAssumption DEF Init
    <3> QED BY <3>1, <3>2, <3>3 DEF Init, Typed, TypeOK
  <2>2. Consumed = 0 /\ Len(cmdq) = 0 /\ sent = 0 /\ Len(handled) = 0
    <3>1. Len(cmdq) = 0 /\ sent = 0 /\ Len(handled) = 0
      BY DEF Init
    <3> QED BY <3>1 DEF Consumed
  <2>3. CmdsInOrder
    BY <2>2 DEF CmdsInOrder
  <2>4. PyOrder
    BY <2>2 DEF Init, PyOrder, Increasing
  <2>5. COrder
    BY <2>2 DEF Init, COrder, Answering
  <2> QED BY <2>1, <2>3, <2>4, <2>5 DEF CommandsInv
<1>2. CommandsInv /\ [Next]_vars => CommandsInv'
  BY TypedStep, CmdsStep, PyStep, CStep DEF CommandsInv
<1> QED BY <1>1, <1>2, PTL DEF Spec

(* The Python bridge executes no command twice and none out of order; the  *)
(* C bridge skips no command that left the ring and repeats at most the    *)
(* one it was at: for any ring size and any number of commands and         *)
(* crashes, whatever the kernel and its interrupt do meanwhile.            *)
THEOREM CommandsAreKept == Spec => []CommandsKept
<1>1. CommandsInv => CommandsKept
  <2> SUFFICES ASSUME CommandsInv PROVE CommandsKept
    OBVIOUS
  <2>1. AtMostOnce
    BY DEF CommandsInv, PyOrder, AtMostOnce
  <2>2. AtLeastOnce
    <3> SUFFICES ASSUME bridge = "c" PROVE AtLeastOnce
      BY DEF AtLeastOnce
    <3>0. /\ Len(cmdq) \in Nat /\ sent \in Nat /\ Consumed = sent - Len(cmdq)
          /\ Consumed \in Nat
          /\ DOMAIN cmdq = 1 .. Len(cmdq) /\ DOMAIN handled = 1 .. Len(handled)
      BY ChannelAssumption
         DEF CommandsInv, Typed, TypeOK, CmdsInOrder, Consumed
    <3>1. ASSUME NEW c \in 1 .. sent PROVE c \in ToSet(cmdq) \/ c \in ToSet(handled)
      <4>1. CASE c \in 1 .. Consumed
        BY <3>0, <4>1 DEF CommandsInv, COrder, ToSet
      <4>2. CASE c > Consumed
        <5>1. c - Consumed \in 1 .. Len(cmdq)
          BY <3>0, <4>2
        <5>2. cmdq[c - Consumed] = Consumed + (c - Consumed)
          BY <5>1 DEF CommandsInv, CmdsInOrder
        <5>3. cmdq[c - Consumed] = c
          BY <3>0, <5>2
        <5> QED BY <3>0, <5>1, <5>3 DEF ToSet
      <4> QED BY <3>0, <4>1, <4>2
    <3>2. \A i \in 1 .. (Len(handled) - 1) : handled[i + 1] - handled[i] \in {0, 1}
      BY DEF CommandsInv, COrder
    <3> QED BY <3>1, <3>2 DEF AtLeastOnce
  <2> QED BY <2>1, <2>2 DEF CommandsKept
<1> QED BY <1>1, CommandsInvariant, PTL
-----------------------------------------------------------------------------
(* The ring as a sequence.                                                 *)
JoinedWords(N, f, g) == [i \in 0 .. (N - 1) |-> Joined(f[i], g[i])]
RingWords(N, h, t, f, g) ==
  [i \in 1 .. RingCount(N, h, t) |-> Joined(f[(t + i - 1) % N], g[(t + i - 1) % N])]

LEMMA RingOfWords ==
  ASSUME NEW N \in Nat \ {0, 1}, NEW h \in 0 .. (N - 1), NEW t \in 0 .. (N - 1),
         NEW f, NEW g
  PROVE  RingWords(N, h, t, f, g) = RingSeq(N, h, t, JoinedWords(N, f, g))
<1> DEFINE n == RingCount(N, h, t)
           w == JoinedWords(N, f, g)
<1>1. n \in 0 .. (N - 1)
  BY RingCountIs
<1>2. ASSUME NEW i \in 1 .. n
      PROVE  Joined(f[(t + i - 1) % N], g[(t + i - 1) % N]) = w[(t + i - 1) % N]
  <2>1. t + i - 1 \in 0 .. (2 * N - 1)
    <3> HIDE DEF n
    <3> QED BY <1>1, <1>2
  <2>2. (t + i - 1) % N \in 0 .. (N - 1)
    BY <2>1, RingMod
  <2> QED BY <2>2 DEF JoinedWords
<1> HIDE DEF w
<1>3. [i \in 1 .. n |-> Joined(f[(t + i - 1) % N], g[(t + i - 1) % N])]
        = [i \in 1 .. n |-> w[(t + i - 1) % N]]
  <2> HIDE DEF n
  <2> QED BY <1>2
<1> QED BY <1>3 DEF RingWords, RingSeq, w

LEMMA InRingIs ==
  ASSUME Typed
  PROVE  /\ InRing = RingSeq(RspSize, rhead, rtail, Wholes)
         /\ Wholes \in [0 .. (RspSize - 1) -> Cmds]
         /\ InRing \in Seq(Cmds) /\ Base \in Seq(Cmds)
<1>1. /\ RspSize \in Nat \ {0, 1} /\ Slots = 0 .. (RspSize - 1)
      /\ rhead \in 0 .. (RspSize - 1) /\ rtail \in 0 .. (RspSize - 1)
      /\ taken \in Seq(Cmds)
  BY ChannelAssumption DEF Typed, TypeOK, Slots
<1>2. Wholes \in [0 .. (RspSize - 1) -> Cmds]
  <2>1. \A i \in Slots : rfirst[i] \in Cmds /\ rsecond[i] \in Cmds
    BY DEF Typed, TypeOK, Cmds
  <2>2. \A i \in Slots : WholeAt(i) \in Cmds
    BY <2>1, JoinedTyped DEF WholeAt
  <2> QED BY <1>1, <2>2 DEF Wholes
<1>3. InRing = RingSeq(RspSize, rhead, rtail, Wholes)
  <2>1. InRing = RingWords(RspSize, rhead, rtail, rfirst, rsecond)
    BY DEF InRing, RingWords, RingCount
  <2>2. Wholes = JoinedWords(RspSize, rfirst, rsecond)
    BY <1>1 DEF Wholes, WholeAt, JoinedWords
  <2> QED BY <1>1, <2>1, <2>2, RingOfWords
<1>4. InRing \in Seq(Cmds)
  BY <1>1, <1>2, <1>3, RingSeqType
<1> QED BY <1>1, <1>2, <1>3, <1>4, ConcatProperties DEF Base

(* The same of the next state.                                             *)
LEMMA InRingNext ==
  ASSUME Typed'
  PROVE  InRing' = RingSeq(RspSize, rhead', rtail', Wholes')
<1> DEFINE h == rhead'
           t == rtail'
           f == rfirst'
           g == rsecond'
<1>1. RspSize \in Nat \ {0, 1} /\ Slots = 0 .. (RspSize - 1)
  BY ChannelAssumption DEF Slots
<1>2. h \in 0 .. (RspSize - 1) /\ t \in 0 .. (RspSize - 1)
  BY <1>1 DEF Typed, TypeOK
<1>3. InRing' = RingWords(RspSize, h, t, f, g)
  BY DEF InRing, RingWords, RingCount
<1>4. Wholes' = JoinedWords(RspSize, f, g)
  BY <1>1 DEF Wholes, WholeAt, JoinedWords
<1> HIDE DEF h, t, f, g
<1>5. RingWords(RspSize, h, t, f, g) = RingSeq(RspSize, h, t, JoinedWords(RspSize, f, g))
  BY <1>1, <1>2, RingOfWords
<1> QED BY <1>3, <1>4, <1>5 DEF h, t, f, g

(* What the words that are copied and written belong to, step by step.     *)
LEMMA OwnStep ==
  ASSUME Typed, PollOwn, WriteOwn, [Next]_vars
  PROVE  PollOwn' /\ WriteOwn'
<1>0. /\ rhead \in Slots /\ rtail \in Slots /\ NextRsp(rhead) # rhead
      /\ rfirst \in [Slots -> Cmds] /\ rsecond \in [Slots -> Cmds]
      /\ \A i \in Slots : \A j \in Slots : NextRsp(i) = NextRsp(j) => i = j
  <2>1. RspSize \in Nat \ {0, 1} /\ Slots = 0 .. (RspSize - 1)
    BY ChannelAssumption DEF Slots
  <2>2. ASSUME NEW i \in Slots, NEW j \in Slots, NextRsp(i) = NextRsp(j)
        PROVE  i = j
    BY <2>1, <2>2, NextRspIs
  <2> QED BY <2>2, NextRspIs DEF Typed, TypeOK, Cmds
<1> USE DEF setup, cmdVars, slotVars, pollVars, consumedVars, kernelVars, bridgeVars
<1>1. CASE PollRun
  <2>1. CASE PollHead \/ PollTail \/ PollEmpty
    BY <2>1 DEF PollHead, PollTail, PollEmpty, PollOwn, WriteOwn
  <2>2. CASE PollFirst \/ PollSecond
    BY <2>2 DEF PollFirst, PollSecond, PollOwn, WriteOwn, WholeAt
  <2>3. CASE PollAdvance
    <3>1. /\ rtail' = NextRsp(mtail) /\ mpc = "advance" /\ mpc' = "idle"
          /\ UNCHANGED <<raced, bpc, bcmd, rhead, rfirst, rsecond>>
      BY <2>3 DEF PollAdvance
    <3>2. ~raced => rtail' = NextRsp(rtail) /\ rhead # rtail
      BY <3>1 DEF PollOwn
    <3> QED BY <1>0, <3>1, <3>2 DEF PollOwn, WriteOwn
  <2> QED BY <1>1, <2>1, <2>2, <2>3 DEF PollRun
<1>2. CASE IrqDrain
  <2>1. /\ rtail' = NextRsp(rtail) /\ rhead # rtail /\ raced' = (raced \/ mpc # "idle")
        /\ UNCHANGED <<mpc, bpc, bcmd, rhead, rfirst, rsecond>>
    BY <1>2 DEF IrqDrain
  <2>2. ~raced' => ~raced /\ mpc = "idle"
    BY <2>1
  <2>3. NextRsp(rhead) # rtail'
    BY <1>0, <2>1
  <2>4. PollOwn'
    BY <2>1, <2>2 DEF PollOwn
  <2>5. WriteOwn'
    BY <2>1, <2>2, <2>3 DEF WriteOwn
  <2> QED BY <2>4, <2>5
<1>3. CASE Responding
  <2>1. CASE BridgeRespond
    BY <2>1 DEF BridgeRespond, PollOwn, WriteOwn, WholeAt
  <2>2. CASE BridgeFirst
    <3>1. /\ bpc = "write" /\ bpc' = "second" /\ rfirst'[rhead] = bcmd
          /\ \A i \in Slots : i # rhead => rfirst'[i] = rfirst[i]
          /\ UNCHANGED <<raced, bcmd, rhead, rtail, rsecond, mpc, mhead, mtail, mrsp>>
      BY <1>0, <2>2 DEF BridgeFirst
    <3>2. rhead # rtail => WholeAt(rtail)' = WholeAt(rtail) /\ rfirst'[rtail] = rfirst[rtail]
      BY <1>0, <3>1 DEF WholeAt
    <3> QED BY <3>1, <3>2 DEF PollOwn, WriteOwn
  <2>3. CASE BridgeSecond
    <3>1. /\ bpc = "second" /\ bpc' = "publish" /\ rsecond'[rhead] = bcmd
          /\ \A i \in Slots : i # rhead => rsecond'[i] = rsecond[i]
          /\ UNCHANGED <<raced, bcmd, rhead, rtail, rfirst, mpc, mhead, mtail, mrsp>>
      BY <1>0, <2>3 DEF BridgeSecond
    <3>2. rhead # rtail => WholeAt(rtail)' = WholeAt(rtail)
      BY <1>0, <3>1 DEF WholeAt
    <3> QED BY <3>1, <3>2 DEF PollOwn, WriteOwn
  <2>4. CASE BridgePublish
    <3>1. /\ bpc = "publish" /\ bpc' \in {"idle", "advance"} /\ rhead' = NextRsp(rhead)
          /\ UNCHANGED <<raced, rtail, rfirst, rsecond, mpc, mhead, mtail, mrsp>>
      BY <2>4 DEF BridgePublish, AfterAnswer
    <3>2. ~raced => rhead' # rtail
      BY <3>1 DEF WriteOwn
    <3>3. WriteOwn'
      BY <3>1 DEF WriteOwn
    <3> QED BY <3>1, <3>2, <3>3 DEF PollOwn, WholeAt
  <2> QED BY <1>3, <2>1, <2>2, <2>3, <2>4 DEF Responding
<1>4. CASE ~PollRun /\ ~IrqDrain /\ ~Responding
  <2>1. /\ UNCHANGED <<raced, rhead, rtail, rfirst, rsecond, mpc, mhead, mtail, mrsp>>
        /\ bpc' \in {"idle", "handle", "respond", "advance"} \/ UNCHANGED <<bpc, bcmd>>
    BY <1>4 DEF AfterAnswer, Next, KernelIrq, BridgeRun, Send, IrqEnter, IrqReturn,
       BridgePoll, BridgeHandle, BridgeDrop, BridgeAdvance, BridgeRestart, vars
  <2> QED BY <2>1 DEF PollOwn, WriteOwn, WholeAt
<1> QED BY <1>1, <1>2, <1>3, <1>4

(* A response consumed at the tail leaves the order of what was and will   *)
(* be consumed as it is.                                                   *)
LEMMA BaseConsumes ==
  ASSUME Typed, Typed', rhead # rtail, rtail' = NextRsp(rtail),
         taken' = Append(taken, WholeAt(rtail)), UNCHANGED <<rhead, rfirst, rsecond>>
  PROVE  Base' = Base
<1>0. /\ RspSize \in Nat \ {0, 1}
      /\ rhead \in 0 .. (RspSize - 1) /\ rtail \in 0 .. (RspSize - 1)
      /\ taken \in Seq(Cmds) /\ rtail \in Slots /\ rtail' \in Slots
  BY ChannelAssumption, NextRspIs DEF Typed, TypeOK, Slots
<1>1. /\ InRing = RingSeq(RspSize, rhead, rtail, Wholes)
      /\ Wholes \in [0 .. (RspSize - 1) -> Cmds]
      /\ InRing \in Seq(Cmds)
  BY InRingIs
<1>2. /\ InRing # << >> /\ Head(InRing) = Wholes[rtail]
      /\ RingSeq(RspSize, rhead, RingNext(RspSize, rtail), Wholes) = Tail(InRing)
  BY <1>0, <1>1, RingRemoves
<1>3. InRing' = RingSeq(RspSize, rhead, rtail', Wholes)
  <2>1. Wholes' = Wholes
    BY DEF Wholes, WholeAt
  <2> QED BY <2>1, InRingNext
<1>4. InRing' = Tail(InRing)
  BY <1>0, <1>2, <1>3, NextRspIs
<1>5. Wholes[rtail] = WholeAt(rtail)
  BY <1>0 DEF Wholes
<1>6. Base' = Append(taken, Head(InRing)) \o Tail(InRing)
  BY <1>2, <1>4, <1>5 DEF Base
<1> QED BY <1>0, <1>1, <1>2, <1>6, ConcatShift DEF Base

(* Until a race, what the kernel has consumed and will consume changes     *)
(* only when the bridge publishes a response.                              *)
LEMMA BaseStep ==
  ASSUME Typed, PollOwn, WriteOwn, Typed', ~raced', [Next]_vars
  PROVE  Base' = IF BridgePublish THEN Append(Base, bcmd) ELSE Base
<1>0. /\ RspSize \in Nat \ {0, 1} /\ rhead \in Slots /\ rtail \in Slots
      /\ rhead \in 0 .. (RspSize - 1) /\ rtail \in 0 .. (RspSize - 1)
      /\ taken \in Seq(Cmds) /\ bcmd \in Cmds
      /\ NextRsp(rhead) # rhead /\ NextRsp(rhead) = RingNext(RspSize, rhead)
      /\ BridgePublish => rhead' # rhead
  BY ChannelAssumption, NextRspIs DEF Typed, TypeOK, Slots, Cmds, BridgePublish
<1>1. /\ InRing = RingSeq(RspSize, rhead, rtail, Wholes)
      /\ InRing' = RingSeq(RspSize, rhead', rtail', Wholes')
      /\ Wholes \in [0 .. (RspSize - 1) -> Cmds]
      /\ InRing \in Seq(Cmds)
  BY InRingIs, InRingNext
<1> USE DEF setup, cmdVars, slotVars, pollVars, consumedVars, kernelVars, bridgeVars
<1>2. CASE PollAdvance
  <2>1. /\ mpc = "advance" /\ ~raced /\ rtail' = NextRsp(mtail)
        /\ taken' = Append(taken, mrsp)
        /\ UNCHANGED <<rhead, rfirst, rsecond>>
    BY <1>2 DEF PollAdvance
  <2>2. mtail = rtail /\ rhead # rtail /\ mrsp = WholeAt(rtail)
    BY <2>1 DEF PollOwn
  <2> QED BY <1>0, <2>1, <2>2, BaseConsumes
<1>3. CASE IrqDrain
  <2>1. /\ rhead # rtail /\ rtail' = NextRsp(rtail)
        /\ taken' = Append(taken, WholeAt(rtail))
        /\ UNCHANGED <<rhead, rfirst, rsecond>>
    BY <1>3 DEF IrqDrain, WholeAt
  <2> QED BY <1>0, <2>1, BaseConsumes
<1>4. CASE BridgeFirst \/ BridgeSecond
  <2>1. /\ UNCHANGED <<rhead, rtail, taken>>
        /\ \A i \in Slots : i # rhead => rfirst'[i] = rfirst[i] /\ rsecond'[i] = rsecond[i]
    BY <1>4 DEF BridgeFirst, BridgeSecond, Typed, TypeOK
  <2>2. \A j \in (0 .. (RspSize - 1)) \ {rhead} : Wholes'[j] = Wholes[j]
    BY <2>1 DEF Wholes, WholeAt, Slots
  <2> DEFINE r == Wholes'
  <2>3. \A j \in (0 .. (RspSize - 1)) \ {rhead} : r[j] = Wholes[j]
    BY <2>2
  <2> HIDE DEF r
  <2>4. RingSeq(RspSize, rhead, rtail, r) = RingSeq(RspSize, rhead, rtail, Wholes)
    BY <1>0, <2>3, RingWriteKeeps
  <2>5. InRing' = InRing
    BY <1>1, <2>1, <2>4 DEF r
  <2> QED BY <1>0, <2>1, <2>5 DEF Base
<1>5. CASE BridgePublish
  <2>1. /\ rhead' = NextRsp(rhead) /\ bpc = "publish"
        /\ UNCHANGED <<rtail, rfirst, rsecond, taken, raced>>
    BY <1>5 DEF BridgePublish
  <2>2. RingNext(RspSize, rhead) # rtail /\ Wholes[rhead] = bcmd
    BY <1>0, <2>1 DEF WriteOwn, Wholes, WholeAt, Joined
  <2>3. RingSeq(RspSize, RingNext(RspSize, rhead), rtail, Wholes)
          = Append(RingSeq(RspSize, rhead, rtail, Wholes), Wholes[rhead])
    BY <1>0, <1>1, <2>2, RingAppends
  <2>4. Wholes' = Wholes
    BY <2>1 DEF Wholes, WholeAt
  <2>5. InRing' = Append(InRing, bcmd)
    BY <1>0, <1>1, <2>1, <2>2, <2>3, <2>4
  <2>6. taken \o Append(InRing, bcmd) = Append(taken \o InRing, bcmd)
    BY <1>0, <1>1, ConcatAppend
  <2> QED BY <1>5, <2>1, <2>5, <2>6 DEF Base
<1>6. CASE ~PollAdvance /\ ~IrqDrain /\ ~BridgeFirst /\ ~BridgeSecond /\ ~BridgePublish
  <2>1. UNCHANGED <<taken, rhead, rtail, rfirst, rsecond>>
    BY <1>6 DEF Next, PollRun, KernelIrq, BridgeRun, Responding, Send, PollHead,
       PollTail, PollEmpty, PollFirst, PollSecond, PollAdvance, IrqEnter,
       IrqDrain, IrqReturn, BridgePoll, BridgeHandle, BridgeRespond,
       BridgeFirst, BridgeSecond, BridgePublish, BridgeDrop, BridgeAdvance,
       BridgeRestart, vars
  <2> QED BY <1>6, <2>1 DEF Base, InRing
<1> QED BY <1>2, <1>3, <1>4, <1>5, <1>6

(* A larger element at the end keeps a sequence increasing.                *)
LEMMA IncreasingAppend ==
  ASSUME NEW s \in Seq(Cmds), NEW e \in Cmds, Increasing(s),
         \A x \in ToSet(s) : x < e
  PROVE  Increasing(Append(s, e))
<1> DEFINE a == Append(s, e)
<1>1. /\ a \in Seq(Cmds) /\ Len(a) = Len(s) + 1 /\ Len(s) \in Nat
      /\ \A i \in 1 .. Len(s) : a[i] = s[i]
      /\ a[Len(s) + 1] = e
  BY AppendProperties, LenProperties
<1>2. DOMAIN s = 1 .. Len(s) /\ DOMAIN a = 1 .. (Len(s) + 1)
  BY <1>1, LenProperties
<1> HIDE DEF a
<1>3. ASSUME NEW i \in 1 .. (Len(s) + 1), NEW j \in 1 .. (Len(s) + 1), i < j
      PROVE  a[i] < a[j]
  <2>1. i \in 1 .. Len(s) /\ a[i] = s[i] /\ s[i] \in ToSet(s)
    BY <1>1, <1>2, <1>3 DEF ToSet
  <2>2. CASE j \in 1 .. Len(s)
    BY <1>1, <1>2, <1>3, <2>1, <2>2 DEF Increasing
  <2>3. CASE j = Len(s) + 1
    BY <1>1, <2>1, <2>3
  <2> QED BY <1>1, <2>2, <2>3
<1> QED BY <1>2, <1>3 DEF Increasing, a

(* What is consumed was executed.                                          *)
LEMMA ExecutedStep ==
  ASSUME ResponsesInv, CommandsInv', [Next]_vars
  PROVE  Executed'
<1>0. Typed /\ Typed' /\ PollOwn /\ WriteOwn /\ Executed
  BY DEF ResponsesInv, CommandsInv
<1>1. ~raced' => Base' = IF BridgePublish THEN Append(Base, bcmd) ELSE Base
  BY <1>0, BaseStep
<1>2. /\ ToSet(handled) \subseteq ToSet(handled')
      /\ BridgeHandle => ToSet(handled') = ToSet(handled) \cup {bcmd}
  <2>1. BridgeHandle => ToSet(handled') = ToSet(handled) \cup {bcmd}
    BY <1>0, HandledStep
  <2>2. ~BridgeHandle => handled' = handled
    BY DEF bridgeVars, Next, PollRun, KernelIrq, BridgeRun, Responding, Send, PollHead,
       PollTail, PollEmpty, PollFirst, PollSecond, PollAdvance, IrqEnter,
       IrqDrain, IrqReturn, BridgePoll, BridgeHandle, BridgeRespond,
       BridgeFirst, BridgeSecond, BridgePublish, BridgeDrop, BridgeAdvance,
       BridgeRestart, vars
  <2> QED BY <2>1, <2>2
<1>3. /\ raced => raced'
      /\ Answering' => bcmd' = bcmd /\ (Answering \/ BridgeHandle)
  <2> USE DEF setup, cmdVars, slotVars, pollVars, consumedVars, kernelVars, bridgeVars
  <2>1. raced => raced'
    BY DEF Next, PollRun, KernelIrq, BridgeRun, Responding, Send, PollHead,
       PollTail, PollEmpty, PollFirst, PollSecond, PollAdvance, IrqEnter,
       IrqDrain, IrqReturn, BridgePoll, BridgeHandle, BridgeRespond,
       BridgeFirst, BridgeSecond, BridgePublish, BridgeDrop, BridgeAdvance,
       BridgeRestart, vars
  <2>2. ASSUME Answering' PROVE bcmd' = bcmd /\ (Answering \/ BridgeHandle)
    <3>1. CASE BridgeRun \/ BridgeRestart
      BY <2>2, <3>1 DEF Answering, AfterAnswer, BridgeRun, Responding, BridgePoll,
         BridgeHandle, BridgeRespond, BridgeFirst, BridgeSecond, BridgePublish, BridgeDrop,
         BridgeAdvance, BridgeRestart
    <3>2. CASE ~BridgeRun /\ ~BridgeRestart
      <4>1. UNCHANGED <<bpc, bcmd>>
        BY <3>2 DEF Next, PollRun, KernelIrq, Send, PollHead, PollTail, PollEmpty,
           PollFirst, PollSecond, PollAdvance, IrqEnter, IrqDrain, IrqReturn, vars
      <4> QED BY <2>2, <4>1 DEF Answering
    <3> QED BY <3>1, <3>2
  <2> QED BY <2>1, <2>2
<1>4. Answering' => bcmd' \in ToSet(handled')
  BY <1>0, <1>2, <1>3 DEF Executed
<1>5. ASSUME ~raced' PROVE ToSet(Base') \subseteq ToSet(handled')
  <2>1. ~raced /\ ToSet(Base) \subseteq ToSet(handled)
    BY <1>0, <1>3, <1>5 DEF Executed
  <2>2. CASE BridgePublish
    <3>1. Answering
      BY <2>2 DEF BridgePublish, Answering
    <3>2. ToSet(Base') = ToSet(Base) \cup {bcmd}
      <4>1. Base \in Seq(Cmds) /\ bcmd \in Cmds
        BY <1>0, InRingIs DEF Typed, TypeOK, Cmds
      <4>2. Base' = Append(Base, bcmd)
        BY <1>1, <1>5, <2>2
      <4>3. ToSet(Append(Base, bcmd)) = ToSet(Base) \cup {bcmd}
        BY <4>1, AppendToSet
      <4> QED BY <4>2, <4>3
    <3> QED BY <1>0, <1>2, <2>1, <3>1, <3>2 DEF Executed
  <2>3. CASE ~BridgePublish
    BY <1>1, <1>2, <1>5, <2>1, <2>3
  <2> QED BY <2>2, <2>3
<1> QED BY <1>4, <1>5 DEF Executed

(* Every step keeps every response in exactly one place.                   *)
LEMMA PlacedStep ==
  ASSUME ResponsesInv, CommandsInv', [Next]_vars
  PROVE  AnswersPlaced'
<1>a. Typed /\ PyOrder /\ COrder /\ CmdsInOrder /\ Typed' /\ PollOwn /\ WriteOwn
  BY DEF ResponsesInv, CommandsInv
<1>b. bridge' = bridge /\ (raced => raced')
  <2> USE DEF setup, cmdVars, slotVars, pollVars, consumedVars, kernelVars, bridgeVars
  <2>1. bridge' = bridge
    BY DEF Next, PollRun, KernelIrq, BridgeRun, Responding, Send, PollHead,
       PollTail, PollEmpty, PollFirst, PollSecond, PollAdvance, IrqEnter,
       IrqDrain, IrqReturn, BridgePoll, BridgeHandle, BridgeRespond,
       BridgeFirst, BridgeSecond, BridgePublish, BridgeDrop, BridgeAdvance,
       BridgeRestart, vars
  <2>2. raced => raced'
    BY DEF Next, PollRun, KernelIrq, BridgeRun, Responding, Send, PollHead,
       PollTail, PollEmpty, PollFirst, PollSecond, PollAdvance, IrqEnter,
       IrqDrain, IrqReturn, BridgePoll, BridgeHandle, BridgeRespond,
       BridgeFirst, BridgeSecond, BridgePublish, BridgeDrop, BridgeAdvance,
       BridgeRestart, vars
  <2> QED BY <2>1, <2>2
<1> SUFFICES ASSUME bridge = "py", ~raced, ~raced' PROVE AnswersPlaced'
  BY <1>b DEF AnswersPlaced
<1>0. /\ Consumed \in Nat /\ ~BridgeAdvance
      /\ Consumed' = IF BridgePoll THEN Consumed + 1 ELSE Consumed
  BY <1>a, CmdsStep DEF PyOrder, BridgeAdvance
<1>1. Base' = IF BridgePublish THEN Append(Base, bcmd) ELSE Base
  BY <1>a, BaseStep
<1>2. /\ Base \in Seq(Cmds) /\ bcmd \in Cmds
      /\ \A x \in lost \cup dropped : x \in Nat
  <2>1. Base \in Seq(Cmds)
    BY <1>a, InRingIs
  <2>2. bcmd \in Cmds /\ lost \subseteq 1 .. MaxCmds /\ dropped \subseteq 1 .. MaxCmds
    BY <1>a DEF Typed, TypeOK, Cmds
  <2> QED BY <2>1, <2>2
<1>3. /\ Increasing(Base)
      /\ ToSet(Base) \cup dropped \subseteq ToSet(handled)
      /\ ToSet(handled) \subseteq ToSet(Base) \cup dropped \cup lost \cup Pending
      /\ ToSet(Base) \cap (dropped \cup lost) = {}
      /\ \A x \in lost : x <= Consumed /\ (bpc # "idle" => x < Consumed)
      /\ Answering => \A x \in ToSet(Base) \cup dropped \cup lost : x < bcmd
      /\ Answering => bcmd \in ToSet(handled)
      /\ bpc # "idle" => bcmd = Consumed
  BY <1>a DEF ResponsesInv, AnswersPlaced, PyOrder, Executed
<1>4. bpc = "handle" => \A x \in ToSet(handled) : x < Consumed
  <2>1. DOMAIN handled = 1 .. Len(handled)
    BY <1>a DEF Typed
  <2> QED BY <1>a, <2>1 DEF PyOrder, ToSet
<1> USE DEF setup, cmdVars, slotVars, pollVars, consumedVars, kernelVars, bridgeVars
<1>5. CASE BridgePoll
  <2>1. /\ UNCHANGED <<handled, dropped, lost, Base>> /\ bpc = "idle" /\ bpc' = "handle"
        /\ Consumed' = Consumed + 1
    BY <1>0, <1>1, <1>5 DEF BridgePoll, BridgePublish
  <2>2. \A x \in lost : x <= Consumed + 1 /\ x < Consumed + 1
    BY <1>0, <1>2, <1>3
  <2>3. Pending = {} /\ ~Answering'
    BY <2>1 DEF Pending, Answering
  <2> QED BY <1>3, <2>1, <2>2, <2>3 DEF AnswersPlaced
<1>6. CASE BridgeHandle
  <2>1. /\ UNCHANGED <<dropped, lost, Base, bcmd>> /\ bpc = "handle" /\ bpc' = "respond"
        /\ Consumed' = Consumed /\ bcmd = Consumed
    BY <1>0, <1>1, <1>3, <1>6 DEF BridgeHandle, BridgePublish, BridgePoll
  <2>2. ToSet(handled') = ToSet(handled) \cup {bcmd}
    BY <1>6, <1>a, HandledStep
  <2>3. Pending' = {bcmd} /\ Pending = {}
    BY <2>1 DEF Pending, Answering
  <2>4. \A x \in ToSet(Base) \cup dropped \cup lost : x < bcmd
    BY <1>3, <1>4, <2>1
  <2> QED BY <1>3, <2>1, <2>2, <2>3, <2>4 DEF AnswersPlaced
<1>7. CASE BridgePublish
  <2>1. /\ UNCHANGED <<handled, dropped, lost>> /\ bpc = "publish" /\ bpc' = "idle"
        /\ Consumed' = Consumed /\ Base' = Append(Base, bcmd) /\ Answering
    BY <1>0, <1>1, <1>7 DEF BridgePublish, BridgePoll, AfterAnswer, Answering
  <2>2. ToSet(Base') = ToSet(Base) \cup {bcmd}
    BY <1>2, <2>1, AppendToSet
  <2>3. Increasing(Base')
    BY <1>2, <1>3, <2>1, IncreasingAppend
  <2>4. bcmd \notin dropped \cup lost
    BY <1>2, <1>3, <2>1
  <2>5. Pending = {bcmd} /\ ~Answering'
    BY <2>1 DEF Pending, Answering
  <2> QED BY <1>3, <2>1, <2>2, <2>3, <2>4, <2>5 DEF AnswersPlaced
<1>8. CASE BridgeDrop
  <2>1. /\ UNCHANGED <<handled, lost>> /\ bpc = "respond" /\ bpc' = "idle"
        /\ Consumed' = Consumed /\ Base' = Base /\ dropped' = dropped \cup {bcmd}
        /\ Answering
    <3>1. ~BridgePublish /\ ~BridgePoll
      BY <1>8 DEF BridgeDrop, BridgePublish, BridgePoll
    <3> QED BY <1>0, <1>1, <1>8, <3>1 DEF BridgeDrop, AfterAnswer, Answering
  <2>2. bcmd \notin ToSet(Base)
    BY <1>2, <1>3, <2>1, ChannelAssumption DEF Cmds
  <2>3. Pending = {bcmd} /\ ~Answering'
    BY <2>1 DEF Pending, Answering
  <2> QED BY <1>3, <2>1, <2>2, <2>3 DEF AnswersPlaced
<1>9. CASE BridgeRestart
  <2>1. /\ UNCHANGED <<handled, dropped>> /\ bpc # "idle" /\ bpc' = "idle"
        /\ Consumed' = Consumed /\ Base' = Base /\ lost' = lost \cup {bcmd}
    <3>1. ~BridgePublish /\ ~BridgePoll
      <4>1. BridgePublish => rhead' # rhead
        <5>1. rhead \in Slots
          BY <1>a DEF Typed, TypeOK
        <5> QED BY <5>1, NextRspIs DEF BridgePublish
      <4>2. rhead' = rhead /\ bpc' = "idle" /\ bpc # "idle"
        BY <1>9 DEF BridgeRestart
      <4> QED BY <4>1, <4>2 DEF BridgePoll
    <3> QED BY <1>0, <1>1, <1>9, <3>1 DEF BridgeRestart
  <2>2. bpc # "advance" /\ (Answering \/ bpc = "handle") /\ bcmd = Consumed
    BY <1>a, <1>3, <2>1 DEF PyOrder, Typed, TypeOK, Answering
  <2>3. bcmd \notin ToSet(Base)
    BY <1>2, <1>3, <1>4, <2>2, ChannelAssumption DEF Cmds
  <2>4. Pending \subseteq {bcmd} /\ ~Answering'
    BY <2>1 DEF Pending, Answering
  <2>5. \A x \in lost \cup {bcmd} : x <= Consumed
    BY <1>0, <1>3, <2>2
  <2>6. /\ ToSet(handled) \subseteq ToSet(Base) \cup dropped \cup (lost \cup {bcmd})
        /\ ToSet(Base) \cap (dropped \cup (lost \cup {bcmd})) = {}
    BY <1>3, <2>3, <2>4
  <2> QED BY <1>3, <2>1, <2>4, <2>5, <2>6 DEF AnswersPlaced
<1>10. CASE /\ ~BridgePoll /\ ~BridgeHandle /\ ~BridgePublish /\ ~BridgeDrop
            /\ ~BridgeRestart
  <2>1. /\ UNCHANGED <<handled, dropped, lost, bcmd, Base, Consumed, Answering>>
        /\ bpc' = "idle" <=> bpc = "idle"
    BY <1>0, <1>1, <1>10 DEF Answering,
       Next, PollRun, KernelIrq, BridgeRun, Responding, Send, PollHead,
       PollTail, PollEmpty, PollFirst, PollSecond, PollAdvance, IrqEnter,
       IrqDrain, IrqReturn, BridgePoll, BridgeHandle, BridgeRespond,
       BridgeFirst, BridgeSecond, BridgePublish, BridgeDrop, BridgeAdvance,
       BridgeRestart, vars
  <2>2. Pending' = Pending
    BY <2>1 DEF Pending
  <2> QED BY <1>3, <2>1, <2>2 DEF AnswersPlaced
<1> QED BY <1>5, <1>6, <1>7, <1>8, <1>9, <1>10

LEMMA ResponsesInvariant == Spec => []ResponsesInv
<1>1. Init /\ CommandsInv => ResponsesInv
  <2> SUFFICES ASSUME Init, CommandsInv PROVE ResponsesInv
    OBVIOUS
  <2>1. InRing = << >>
    <3>1. RspSize \in Nat \ {0, 1} /\ 0 \in 0 .. (RspSize - 1)
      BY ChannelAssumption
    <3>2. RingCount(RspSize, 0, 0) = 0
      BY <3>1, RingCountIs
    <3> QED BY <3>2 DEF Init, InRing, RingCount
  <2>2. Base = << >> /\ ToSet(<< >>) = {} /\ Increasing(<< >>)
    BY <2>1 DEF Init, Base, ToSet, Increasing
  <2>3. PollOwn /\ WriteOwn
    BY DEF Init, PollOwn, WriteOwn
  <2>4. Executed /\ AnswersPlaced
    BY <2>2 DEF Init, Executed, AnswersPlaced, Answering
  <2> QED BY <2>3, <2>4 DEF ResponsesInv
<1>2. ResponsesInv /\ CommandsInv' /\ [Next]_vars => ResponsesInv'
  <2> SUFFICES ASSUME ResponsesInv, CommandsInv', [Next]_vars PROVE ResponsesInv'
    OBVIOUS
  <2>1. Executed' /\ AnswersPlaced'
    BY ExecutedStep, PlacedStep
  <2>2. PollOwn' /\ WriteOwn'
    BY OwnStep DEF ResponsesInv, CommandsInv
  <2> QED BY <2>1, <2>2 DEF ResponsesInv
<1> QED BY <1>1, <1>2, CommandsInvariant, PTL DEF Spec

(* For any ring size and any number of commands and crashes, and for both  *)
(* consumers of the response ring: until the interrupt consumes a response *)
(* inside an ipc_poll_response of the main context, the kernel receives    *)
(* only whole responses that the bridge wrote, and with the bridge that    *)
(* executes each command once every response is in one place, in order.    *)
THEOREM ResponsesAreKept == Spec => []ResponsesKept
<1>1. ResponsesInv => ResponsesKept
  <2> SUFFICES ASSUME ResponsesInv PROVE ResponsesKept
    OBVIOUS
  <2>1. Typed /\ Executed
    BY DEF ResponsesInv, CommandsInv
  <2>2. /\ InRing \in Seq(Cmds) /\ taken \in Seq(Cmds) /\ Base \in Seq(Cmds)
        /\ bcmd \in Cmds
    BY <2>1, InRingIs DEF Typed, TypeOK, Cmds
  <2>3. ASSUME ~raced PROVE OnlyGenuine
    <3>1. ToSet(taken) \subseteq ToSet(Base)
      <4>1. ASSUME NEW x \in ToSet(taken) PROVE x \in ToSet(Base)
        <5>1. PICK i \in 1 .. Len(taken) : taken[i] = x
          BY <2>2 DEF ToSet
        <5>2. /\ Len(Base) = Len(taken) + Len(InRing) /\ Len(InRing) \in Nat
              /\ Len(taken) \in Nat /\ Base[i] = taken[i]
          BY <2>2, <5>1, ConcatProperties, LenProperties DEF Base
        <5>3. i \in 1 .. Len(Base) /\ DOMAIN Base = 1 .. Len(Base)
          BY <2>2, <5>1, <5>2, LenProperties
        <5> QED BY <5>1, <5>2, <5>3 DEF ToSet
      <4> QED BY <4>1
    <3> QED BY <2>1, <2>3, <3>1 DEF Executed, OnlyGenuine
  <2>4. Conserved
    <3> SUFFICES ASSUME bridge = "py", ~raced PROVE Conserved
      BY DEF Conserved
    <3> DEFINE onWay == InRing \o (IF Answering THEN <<bcmd>> ELSE << >>)
               all == taken \o onWay
    <3>1. /\ Increasing(Base)
          /\ ToSet(Base) \cup dropped \subseteq ToSet(handled)
          /\ ToSet(handled) \subseteq ToSet(Base) \cup dropped \cup lost \cup Pending
          /\ ToSet(Base) \cap (dropped \cup lost) = {}
          /\ Answering => \A x \in ToSet(Base) \cup dropped \cup lost : x < bcmd
      BY DEF ResponsesInv, AnswersPlaced, Executed
    <3>2. CASE Answering
      <4>1. all = Append(Base, bcmd)
        <5>1. onWay = Append(InRing, bcmd)
          BY <2>2, <3>2, AppendIsConcat
        <5>2. taken \o Append(InRing, bcmd) = Append(taken \o InRing, bcmd)
          BY <2>2, ConcatAppend
        <5> QED BY <5>1, <5>2 DEF Base
      <4>2. ToSet(all) = ToSet(Base) \cup {bcmd}
        <5> HIDE DEF all
        <5> QED BY <2>2, <4>1, AppendToSet
      <4>3. Increasing(all)
        BY <2>2, <3>1, <3>2, <4>1, IncreasingAppend
      <4>4. bcmd \in ToSet(handled) /\ Pending = {bcmd}
        BY <2>1, <3>2 DEF Executed, Pending
      <4>5. bcmd \notin dropped \cup lost
        BY <2>1, <3>1, <3>2, ChannelAssumption DEF Typed, TypeOK
      <4> HIDE DEF all
      <4>6. /\ Increasing(all)
            /\ ToSet(handled) \subseteq ToSet(all) \cup dropped \cup lost
            /\ ToSet(all) \cup dropped \subseteq ToSet(handled)
            /\ ToSet(all) \cap (dropped \cup lost) = {}
        BY <3>1, <4>2, <4>3, <4>4, <4>5
      <4> QED BY <4>6 DEF Conserved, all
    <3>3. CASE ~Answering
      <4>1. all = Base
        BY <2>2, <3>3, ConcatEmptySeq DEF Base
      <4>2. Pending = {}
        BY <3>3 DEF Pending
      <4> HIDE DEF all
      <4>3. /\ Increasing(all)
            /\ ToSet(handled) \subseteq ToSet(all) \cup dropped \cup lost
            /\ ToSet(all) \cup dropped \subseteq ToSet(handled)
            /\ ToSet(all) \cap (dropped \cup lost) = {}
        BY <3>1, <4>1, <4>2
      <4> QED BY <4>3 DEF Conserved, all
    <3> QED BY <3>2, <3>3
  <2> QED BY <2>1, <2>3, <2>4 DEF Typed, ResponsesKept
<1> QED BY <1>1, ResponsesInvariant, PTL

=============================================================================
