----------------------------- MODULE IpcChannel -----------------------------
(***************************************************************************)
(* The command and response rings with everybody who works on them: the    *)
(* kernel's main context (ipc_send, ipc_poll_response), the kernel's       *)
(* response interrupt (ipc_irq_handler) and one bridge process, either the *)
(* Python bridge, which consumes a command before it handles it, or the C  *)
(* bridge, which consumes it after it has answered it.                     *)
(*                                                                         *)
(* The command ring has one producer and one consumer, so it is the queue  *)
(* that module SpscRing shows it to be.  The response ring has two         *)
(* consumers, the main context and the interrupt that preempts it, so its  *)
(* indices and the words of its slots are modelled, and each access that   *)
(* the main context or the bridge makes to them is a step: the interrupt   *)
(* and the other side come between any two.  Two words stand for the four  *)
(* of a response.  The doorbell words are only statistics to the code on   *)
(* both sides: everybody polls the ring indices.                           *)
(*                                                                         *)
(* Commands are numbered in the order they are accepted; the number is a   *)
(* history value, a response on the wire only carries the command's code.  *)
(* 0 is the number of what no response of the bridge is: a word that was   *)
(* never written, or words of two responses in one copy.                   *)
(***************************************************************************)
EXTENDS Integers, Sequences, SequencesExt, FiniteSets

CONSTANTS CmdSize,     \* slots of the command ring
          RspSize,     \* slots of the response ring
          MaxCmds,     \* bound on the commands the kernel sends
          MaxCrashes,  \* bound on the crashes of the bridge
          Bridges,     \* "py": zenedge_bridge.py, "c": tools/bridge/bridge.c
          Irqs         \* TRUE: ipc_init registered ipc_irq_handler

ASSUME ChannelAssumption ==
  /\ CmdSize \in Nat \ {0, 1} /\ RspSize \in Nat \ {0, 1}
  /\ MaxCmds \in Nat /\ MaxCrashes \in Nat
  /\ Bridges \subseteq {"py", "c"} /\ Irqs \subseteq BOOLEAN

VARIABLES bridge,             \* which bridge runs (never changes)
          irqOn,              \* the interrupt handler is registered (as above)
          cmdq,               \* command ring: accepted, not consumed
          sent,               \* commands accepted so far
          rhead, rtail,       \* response ring, its indices
          rfirst, rsecond,    \* ... and the two words of each slot
          mpc, mhead, mtail, mrsp,  \* main context inside ipc_poll_response
          irq,                \* ipc_irq_handler is running
          bpc, bcmd,          \* bridge: next step and its command
          handled,            \* history: commands the bridge executed
          taken,              \* history: responses consumed, by either context
          raced,              \* history: the interrupt consumed one while the
                              \* main context was inside ipc_poll_response
          dropped,            \* responses that found the ring full
          lost,               \* consumed commands that died with the bridge
          crashes

setup == <<bridge, irqOn>>
cmdVars == <<cmdq, sent>>
slotVars == <<rfirst, rsecond>>
pollVars == <<mpc, mhead, mtail, mrsp>>
consumedVars == <<taken, raced>>
kernelVars == <<pollVars, irq, consumedVars>>
bridgeVars == <<bpc, bcmd, handled, dropped, lost, crashes>>
vars == <<bridge, irqOn, cmdq, sent, rhead, rtail, rfirst, rsecond, mpc, mhead, mtail, mrsp,
          irq, bpc, bcmd, handled, taken, raced, dropped, lost, crashes>>

Slots == 0 .. (RspSize - 1)

\* Bound on what the interrupt consumes: after a race it may see responses again.
MaxTaken == 2 * MaxCmds

NextRsp(i) == (i + 1) % RspSize

\* The response that a first and a second word make up.
Joined(first, second) == IF first = second THEN first ELSE 0

Init ==
  /\ bridge \in Bridges /\ irqOn \in Irqs
  /\ cmdq = << >> /\ sent = 0
  /\ rhead = 0 /\ rtail = 0
  /\ rfirst = [i \in Slots |-> 0] /\ rsecond = [i \in Slots |-> 0]
  /\ mpc = "idle" /\ mhead = 0 /\ mtail = 0 /\ mrsp = 0 /\ irq = FALSE
  /\ bpc = "idle" /\ bcmd = 0
  /\ handled = << >> /\ taken = << >> /\ raced = FALSE
  /\ dropped = {} /\ lost = {} /\ crashes = 0

-----------------------------------------------------------------------------
(* The kernel's main context.  It does not run while the interrupt does.   *)

Send ==
  /\ ~irq /\ mpc = "idle"
  /\ sent < MaxCmds
  /\ Len(cmdq) < CmdSize - 1
  /\ sent' = sent + 1
  /\ cmdq' = Append(cmdq, sent + 1)
  /\ UNCHANGED <<setup, rhead, rtail, slotVars, kernelVars, bridgeVars>>

(* ipc_poll_response, one access to the ring at a time.  The spin before   *)
(* it ends with or without a response in the ring, so it decides nothing.  *)
PollHead ==
  /\ ~irq /\ mpc = "idle"
  /\ mhead' = rhead
  /\ mpc' = "head"
  /\ UNCHANGED <<setup, cmdVars, rhead, rtail, slotVars, mtail, mrsp, irq, consumedVars,
                 bridgeVars>>

\* The test for an empty ring is on the local and a tail read later.
PollTail ==
  /\ ~irq /\ mpc = "head"
  /\ mhead # rtail
  /\ mtail' = rtail
  /\ mpc' = "first"
  /\ UNCHANGED <<setup, cmdVars, rhead, rtail, slotVars, mhead, mrsp, irq, consumedVars,
                 bridgeVars>>

\* 0 is returned, and with a return the locals are gone.
PollEmpty ==
  /\ ~irq /\ mpc = "head"
  /\ mhead = rtail
  /\ mpc' = "idle" /\ mhead' = 0
  /\ UNCHANGED <<setup, cmdVars, rhead, rtail, slotVars, mtail, mrsp, irq, consumedVars,
                 bridgeVars>>

PollFirst ==
  /\ ~irq /\ mpc = "first"
  /\ mrsp' = rfirst[mtail]
  /\ mpc' = "second"
  /\ UNCHANGED <<setup, cmdVars, rhead, rtail, slotVars, mhead, mtail, irq, consumedVars,
                 bridgeVars>>

PollSecond ==
  /\ ~irq /\ mpc = "second"
  /\ mrsp' = Joined(mrsp, rsecond[mtail])
  /\ mpc' = "advance"
  /\ UNCHANGED <<setup, cmdVars, rhead, rtail, slotVars, mhead, mtail, irq, consumedVars,
                 bridgeVars>>

\* Mutant: the tail update of ipc_poll_response forgotten.
PollAdvance_KeepTail ==
  /\ ~irq /\ mpc = "advance"
  /\ taken' = Append(taken, mrsp)
  /\ mpc' = "idle" /\ mhead' = 0 /\ mtail' = 0 /\ mrsp' = 0
  /\ Len(taken) < MaxTaken
  /\ UNCHANGED <<setup, cmdVars, rhead, rtail, slotVars, irq, raced, bridgeVars>>

\* The tail stored is the one after the local, whatever rtail is by now.
PollAdvance ==
  /\ ~irq /\ mpc = "advance"
  /\ rtail' = NextRsp(mtail)
  /\ taken' = Append(taken, mrsp)
  /\ mpc' = "idle" /\ mhead' = 0 /\ mtail' = 0 /\ mrsp' = 0
  /\ UNCHANGED <<setup, cmdVars, rhead, slotVars, irq, raced, bridgeVars>>

-----------------------------------------------------------------------------
(* The response interrupt.  A poll of its own is one step: the main        *)
(* context stands still, and the bridge only adds entries behind the one   *)
(* at the tail.                                                            *)

IrqEnter ==
  /\ irqOn /\ ~irq
  /\ irq' = TRUE
  /\ UNCHANGED <<setup, cmdVars, rhead, rtail, slotVars, pollVars, consumedVars, bridgeVars>>

IrqDrain ==
  /\ irq
  /\ rhead # rtail
  /\ Len(taken) < MaxTaken
  /\ taken' = Append(taken, Joined(rfirst[rtail], rsecond[rtail]))
  /\ raced' = (raced \/ mpc # "idle")
  /\ rtail' = NextRsp(rtail)
  /\ UNCHANGED <<setup, cmdVars, rhead, slotVars, pollVars, irq, bridgeVars>>

IrqReturn ==
  /\ irq
  /\ rhead = rtail
  /\ irq' = FALSE
  /\ UNCHANGED <<setup, cmdVars, rhead, rtail, slotVars, pollVars, consumedVars, bridgeVars>>

-----------------------------------------------------------------------------
(* The bridge.                                                             *)

\* Mutant: poll_command that leaves the tail to somebody else.
BridgePoll_NoConsume ==
  /\ bpc = "idle" /\ cmdq # << >>
  /\ Len(handled) < 2 * MaxCmds
  /\ bcmd' = Head(cmdq) /\ bpc' = "handle"
  /\ UNCHANGED <<setup, cmdVars, rhead, rtail, slotVars, kernelVars, handled, dropped, lost,
                 crashes>>

\* poll_command advances the tail here; poll_loop only copies the packet.
BridgePoll ==
  /\ bpc = "idle" /\ cmdq # << >>
  /\ bcmd' = Head(cmdq) /\ bpc' = "handle"
  /\ cmdq' = IF bridge = "py" THEN Tail(cmdq) ELSE cmdq
  /\ UNCHANGED <<setup, sent, rhead, rtail, slotVars, kernelVars, handled, dropped, lost,
                 crashes>>

\* dispatch / process_packet: every command gets an answer, an unknown
\* command or an exception the answer RSP_ERROR.
BridgeHandle ==
  /\ bpc = "handle"
  /\ handled' = Append(handled, bcmd)
  /\ bpc' = "respond"
  /\ UNCHANGED <<setup, cmdVars, rhead, rtail, slotVars, kernelVars, bcmd, dropped, lost,
                 crashes>>

\* Mutant: the response written without looking at rsp_ring->tail.
BridgeRespond_NoFullCheck ==
  /\ bpc = "respond"
  /\ bpc' = "write"
  /\ UNCHANGED <<setup, cmdVars, rhead, rtail, slotVars, kernelVars, bcmd, handled, dropped,
                 lost, crashes>>

\* send_response finds a free slot; it does not look at the tail again.
BridgeRespond ==
  /\ bpc = "respond"
  /\ NextRsp(rhead) # rtail
  /\ bpc' = "write"
  /\ UNCHANGED <<setup, cmdVars, rhead, rtail, slotVars, kernelVars, bcmd, handled, dropped,
                 lost, crashes>>

BridgeFirst ==
  /\ bpc = "write"
  /\ rfirst' = [rfirst EXCEPT ![rhead] = bcmd]
  /\ bpc' = "second"
  /\ UNCHANGED <<setup, cmdVars, rhead, rtail, rsecond, kernelVars, bcmd, handled, dropped,
                 lost, crashes>>

BridgeSecond ==
  /\ bpc = "second"
  /\ rsecond' = [rsecond EXCEPT ![rhead] = bcmd]
  /\ bpc' = "publish"
  /\ UNCHANGED <<setup, cmdVars, rhead, rtail, rfirst, kernelVars, bcmd, handled, dropped,
                 lost, crashes>>

AfterAnswer == IF bridge = "c" THEN "advance" ELSE "idle"

BridgePublish ==
  /\ bpc = "publish"
  /\ rhead' = NextRsp(rhead)
  /\ bpc' = AfterAnswer
  /\ UNCHANGED <<setup, cmdVars, rtail, slotVars, kernelVars, bcmd, handled, dropped, lost,
                 crashes>>

\* Response ring full: the response is reported and thrown away.
BridgeDrop ==
  /\ bpc = "respond"
  /\ NextRsp(rhead) = rtail
  /\ dropped' = dropped \cup {bcmd}
  /\ bpc' = AfterAnswer
  /\ UNCHANGED <<setup, cmdVars, rhead, rtail, slotVars, kernelVars, bcmd, handled, lost,
                 crashes>>

\* poll_loop, last statement: the C bridge consumes the command now.
BridgeAdvance ==
  /\ bpc = "advance"
  /\ cmdq' = Tail(cmdq)
  /\ bpc' = "idle"
  /\ UNCHANGED <<setup, sent, rhead, rtail, slotVars, kernelVars, bcmd, handled, dropped,
                 lost, crashes>>

\* The bridge process dies and is started again; the rings stay as they are.
BridgeRestart ==
  /\ crashes < MaxCrashes /\ bpc # "idle"
  /\ crashes' = crashes + 1
  /\ lost' = IF bridge = "py" THEN lost \cup {bcmd} ELSE lost
  /\ bpc' = "idle"
  /\ UNCHANGED <<setup, cmdVars, rhead, rtail, slotVars, kernelVars, bcmd, handled, dropped>>

-----------------------------------------------------------------------------
PollRun    == PollHead \/ PollTail \/ PollEmpty \/ PollFirst \/ PollSecond \/ PollAdvance
KernelIrq  == IrqEnter \/ IrqDrain \/ IrqReturn
Responding == BridgeRespond \/ BridgeFirst \/ BridgeSecond \/ BridgePublish
BridgeRun  == BridgePoll \/ BridgeHandle \/ Responding \/ BridgeDrop \/ BridgeAdvance

Next == Send \/ PollRun \/ KernelIrq \/ BridgeRun \/ BridgeRestart

Spec == Init /\ [][Next]_vars

(* The bridge's loop and the kernel's polling loops run for ever.  Nothing *)
(* makes the kernel send, or the bridge crash.                             *)
FairSpec == Spec /\ WF_vars(BridgeRun) /\ WF_vars(PollRun)

-----------------------------------------------------------------------------
(* The responses between the two indices of the response ring, oldest      *)
(* first.                                                                  *)
InRing == [i \in 1 .. ((rhead + RspSize - rtail) % RspSize) |->
             LET slot == (rtail + i - 1) % RspSize
             IN  Joined(rfirst[slot], rsecond[slot])]

Answering == bpc \in {"respond", "write", "second", "publish"}

Increasing(s) == \A i, j \in DOMAIN s : i < j => s[i] < s[j]

(* Type invariant.                                                         *)
TypeOK ==
  /\ bridge \in {"py", "c"} /\ irqOn \in BOOLEAN
  /\ cmdq \in Seq(1 .. MaxCmds) /\ Len(cmdq) < CmdSize
  /\ sent \in 0 .. MaxCmds
  /\ rhead \in Slots /\ rtail \in Slots
  /\ rfirst \in [Slots -> 0 .. MaxCmds] /\ rsecond \in [Slots -> 0 .. MaxCmds]
  /\ mpc \in {"idle", "head", "first", "second", "advance"}
  /\ mhead \in Slots /\ mtail \in Slots /\ mrsp \in 0 .. MaxCmds
  /\ irq \in BOOLEAN /\ raced \in BOOLEAN
  /\ bpc \in {"idle", "handle", "respond", "write", "second", "publish", "advance"}
  /\ bcmd \in 0 .. MaxCmds
  /\ dropped \subseteq 1 .. MaxCmds /\ lost \subseteq 1 .. MaxCmds

(* The Python bridge, which advances the tail before it dispatches, never  *)
(* executes a command twice and never out of order, whatever crashes.      *)
AtMostOnce == bridge = "py" => Increasing(handled)

(* The C bridge, which advances the tail after it answered, executes every *)
(* command that leaves the command ring, whatever crashes; a command it    *)
(* executes again after a crash is the one it was at, none earlier.        *)
AtLeastOnce ==
  bridge = "c" =>
    /\ \A c \in 1 .. sent : c \in ToSet(cmdq) \/ c \in ToSet(handled)
    /\ \A i \in 1 .. (Len(handled) - 1) :
         handled[i + 1] - handled[i] \in {0, 1}

(* Every executed command's response is in exactly one place: consumed by  *)
(* the main context or the interrupt, in the ring in order behind it,      *)
(* about to be written, or reported as dropped or lost.  This is for the   *)
(* bridge that executes each command once, and as long as the interrupt    *)
(* has consumed nothing inside an ipc_poll_response of the main context.   *)
Conserved ==
  bridge = "py" /\ ~raced =>
  LET onWay == InRing \o (IF Answering THEN <<bcmd>> ELSE << >>)
      all   == taken \o onWay
  IN  /\ Increasing(all)
      /\ ToSet(handled) \subseteq ToSet(all) \cup dropped \cup lost
      /\ ToSet(all) \cup dropped \subseteq ToSet(handled)
      /\ ToSet(all) \cap (dropped \cup lost) = {}

(* ipc.h:27, ipc_poll_response "returns 1 if consumed, 0 if empty": what   *)
(* is consumed is a response the bridge wrote, whole.  False of the code   *)
(* when the interrupt comes between the reads of head and tail.            *)
OnlyGenuine == ToSet(taken) \subseteq ToSet(handled)

(* Each bridge keeps the commands in its own way: at most once with the    *)
(* tail advanced first, at least once with the tail advanced last.         *)
CommandsKept == AtMostOnce /\ AtLeastOnce

(* No response is lost, doubled, reordered, torn or made up on its way,    *)
(* except where the bridge says so, until the interrupt consumes a         *)
(* response while the main context is inside ipc_poll_response.            *)
ResponsesKept == TypeOK /\ Conserved /\ (~raced => OnlyGenuine)

(* A command that was accepted is answered, unless the bridge said that it *)
(* dropped the response or died with it.  (Polling kernel.)                *)
Answered ==
  \A c \in 1 .. MaxCmds :
    (sent >= c /\ ~irqOn) ~> (c \in ToSet(taken) \cup dropped \cup lost)

(* ipc.h: ipc_poll_response "returns 1 if consumed": a response is given   *)
(* to a caller at most once.                                               *)
ConsumedOnce == Cardinality(ToSet(taken)) = Len(taken)
=============================================================================
