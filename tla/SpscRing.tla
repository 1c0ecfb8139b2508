------------------------------ MODULE SpscRing ------------------------------
(***************************************************************************)
(* One shared-memory ring and its two users, at the grain of the memory    *)
(* accesses they make.  The same protocol is used four times: observations *)
(* (host to kernel), actions (kernel to host), commands and responses.     *)
(*                                                                         *)
(* The producer reads tail, writes the entry word by word into slot head   *)
(* and only then publishes head; the consumer reads head, copies the entry *)
(* word by word out of slot tail and only then advances tail.  Neither     *)
(* side takes a lock.  Both sides only have a compiler barrier between the *)
(* entry and the index, so the model's program order is the store order of *)
(* x86 (TSO); a weaker memory would need more.                             *)
(*                                                                         *)
(* Either side may crash between any two accesses and come back: a ring    *)
(* lives in the shared memory file and starting the host again does not    *)
(* touch it, nor does a kernel reboot for the two streaming rings, whose   *)
(* magic is then set (ipc_stream_init).  A reboot does reset the command   *)
(* and response rings (ipc_init); that reset is not part of this module.   *)
(***************************************************************************)
EXTENDS Integers, Sequences

CONSTANTS Size,        \* number of slots (ring->size)
          Words,       \* memory accesses that write or copy one entry
          Val,         \* what one word can hold
          Zero,        \* the word a fresh shared memory file is filled with
          Empty,       \* result of a pop that found nothing
          MaxCrashes   \* bound on the crashes of a behaviour

Idx   == 0 .. (Size - 1)
Entry == [1 .. Words -> Val]

ASSUME SizeAssumption == Size \in Nat \ {0, 1}
ASSUME WordsAssumption == Words \in Nat \ {0}
ASSUME ValAssumption == Zero \in Val
ASSUME EmptyAssumption == Empty \notin Entry
ASSUME CrashAssumption == MaxCrashes \in Nat

VARIABLES head, tail, slots,       \* the shared ring
          ppc, pbuf, pword,        \* producer: next step, entry, next word
          cpc, cbuf, cword,        \* consumer: next step, copy, next word
          pushRes, popRes,         \* result of the latest push and pop
          crashes

prodVars == <<ppc, pbuf, pword>>
consVars == <<cpc, cbuf, cword>>
vars == <<head, tail, slots, ppc, pbuf, pword, cpc, cbuf, cword,
          pushRes, popRes, crashes>>

\* Mutant: the wrap-around forgotten.
NextIdx_NoWrap(i) == i + 1

NextIdx(i) == (i + 1) % Size

ZeroEntry == [w \in 1 .. Words |-> Zero]

Init ==
  /\ head = 0
  /\ tail = 0
  /\ slots = [i \in Idx |-> ZeroEntry]
  /\ ppc = "idle" /\ pbuf = ZeroEntry /\ pword = 1
  /\ cpc = "idle" /\ cbuf = ZeroEntry /\ cword = 1
  /\ pushRes = "none" /\ popRes = Empty
  /\ crashes = 0

-----------------------------------------------------------------------------
(* Mutants: plausible mistakes in the code, used to test the properties.   *)

\* Full check that lets head run onto tail.
PushCheck_NoFullCheck(e) ==
  /\ ppc = "idle"
  /\ ppc' = "write" /\ pbuf' = e /\ pword' = 1
  /\ UNCHANGED <<head, tail, slots, consVars, pushRes, popRes, crashes>>

\* tail advanced together with the check, before the entry is copied.
PopCheck_AdvanceFirst ==
  /\ cpc = "idle"
  /\ tail # head
  /\ tail' = NextIdx(tail)
  /\ cpc' = "copy" /\ cword' = 1
  /\ UNCHANGED <<head, slots, prodVars, cbuf, pushRes, popRes, crashes>>

\* pop that returns the entry and forgets to consume it.
PopAdvance_NoConsume ==
  /\ cpc = "advance"
  /\ cpc' = "idle"
  /\ popRes' = cbuf
  /\ UNCHANGED <<head, tail, slots, prodVars, cbuf, cword, pushRes, crashes>>

-----------------------------------------------------------------------------
(* The producer: ipc_stream_action_push and StreamRing.push.               *)

PushFull ==
  /\ ppc = "idle"
  /\ NextIdx(head) = tail
  /\ pushRes' = "full"
  /\ UNCHANGED <<head, tail, slots, prodVars, consVars, popRes, crashes>>

PushCheck(e) ==
  /\ ppc = "idle"
  /\ NextIdx(head) # tail
  /\ ppc' = "write" /\ pbuf' = e /\ pword' = 1
  /\ UNCHANGED <<head, tail, slots, consVars, pushRes, popRes, crashes>>

PushWord ==
  /\ ppc = "write"
  /\ slots' = [slots EXCEPT ![head][pword] = pbuf[pword]]
  /\ pword' = pword + 1
  /\ ppc' = IF pword = Words THEN "publish" ELSE "write"
  /\ UNCHANGED <<head, tail, pbuf, consVars, pushRes, popRes, crashes>>

PushPublish ==
  /\ ppc = "publish"
  /\ head' = NextIdx(head)
  /\ ppc' = "idle"
  /\ pushRes' = "ok"
  /\ UNCHANGED <<tail, slots, pbuf, pword, consVars, popRes, crashes>>

-----------------------------------------------------------------------------
(* The consumer: ipc_stream_obs_pop and StreamRing.pop.                    *)

PopEmpty ==
  /\ cpc = "idle"
  /\ tail = head
  /\ popRes' = Empty
  /\ UNCHANGED <<head, tail, slots, prodVars, consVars, pushRes, crashes>>

PopCheck ==
  /\ cpc = "idle"
  /\ tail # head
  /\ cpc' = "copy" /\ cword' = 1
  /\ UNCHANGED <<head, tail, slots, prodVars, cbuf, pushRes, popRes, crashes>>

PopWord ==
  /\ cpc = "copy"
  /\ cbuf' = [cbuf EXCEPT ![cword] = slots[tail][cword]]
  /\ cword' = cword + 1
  /\ cpc' = IF cword = Words THEN "advance" ELSE "copy"
  /\ UNCHANGED <<head, tail, slots, prodVars, pushRes, popRes, crashes>>

PopAdvance ==
  /\ cpc = "advance"
  /\ tail' = NextIdx(tail)
  /\ cpc' = "idle"
  /\ popRes' = cbuf
  /\ UNCHANGED <<head, slots, prodVars, cbuf, cword, pushRes, crashes>>

-----------------------------------------------------------------------------
(* A side loses its own state and starts over on the ring it finds.        *)

ProducerRestart ==
  /\ crashes < MaxCrashes
  /\ crashes' = crashes + 1
  /\ ppc' = "idle"
  /\ UNCHANGED <<head, tail, slots, pbuf, pword, consVars, pushRes, popRes>>

ConsumerRestart ==
  /\ crashes < MaxCrashes
  /\ crashes' = crashes + 1
  /\ cpc' = "idle"
  /\ UNCHANGED <<head, tail, slots, prodVars, cbuf, cword, pushRes, popRes>>

-----------------------------------------------------------------------------
Producer ==
  \/ PushFull
  \/ \E e \in Entry : PushCheck(e)
  \/ PushWord
  \/ PushPublish

Consumer == PopEmpty \/ PopCheck \/ PopWord \/ PopAdvance

Next == Producer \/ Consumer \/ ProducerRestart \/ ConsumerRestart

Spec == Init /\ [][Next]_vars

(* The consumer polls for ever (while (!ipc_stream_obs_pop(..)) pause, and *)
(* the host's main loop); nothing obliges the producer to push.            *)
FairSpec == Spec /\ WF_vars(Consumer)

-----------------------------------------------------------------------------
(* Type invariant: both indices stay inside the ring.                      *)
TypeOK ==
  /\ head \in Idx /\ tail \in Idx
  /\ slots \in [Idx -> Entry]
  /\ ppc \in {"idle", "write", "publish"}
  /\ pbuf \in Entry /\ pword \in 1 .. (Words + 1)
  /\ ppc = "write" => pword \in 1 .. Words
  /\ cpc \in {"idle", "copy", "advance"}
  /\ cbuf \in Entry /\ cword \in 1 .. (Words + 1)
  /\ cpc = "copy" => cword \in 1 .. Words
  /\ pushRes \in {"none", "ok", "full"}
  /\ popRes \in Entry \cup {Empty}
  /\ crashes \in 0 .. MaxCrashes

(* A producer past its full check still has a free slot: the tail it read  *)
(* may be stale, but the consumer only ever frees more.                    *)
PushStillFits == ppc # "idle" => NextIdx(head) # tail

(* A consumer past its empty check still has an entry in front of it.      *)
PopStillThere == cpc # "idle" => tail # head

(* What the producer has written so far of its entry is in slot head.      *)
WordsWritten ==
  /\ ppc = "write" =>
       \A w \in 1 .. (pword - 1) : slots[head][w] = pbuf[w]
  /\ ppc = "publish" => slots[head] = pbuf

(* What the consumer has copied so far is what slot tail holds now, though *)
(* the producer kept writing meanwhile: no entry is read torn.             *)
WordsCopied ==
  /\ cpc = "copy" =>
       \A w \in 1 .. (cword - 1) : cbuf[w] = slots[tail][w]
  /\ cpc = "advance" => cbuf = slots[tail]

(* The ring invariant: with no lock and with stale copies of each other's  *)
(* index, the two sides never work on the same slot and no entry is torn.  *)
RingInv == PushStillFits /\ PopStillThere /\ WordsWritten /\ WordsCopied

(* The ring as a queue: the slots from tail up to head.                    *)
CountOf(h, t) == (h + Size - t) % Size
QueueOf(h, t, s) == [i \in 1 .. CountOf(h, t) |-> s[(t + i - 1) % Size]]
Queue == QueueOf(head, tail, slots)

F == INSTANCE Fifo WITH Entry <- Entry, Capacity <- Size - 1, queue <- Queue

(* ipc_stream_action_push/obs_pop and StreamRing.push/pop implement an     *)
(* atomic bounded queue, crashes of either side included.                  *)
ImplementsFifo == F!Spec

(* A published entry does not stay in the ring for ever.                   *)
Drains == \A t \in Idx : (tail = t /\ head # t) ~> (tail # t)

=============================================================================
