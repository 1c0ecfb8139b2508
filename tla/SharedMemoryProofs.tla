------------------------- MODULE SharedMemoryProofs -------------------------
(***************************************************************************)
(* Proofs about what the kernel and the bridge share.  The ring, for every *)
(* size, entry width, value set and number of crashes: its type, its       *)
(* invariant, and that it implements the atomic bounded queue of module    *)
(* Fifo.  The blob heap, for every number of blocks and every size of blobs*)
(* and of the kernel's table, whoever allocates and whoever frees: no block*)
(* leaks and no two blobs in use share one.                                *)
(***************************************************************************)
EXTENDS SpscRing, SharedHeap, CommonLemmas

-----------------------------------------------------------------------------
(*                                The ring                                 *)

(* Entries are equal if their words are.                                   *)
LEMMA EntriesEqual ==
  ASSUME NEW d \in Entry, NEW e \in Entry, \A w \in 1 .. Words : d[w] = e[w]
  PROVE  d = e
<1>1. d = [w \in 1 .. Words |-> d[w]] /\ e = [w \in 1 .. Words |-> e[w]]
  BY DEF Entry
<1> QED BY <1>1

(* The successor of an index (head + 1) % size is an index.                *)
LEMMA NextIdxIs ==
  ASSUME NEW i \in Idx
  PROVE  /\ NextIdx(i) = IF i = Size - 1 THEN 0 ELSE i + 1
         /\ NextIdx(i) \in Idx
  BY RingNextIs, SizeAssumption DEF NextIdx, RingNext, Idx

(* A fresh ring holds well-formed entries.                                 *)
LEMMA ZeroEntryType == ZeroEntry \in Entry
  BY ValAssumption DEF ZeroEntry, Entry

-----------------------------------------------------------------------------
(* Type correctness: head and tail never leave the ring and every slot     *)
(* always holds an entry, whatever the interleaving and the crashes.       *)
THEOREM TypeCorrect == Spec => []TypeOK
<1>1. Init => TypeOK
  BY ZeroEntryType, SizeAssumption, WordsAssumption, CrashAssumption
     DEF Init, TypeOK, Idx
<1>2. TypeOK /\ [Next]_vars => TypeOK'
  <2> SUFFICES ASSUME TypeOK, [Next]_vars PROVE TypeOK'
    OBVIOUS
  <2> USE DEF TypeOK, prodVars, consVars
  <2>1. CASE PushFull
    BY <2>1 DEF PushFull
  <2>2. ASSUME NEW e \in Entry, PushCheck(e) PROVE TypeOK'
    BY <2>2, WordsAssumption DEF PushCheck
  <2>3. CASE PushWord
    <3>1. pword \in 1 .. (Words + 1) /\ pbuf \in Entry /\ head \in Idx
      OBVIOUS
    <3>2. slots' \in [Idx -> Entry]
      BY <2>3 DEF PushWord, Entry
    <3>3. /\ pword' \in 1 .. (Words + 1)
          /\ ppc' = "write" => pword' \in 1 .. Words
          /\ ppc' \in {"write", "publish"}
      BY <2>3, WordsAssumption DEF PushWord
    <3> QED BY <2>3, <3>2, <3>3 DEF PushWord
  <2>4. CASE PushPublish
    BY <2>4, NextIdxIs DEF PushPublish
  <2>5. CASE PopEmpty
    BY <2>5 DEF PopEmpty
  <2>6. CASE PopCheck
    BY <2>6, WordsAssumption DEF PopCheck
  <2>7. CASE PopWord
    BY <2>7, WordsAssumption DEF PopWord, Entry
  <2>8. CASE PopAdvance
    BY <2>8, NextIdxIs DEF PopAdvance
  <2>9. CASE ProducerRestart
    BY <2>9, CrashAssumption DEF ProducerRestart
  <2>10. CASE ConsumerRestart
    BY <2>10, CrashAssumption DEF ConsumerRestart
  <2>11. CASE UNCHANGED vars
    BY <2>11 DEF vars
  <2> QED
    BY <2>1, <2>2, <2>3, <2>4, <2>5, <2>6, <2>7, <2>8, <2>9, <2>10, <2>11
       DEF Next, Producer, Consumer
<1> QED BY <1>1, <1>2, PTL DEF Spec

-----------------------------------------------------------------------------
(* The ring invariant: the two lock-free sides never touch the same slot   *)
(* at once and no entry is read torn, because the producer's full check    *)
(* and the consumer's empty check stay true until they publish.            *)
THEOREM RingSafe == Spec => []RingInv
<1>1. Init => RingInv
  BY DEF Init, RingInv, PushStillFits, PopStillThere, WordsWritten, WordsCopied
<1>2. TypeOK /\ RingInv /\ [Next]_vars => RingInv'
  <2> SUFFICES ASSUME TypeOK, RingInv, [Next]_vars PROVE RingInv'
    OBVIOUS
  <2> USE DEF TypeOK, RingInv, PushStillFits, PopStillThere, WordsWritten,
              WordsCopied, prodVars, consVars
  <2>1. CASE PushFull
    BY <2>1 DEF PushFull
  <2>2. ASSUME NEW e \in Entry, PushCheck(e) PROVE RingInv'
    BY <2>2 DEF PushCheck
  <2>3. CASE PushWord
    <3>1. slots' = [slots EXCEPT ![head] =
                      [slots[head] EXCEPT ![pword] = pbuf[pword]]]
      BY <2>3 DEF PushWord
    <3>2. slots'[head] = [slots[head] EXCEPT ![pword] = pbuf[pword]]
      BY <3>1
    <3>3. \A w \in 1 .. pword : slots'[head][w] = pbuf[w]
      BY <2>3, <3>2, WordsAssumption DEF PushWord, Entry
    <3>4. ppc' = "publish" => slots'[head] = pbuf
      <4>1. SUFFICES ASSUME ppc' = "publish" PROVE slots'[head] = pbuf
        OBVIOUS
      <4>2. pword = Words
        BY <2>3, <4>1 DEF PushWord
      <4>3. slots'[head] \in Entry
        <5>1. slots[head] \in Entry /\ pbuf[pword] \in Val
          BY <2>3, SizeAssumption DEF PushWord, Entry
        <5> QED BY <3>2, <5>1 DEF Entry
      <4>4. pbuf \in Entry /\ \A w \in 1 .. Words : slots'[head][w] = pbuf[w]
        BY <3>3, <4>2
      <4> QED BY <4>3, <4>4, EntriesEqual
    <3>5. WordsWritten'
      BY <2>3, <3>3, <3>4 DEF PushWord
    <3>6. cpc # "idle" => slots'[tail] = slots[tail]
      BY <2>3, <3>1
    <3>7. WordsCopied'
      BY <2>3, <3>6 DEF PushWord
    <3> QED BY <2>3, <3>5, <3>7 DEF PushWord
  <2>4. CASE PushPublish
    BY <2>4, NextIdxIs DEF PushPublish
  <2>5. CASE PopEmpty
    BY <2>5 DEF PopEmpty
  <2>6. CASE PopCheck
    BY <2>6 DEF PopCheck
  <2>7. CASE PopWord
    <3>1. \A w \in 1 .. cword : cbuf'[w] = slots[tail][w]
      BY <2>7, WordsAssumption DEF PopWord, Entry
    <3>2. cpc' = "advance" => cbuf' = slots[tail]
      <4>1. SUFFICES ASSUME cpc' = "advance" PROVE cbuf' = slots[tail]
        OBVIOUS
      <4>2. cword = Words
        BY <2>7, <4>1 DEF PopWord
      <4>3. cbuf' \in Entry /\ slots[tail] \in Entry
        BY <2>7 DEF PopWord, Entry
      <4> QED BY <3>1, <4>2, <4>3 DEF Entry
    <3>3. WordsCopied'
      BY <2>7, <3>1, <3>2 DEF PopWord
    <3> QED BY <2>7, <3>3 DEF PopWord
  <2>8. CASE PopAdvance
    <3>1. head # tail => NextIdx(head) # NextIdx(tail)
      <4>1. /\ NextIdx(head) = IF head = Size - 1 THEN 0 ELSE head + 1
            /\ NextIdx(tail) = IF tail = Size - 1 THEN 0 ELSE tail + 1
        BY NextIdxIs
      <4> QED BY <4>1, SizeAssumption DEF Idx
    <3>2. head # tail
      BY <2>8 DEF PopAdvance
    <3> QED BY <2>8, <3>1, <3>2 DEF PopAdvance
  <2>9. CASE ProducerRestart
    BY <2>9 DEF ProducerRestart
  <2>10. CASE ConsumerRestart
    BY <2>10 DEF ConsumerRestart
  <2>11. CASE UNCHANGED vars
    BY <2>11 DEF vars
  <2> QED
    BY <2>1, <2>2, <2>3, <2>4, <2>5, <2>6, <2>7, <2>8, <2>9, <2>10, <2>11
       DEF Next, Producer, Consumer
<1> QED BY <1>1, <1>2, TypeCorrect, PTL DEF Spec

-----------------------------------------------------------------------------
(* How many entries the ring holds, without %.                             *)
LEMMA CountIs ==
  ASSUME NEW h \in Idx, NEW t \in Idx
  PROVE  /\ CountOf(h, t) = IF h >= t THEN h - t ELSE h - t + Size
         /\ CountOf(h, t) \in 0 .. (Size - 1)
  BY RingCountIs, SizeAssumption DEF CountOf, RingCount, Idx

(* The queue a ring stands for is the one of the general ring lemmas.      *)
LEMMA QueueIs ==
  ASSUME NEW h, NEW t, NEW s
  PROVE  QueueOf(h, t, s) = RingSeq(Size, h, t, s)
  BY DEF QueueOf, RingSeq, CountOf, RingCount

(* Writing into slot head does not change the queue: head is not one of    *)
(* its slots.                                                              *)
LEMMA WriteKeepsQueue ==
  ASSUME NEW h \in Idx, NEW t \in Idx,
         NEW s \in [Idx -> Entry], NEW r \in [Idx -> Entry],
         \A j \in Idx \ {h} : r[j] = s[j]
  PROVE  QueueOf(h, t, r) = QueueOf(h, t, s)
<1>1. RingSeq(Size, h, t, r) = RingSeq(Size, h, t, s)
  <2>1. /\ Size \in Nat \ {0, 1} /\ h \in 0 .. (Size - 1) /\ t \in 0 .. (Size - 1)
        /\ s \in [0 .. (Size - 1) -> Entry] /\ r \in [0 .. (Size - 1) -> Entry]
        /\ \A j \in (0 .. (Size - 1)) \ {h} : r[j] = s[j]
    BY SizeAssumption DEF Idx
  <2> QED BY <2>1, RingWriteKeeps
<1> QED BY <1>1, QueueIs

(* Publishing the next head appends the entry in slot head.                *)
LEMMA PublishAppends ==
  ASSUME NEW h \in Idx, NEW t \in Idx, NEW s \in [Idx -> Entry],
         NextIdx(h) # t
  PROVE  /\ Len(QueueOf(h, t, s)) < Size - 1
         /\ QueueOf(NextIdx(h), t, s) = Append(QueueOf(h, t, s), s[h])
<1>1. NextIdx(h) = RingNext(Size, h)
  BY DEF NextIdx, RingNext
<1> QED BY <1>1, RingAppends, QueueIs, SizeAssumption DEF Idx

(* Advancing tail removes the first entry, the one in slot tail.           *)
LEMMA AdvanceRemoves ==
  ASSUME NEW h \in Idx, NEW t \in Idx, NEW s \in [Idx -> Entry], t # h
  PROVE  /\ QueueOf(h, t, s) # << >>
         /\ Head(QueueOf(h, t, s)) = s[t]
         /\ QueueOf(h, NextIdx(t), s) = Tail(QueueOf(h, t, s))
<1>1. NextIdx(t) = RingNext(Size, t)
  BY DEF NextIdx, RingNext
<1>2. /\ RingSeq(Size, h, t, s) # << >>
      /\ Head(RingSeq(Size, h, t, s)) = s[t]
      /\ RingSeq(Size, h, RingNext(Size, t), s) = Tail(RingSeq(Size, h, t, s))
  BY RingRemoves, SizeAssumption DEF Idx
<1> QED BY <1>1, <1>2, QueueIs

-----------------------------------------------------------------------------
(* The lock-free ring implements the atomic bounded queue: a push takes    *)
(* effect when head is published, a pop when tail is advanced, and every   *)
(* other step of either side, restarts included, leaves the queue alone.   *)
THEOREM RingImplementsFifo == Spec => ImplementsFifo
<1>1. Init => F!Init
  <2> SUFFICES ASSUME Init PROVE F!Init
    OBVIOUS
  <2>1. CountOf(0, 0) = 0
    <3>1. 0 \in Idx
      BY SizeAssumption DEF Idx
    <3> QED BY <3>1, CountIs
  <2>2. Queue = << >>
    BY <2>1 DEF Init, Queue, QueueOf
  <2> QED BY <2>2 DEF Init, F!Init
<1>2. TypeOK /\ TypeOK' /\ RingInv /\ [Next]_vars => [F!Next]_(F!fifoVars)
  <2> SUFFICES ASSUME TypeOK, TypeOK', RingInv, [Next]_vars
               PROVE  F!Next \/ UNCHANGED F!fifoVars
    OBVIOUS
  <2>0. /\ head \in Idx /\ tail \in Idx /\ slots \in [Idx -> Entry]
        /\ slots' \in [Idx -> Entry]
        /\ NextIdx(head) = IF head = Size - 1 THEN 0 ELSE head + 1
        /\ Len(Queue) = CountOf(head, tail)
        /\ CountOf(head, tail) = IF head >= tail THEN head - tail
                                                 ELSE head - tail + Size
    <3>1. head \in Idx /\ tail \in Idx /\ slots \in [Idx -> Entry] /\ slots' \in [Idx -> Entry]
      BY DEF TypeOK
    <3>2. CountOf(head, tail) \in Nat
      BY <3>1, CountIs, SizeAssumption
    <3>3. Len(Queue) = CountOf(head, tail)
      BY <3>2 DEF Queue, QueueOf
    <3> QED BY <3>1, <3>3, NextIdxIs, CountIs
  <2>1. CASE PushFull
    <3>1. Len(Queue) = Size - 1
      BY <2>0, <2>1, SizeAssumption DEF PushFull, Idx
    <3> QED BY <2>1, <3>1 DEF PushFull, F!Next, F!PutFull, Queue
  <2>2. ASSUME NEW e \in Entry, PushCheck(e) PROVE UNCHANGED F!fifoVars
    BY <2>2 DEF PushCheck, F!fifoVars, Queue
  <2>3. CASE PushWord
    <3>1. \A j \in Idx \ {head} : slots'[j] = slots[j]
      BY <2>0, <2>3 DEF PushWord
    <3>2. QueueOf(head, tail, slots') = QueueOf(head, tail, slots)
      BY <2>0, <3>1, WriteKeepsQueue
    <3>3. Queue' = Queue
      BY <2>3, <3>2 DEF PushWord, Queue
    <3> QED BY <2>3, <3>3 DEF PushWord, F!fifoVars
  <2>4. CASE PushPublish
    <3>1. NextIdx(head) # tail /\ slots[head] = pbuf /\ pbuf \in Entry
      BY <2>4 DEF PushPublish, RingInv, PushStillFits, WordsWritten, TypeOK
    <3>2. Len(Queue) < Size - 1 /\ Queue' = Append(Queue, pbuf)
      BY <2>0, <2>4, <3>1, PublishAppends DEF PushPublish, Queue
    <3>3. F!Put(pbuf)
      BY <2>4, <3>2 DEF PushPublish, F!Put
    <3> QED BY <3>1, <3>3 DEF F!Next
  <2>5. CASE PopEmpty
    <3>1. Queue = << >>
      <4>1. CountOf(head, tail) = 0
        BY <2>0, <2>5 DEF PopEmpty, Idx
      <4> QED BY <4>1 DEF Queue, QueueOf
    <3> QED BY <2>5, <3>1 DEF PopEmpty, F!Next, F!GetEmpty, Queue
  <2>6. CASE PopCheck
    BY <2>6 DEF PopCheck, F!fifoVars, Queue
  <2>7. CASE PopWord
    BY <2>7 DEF PopWord, F!fifoVars, Queue
  <2>8. CASE PopAdvance
    <3>1. tail # head /\ cbuf = slots[tail]
      BY <2>8 DEF PopAdvance, RingInv, PopStillThere, WordsCopied
    <3>2. Queue # << >> /\ Head(Queue) = cbuf /\ Queue' = Tail(Queue)
      BY <2>0, <2>8, <3>1, AdvanceRemoves DEF PopAdvance, Queue
    <3> QED BY <2>8, <3>2 DEF PopAdvance, F!Next, F!Get
  <2>9. CASE ProducerRestart
    BY <2>9 DEF ProducerRestart, F!fifoVars, Queue
  <2>10. CASE ConsumerRestart
    BY <2>10 DEF ConsumerRestart, F!fifoVars, Queue
  <2>11. CASE UNCHANGED vars
    BY <2>11 DEF vars, F!fifoVars, Queue
  <2> QED
    BY <2>1, <2>2, <2>3, <2>4, <2>5, <2>6, <2>7, <2>8, <2>9, <2>10, <2>11
       DEF Next, Producer, Consumer
<1> QED
  BY <1>1, <1>2, TypeCorrect, RingSafe, PTL DEF Spec, ImplementsFifo, F!Spec

-----------------------------------------------------------------------------
(* The blob heap.  An id names one place: wherever a header, the kernel's  *)
(* table or the bridge's cache has it, they have the same block, also when *)
(* the blob is long gone.  That is what makes leftover headers and stale   *)
(* entries harmless, as long as ids are not used twice.                    *)
Claims(p) == hdr[p] # None
Placed ==
  /\ \A p, q \in Block : Claims(p) /\ Claims(q) /\ hdr[p].id = hdr[q].id => p = q
  /\ \A p \in Block, i \in 1 .. Len(table) :
       Claims(p) /\ hdr[p].id = table[i].id => table[i].start = p /\ table[i].len = hdr[p].len
  /\ \A p \in Block :
       Claims(p) /\ cache[hdr[p].id] # Missing => cache[hdr[p].id] = p

(* The blobs whose blocks are taken.                                       *)
Held == live \cup leaked

(* No id is ahead of next_blob_id, but the one the bridge is about to give *)
(* out.                                                                    *)
Issued == 1 .. (nextId - 1)
GivingOut == bop.pc \in {"store", "control"}
IdsIssued ==
  /\ \A p \in Block : Claims(p) => hdr[p].id \in Issued \/ (GivingOut /\ p = bop.start)
  /\ \A i \in 1 .. Len(table) : table[i].id \in Issued
  /\ \A i \in Ids : cache[i] # Missing => i \in Issued
  /\ \A b \in Held : b.id \in Issued
  /\ \A b \in entered : b.id \in Issued
  /\ live \cap leaked = {}

(* The blobs that have their header: all, but the one the bridge has       *)
(* wiped on its way to free it.                                            *)
Dropping == bop.pc \in {"clear", "count"}
Holders == IF Dropping THEN Held \ {bop.blob} ELSE Held
Own(b) == Span(b.start, b.len)
Owned ==
  /\ \A b \in Holders :
       /\ b.start + b.len <= NBlocks /\ Claims(b.start)
       /\ hdr[b.start].id = b.id /\ hdr[b.start].len = b.len
  /\ \A a, b \in Holders : a # b => Own(a) \cap Own(b) = {}

(* The bits and the counter, with what the bridge has done of the two.     *)
InWork == IF bop.pc \in {"control", "clear"} THEN Span(bop.start, bop.len) ELSE {}
Uncounted == IF bop.pc = "control" THEN bop.len ELSE IF bop.pc = "count" THEN 0 - bop.len ELSE 0
Bits ==
  /\ \A x : x \in used <=> x \in InWork \/ \E b \in Holders : x \in Own(b)
  /\ \A b \in Holders : Own(b) \cap InWork = {}
  /\ free = NBlocks - Cardinality(used) + Uncounted

(* What the bridge has in its locals: nothing the kernel could have made   *)
(* stale, when the two take turns.                                         *)
Ops == [pc : {"idle", "bitmap", "header", "store", "control", "wipe", "clear", "count"},
        len : 0 .. MaxLen, free : Int, id : Ids, start : Block, used : SUBSET Block,
        blob : Blobs]
BridgeLocals ==
  /\ bop \in Ops /\ (bop.pc = "idle" => bop = Idle)
  /\ bop.pc # "idle" => bop.len >= 1
  /\ bop.pc \in {"bitmap", "header", "store", "control"} =>
       bop.id = nextId /\ nextId <= MaxAllocs /\ bop.free = free
  /\ bop.pc \in {"header", "store", "control"} => bop.start + bop.len <= NBlocks
  /\ bop.pc \in {"header", "store"} =>
       bop.used = used /\ Span(bop.start, bop.len) \cap used = {}
  /\ GivingOut => Claims(bop.start) /\ hdr[bop.start].id = bop.id /\ hdr[bop.start].len = bop.len
  /\ bop.pc \in {"wipe", "clear", "count"} =>
       bop.blob \in live /\ bop.start = bop.blob.start /\ bop.len = bop.blob.len
       /\ bop.start + bop.len <= NBlocks
  /\ bop.pc \in {"wipe", "clear"} => bop.used = used

HeapInv == BlobTypeOK /\ Placed /\ IdsIssued /\ Owned /\ Bits /\ BridgeLocals

(* The same when the bridge is not in the middle of its stores.            *)
Resting == bop.pc \in {"idle", "bitmap", "header", "wipe"}
RestIds ==
  /\ \A p \in Block : Claims(p) => hdr[p].id \in Issued
  /\ \A i \in 1 .. Len(table) : table[i].id \in Issued
  /\ \A i \in Ids : cache[i] # Missing => i \in Issued
  /\ \A b \in Held : b.id \in Issued
  /\ \A b \in entered : b.id \in Issued
  /\ live \cap leaked = {}
RestOwned ==
  /\ \A b \in Held :
       /\ b.start + b.len <= NBlocks /\ Claims(b.start)
       /\ hdr[b.start].id = b.id /\ hdr[b.start].len = b.len
  /\ \A a, b \in Held : a # b => Own(a) \cap Own(b) = {}
RestBits ==
  /\ \A x : x \in used <=> \E b \in Held : x \in Own(b)
  /\ free = NBlocks - Cardinality(used)
RestInv == BlobTypeOK /\ Placed /\ RestIds /\ RestOwned /\ RestBits

LEMMA UsedIsFinite == ASSUME BlobTypeOK PROVE IsFiniteSet(used) /\ Cardinality(used) \in Nat
<1>1. IsFiniteSet(0 .. (NBlocks - 1))
  BY FS_Interval, HeapAssumption
<1>2. IsFiniteSet(used)
  BY <1>1, FS_Subset DEF BlobTypeOK, Block
<1> QED BY <1>2, FS_CardinalityType

LEMMA AtRest == Resting => (HeapInv <=> RestInv /\ BridgeLocals)
<1> SUFFICES ASSUME Resting PROVE HeapInv <=> RestInv /\ BridgeLocals
  OBVIOUS
<1>1. Holders = Held /\ ~GivingOut /\ InWork = {} /\ Uncounted = 0
  BY DEF Resting, Holders, Dropping, GivingOut, InWork, Uncounted
<1>2. IdsIssued <=> RestIds
  BY <1>1 DEF IdsIssued, RestIds
<1>3. Owned <=> RestOwned
  BY <1>1 DEF Owned, RestOwned
<1>4. BlobTypeOK => (Bits <=> RestBits)
  <2> SUFFICES ASSUME BlobTypeOK PROVE Bits <=> RestBits
    OBVIOUS
  <2>1. (free = NBlocks - Cardinality(used) + Uncounted) <=> (free = NBlocks - Cardinality(used))
    BY <1>1, UsedIsFinite, HeapAssumption
  <2> QED BY <1>1, <2>1 DEF Bits, RestBits
<1> QED BY <1>2, <1>3, <1>4 DEF HeapInv, RestInv

LEMMA AtRestNext == (Resting => (HeapInv <=> RestInv /\ BridgeLocals))'
BY AtRest, PTL

(* Blocks of a blob that fits.                                             *)
LEMMA SpanIs ==
  ASSUME NEW s \in Block, NEW n \in 1 .. MaxLen, s + n <= NBlocks
  PROVE  /\ Span(s, n) \subseteq Block /\ s \in Span(s, n)
         /\ IsFiniteSet(Span(s, n)) /\ Cardinality(Span(s, n)) = n
<1>1. s \in Int /\ n \in Int /\ s >= 0 /\ n >= 1 /\ NBlocks \in Int
  BY HeapAssumption DEF Block
<1>2. Span(s, n) \subseteq Block /\ s \in Span(s, n)
  BY <1>1 DEF Span, Block
<1>3. IsFiniteSet(s .. (s + n - 1))
      /\ Cardinality(s .. (s + n - 1)) = IF s > s + n - 1 THEN 0 ELSE (s + n - 1) - s + 1
  BY <1>1, FS_Interval
<1> QED BY <1>1, <1>2, <1>3 DEF Span

LEMMA FirstFit ==
  ASSUME NEW u, NEW n \in 1 .. MaxLen, Fits(u, n) # {}
  PROVE  /\ Min(Fits(u, n)) \in Block /\ Min(Fits(u, n)) + n <= NBlocks
         /\ Span(Min(Fits(u, n)), n) \cap u = {}
<1>1. Fits(u, n) \in SUBSET Nat
  BY HeapAssumption DEF Fits, Block
<1>2. Min(Fits(u, n)) \in Fits(u, n)
  BY <1>1, LeastElement
<1> HIDE DEF Fits
<1>3. \A s \in Fits(u, n) : s \in Block /\ s + n <= NBlocks /\ Span(s, n) \cap u = {}
  BY DEF Fits
<1> QED BY <1>2, <1>3

(* A scan only finds headers.                                              *)
LEMMA FoundIs ==
  ASSUME NEW id
  PROVE  \A p \in Found(hdr, id) : p \in Block /\ Claims(p) /\ hdr[p].id = id
BY DEF Found, Stops, Claims

LEMMA FirstFound ==
  ASSUME NEW id, Found(hdr, id) # {}
  PROVE  Min(Found(hdr, id)) \in Found(hdr, id)
<1>1. Found(hdr, id) \in SUBSET Nat
  BY FoundIs DEF Block
<1> QED BY <1>1, LeastElement

(* What a header that is there looks like.                                 *)
LEMMA HeaderIs ==
  ASSUME BlobTypeOK, NEW p \in Block, Claims(p)
  PROVE  hdr[p].id \in Ids /\ hdr[p].len \in 1 .. MaxLen
BY DEF BlobTypeOK, Hdrs, Claims

LEMMA BlobIs ==
  ASSUME BlobTypeOK, NEW b \in Held
  PROVE  b.id \in Ids /\ b.start \in Block /\ b.len \in 1 .. MaxLen
         /\ b = [id |-> b.id, start |-> b.start, len |-> b.len]
BY DEF BlobTypeOK, Blobs, Held


-----------------------------------------------------------------------------
(* The two sides take turns and the ids last.                              *)
TakeTurns == ~Concurrent /\ MaxAllocs < IdSpan

(* Giving out free blocks s .. s + n - 1 under a new id.                   *)
LEMMA KAllocRest ==
  ASSUME TakeTurns, RestInv, NEW n \in 1 .. MaxLen, KAlloc(n)
  PROVE  RestInv'
<1>1. Fits(used, n) # {} /\ nextId <= MaxAllocs
  BY DEF KAlloc
<1>2. PICK s \in Block :
        s = Min(Fits(used, n)) /\ s + n <= NBlocks /\ Span(s, n) \cap used = {}
  BY <1>1, FirstFit
<1> DEFINE id == nextId % IdSpan
           b == [id |-> id, start |-> s, len |-> n]
<1>3. id = nextId /\ nextId \in Nat /\ nextId >= 1 /\ id \in Ids /\ id # 0
  <2>1. nextId \in Nat /\ nextId >= 1 /\ IdSpan \in Nat /\ nextId < IdSpan
    BY <1>1, HeapAssumption DEF TakeTurns, RestInv, BlobTypeOK
  <2>2. nextId % IdSpan = nextId
    BY <2>1
  <2> QED BY <2>1, <2>2 DEF Ids
<1>4. /\ used' = used \cup Span(s, n) /\ free' = free - n /\ nextId' = nextId + 1
      /\ hdr' = [hdr EXCEPT ![s] = [id |-> id, len |-> n, off |-> "data"]]
      /\ table' = (IF Len(table) < MaxBlobs THEN Append(table, b) ELSE table)
      /\ live' = live \cup {b} /\ leaked' = leaked /\ cache' = cache /\ bop' = bop
      /\ entered' \subseteq entered \cup {b}
  <2>1. /\ used' = used \cup Span(s, n) /\ free' = free - n /\ nextId' = nextId + 1
        /\ hdr' = [hdr EXCEPT ![s] = [id |-> id, len |-> n, off |-> "data"]]
        /\ live' = live \cup {b} /\ leaked' = leaked /\ cache' = cache /\ bop' = bop
    BY <1>2, <1>3 DEF KAlloc
  <2>2. IF Len(table) < MaxBlobs
        THEN table' = Append(table, b) /\ entered' = entered \cup {b}
        ELSE UNCHANGED <<table, entered>>
    BY <1>2 DEF KAlloc
  <2> QED BY <2>1, <2>2
<1>40. Held' = Held \cup {b}
  BY <1>4 DEF Held
<1>5. BlobTypeOK /\ Placed /\ RestIds /\ RestOwned /\ RestBits
  BY DEF RestInv
<1>6. b \in Blobs /\ b.id = nextId /\ b.start = s /\ b.len = n
  BY <1>2, <1>3 DEF Blobs
<1> HIDE DEF id, b
<1>7. [id |-> id, len |-> n, off |-> "data"] \in Hdrs /\ [id |-> id, len |-> n, off |-> "data"] # None
  BY <1>3 DEF Hdrs, None
<1>8. hdr \in [Block -> Hdrs] /\ hdr' \in [Block -> Hdrs]
      /\ hdr'[s] = [id |-> id, len |-> n, off |-> "data"]
      /\ \A p \in Block : p # s => hdr'[p] = hdr[p]
  BY <1>2, <1>4, <1>5, <1>7 DEF BlobTypeOK
<1>9. Claims(s)' /\ hdr'[s].id = nextId /\ hdr'[s].len = n
      /\ \A p \in Block : p # s => (Claims(p)' <=> Claims(p))
  <2>1. hdr'[s].id = nextId /\ hdr'[s].len = n /\ hdr'[s] # None
    BY <1>3, <1>7, <1>8
  <2> QED BY <1>8, <2>1 DEF Claims
<1>10. /\ table \in Seq(Blobs) /\ table' \in Seq(Blobs) /\ Len(table') <= MaxBlobs
       /\ \A i \in 1 .. Len(table') :
            (i \in 1 .. Len(table) /\ table'[i] = table[i]) \/ table'[i] = b
  <2>1. table \in Seq(Blobs) /\ Len(table) \in Nat /\ Len(table) <= MaxBlobs
    BY <1>5, LenProperties DEF BlobTypeOK
  <2>2. CASE Len(table) < MaxBlobs
    <3>1. table' = Append(table, b)
      BY <1>4, <2>2
    <3>2. /\ table' \in Seq(Blobs) /\ Len(table') = Len(table) + 1
          /\ \A i \in 1 .. Len(table) : table'[i] = table[i]
          /\ table'[Len(table) + 1] = b
      BY <1>6, <2>1, <3>1, AppendProperties
    <3> QED BY <2>1, <2>2, <3>2, HeapAssumption
  <2>3. CASE ~(Len(table) < MaxBlobs)
    BY <1>4, <2>1, <2>3
  <2> QED BY <2>2, <2>3
<1>11. Span(s, n) \subseteq Block /\ IsFiniteSet(Span(s, n)) /\ Cardinality(Span(s, n)) = n
       /\ s \in Span(s, n)
  BY <1>2, SpanIs
<1>12. BlobTypeOK'
  <2>1. used' \subseteq Block /\ free' \in Int /\ nextId' \in 1 .. (MaxAllocs + 1)
    BY <1>1, <1>3, <1>4, <1>5, <1>11, HeapAssumption DEF BlobTypeOK
  <2>2. cache' \in [Ids -> Block \cup {Missing}]
    BY <1>4, <1>5 DEF BlobTypeOK
  <2>3. live' \subseteq Blobs /\ entered' \subseteq Blobs /\ leaked' \subseteq Blobs
    BY <1>4, <1>5, <1>6 DEF BlobTypeOK
  <2> QED BY <1>8, <1>10, <2>1, <2>2, <2>3 DEF BlobTypeOK
<1>13. RestIds'
  <2>1. Issued' = 1 .. nextId /\ \A i \in Issued : i \in Issued' /\ i # nextId
    BY <1>3, <1>4 DEF Issued
  <2>2. nextId \in Issued'
    BY <1>3, <2>1
  <2>3. \A p \in Block : Claims(p)' => hdr'[p].id \in Issued'
    BY <1>5, <1>8, <1>9, <2>1, <2>2 DEF RestIds
  <2>4. \A i \in 1 .. Len(table') : table'[i].id \in Issued'
    BY <1>5, <1>6, <1>10, <2>1, <2>2 DEF RestIds
  <2>5. \A i \in Ids : cache'[i] # Missing => i \in Issued'
    BY <1>4, <1>5, <2>1 DEF RestIds
  <2>6. \A x \in Held' : x.id \in Issued'
    BY <1>40, <1>5, <1>6, <2>1, <2>2 DEF RestIds
  <2>7. \A x \in entered' : x.id \in Issued'
    BY <1>4, <1>5, <1>6, <2>1, <2>2 DEF RestIds
  <2>8. b \notin leaked
    BY <1>5, <1>6, <2>1 DEF RestIds, Held
  <2>9. live' \cap leaked' = {}
    BY <1>4, <1>5, <2>8 DEF RestIds
  <2> QED BY <2>3, <2>4, <2>5, <2>6, <2>7, <2>9 DEF RestIds
<1>14. Placed'
  <2>0. nextId \notin Issued
    BY <1>3 DEF Issued
  <2>1. \A p, q \in Block : Claims(p)' /\ Claims(q)' /\ hdr'[p].id = hdr'[q].id => p = q
    BY <1>5, <1>8, <1>9, <2>0 DEF RestIds, Placed
  <2>2. ASSUME NEW p \in Block, NEW i \in 1 .. Len(table'), Claims(p)', hdr'[p].id = table'[i].id
        PROVE  table'[i].start = p /\ table'[i].len = hdr'[p].len
    <3>1. CASE table'[i] = b
      <4>1. p = s
        BY <1>5, <1>6, <1>8, <1>9, <2>0, <2>2, <3>1 DEF RestIds
      <4> QED BY <1>6, <1>9, <3>1, <4>1
    <3>2. CASE i \in 1 .. Len(table) /\ table'[i] = table[i]
      <4>1. p # s
        BY <1>5, <1>9, <2>0, <2>2, <3>2 DEF RestIds
      <4> QED BY <1>5, <1>8, <1>9, <2>2, <3>2, <4>1 DEF Placed
    <3> QED BY <1>10, <3>1, <3>2
  <2>3. ASSUME NEW p \in Block, Claims(p)', cache'[hdr'[p].id] # Missing
        PROVE  cache'[hdr'[p].id] = p
    <3>1. p # s
      BY <1>3, <1>4, <1>5, <1>9, <2>0, <2>3 DEF RestIds
    <3> QED BY <1>4, <1>5, <1>8, <1>9, <2>3, <3>1 DEF Placed
  <2> QED BY <2>1, <2>2, <2>3 DEF Placed
<1>15. \A x \in Held : x.start \in Own(x) /\ Own(x) \subseteq used /\ x.start # s
  <2> SUFFICES ASSUME NEW x \in Held PROVE x.start \in Own(x) /\ Own(x) \subseteq used /\ x.start # s
    OBVIOUS
  <2>1. x.start \in Own(x)
    BY <1>5, BlobIs, SpanIs DEF RestOwned, Own
  <2>2. Own(x) \subseteq used
    BY <1>5 DEF RestBits
  <2> QED BY <1>2, <1>11, <2>1, <2>2
<1>16. Own(b) = Span(s, n)
  BY <1>6 DEF Own
<1>17. RestOwned'
  <2>1. ASSUME NEW x \in Held'
        PROVE  /\ x.start + x.len <= NBlocks /\ Claims(x.start)'
               /\ hdr'[x.start].id = x.id /\ hdr'[x.start].len = x.len
    <3>1. CASE x = b
      BY <1>2, <1>6, <1>9, <3>1
    <3>2. CASE x \in Held
      <4>1. x.start \in Block /\ x.start # s
        BY <1>5, <1>15, <3>2, BlobIs
      <4> QED BY <1>5, <1>8, <1>9, <3>2, <4>1 DEF RestOwned
    <3> QED BY <1>4, <1>40, <2>1, <3>1, <3>2
  <2>2. ASSUME NEW x \in Held', NEW y \in Held', x # y PROVE Own(x) \cap Own(y) = {}
    <3>1. CASE x \in Held /\ y \in Held
      BY <1>5, <2>2, <3>1 DEF RestOwned
    <3>2. CASE x = b /\ y \in Held
      BY <1>2, <1>15, <1>16, <3>2
    <3>3. CASE y = b /\ x \in Held
      BY <1>2, <1>15, <1>16, <3>3
    <3> QED BY <1>4, <1>40, <2>2, <3>1, <3>2, <3>3
  <2> QED BY <2>1, <2>2 DEF RestOwned, Own, Span
<1>18. RestBits'
  <2>1. ASSUME NEW x PROVE x \in used' <=> \E y \in Held' : x \in Own(y)
    BY <1>4, <1>40, <1>5, <1>16 DEF RestBits
  <2>2. Cardinality(used') = Cardinality(used) + n /\ Cardinality(used) \in Nat
    BY <1>2, <1>4, <1>5, <1>11, CountTaken, UsedIsFinite
  <2>3. free' = NBlocks - Cardinality(used')
    BY <1>4, <1>5, <2>2, HeapAssumption DEF RestBits
  <2> QED BY <2>1, <2>3 DEF RestBits, Own, Span
<1> QED BY <1>12, <1>13, <1>14, <1>17, <1>18 DEF RestInv

(* Dropping an entry of the table leaves entries of the table.             *)
LEMMA WithoutIs ==
  ASSUME NEW t \in Seq(Blobs), NEW k \in 1 .. Len(t)
  PROVE  /\ Without(t, k) \in Seq(Blobs) /\ Len(Without(t, k)) = Len(t) - 1
         /\ \A i \in 1 .. (Len(t) - 1) : \E j \in 1 .. Len(t) : Without(t, k)[i] = t[j]
<1> DEFINE n == Len(t)
           u == [t EXCEPT ![k] = t[n]]
<1>1. n \in Nat /\ n >= 1 /\ t \in [1 .. n -> Blobs]
  BY LenProperties
<1>2. u \in [1 .. n -> Blobs] /\ \A i \in 1 .. n : u[i] = IF i = k THEN t[n] ELSE t[i]
  BY <1>1
<1>3. u \in Seq(Blobs) /\ Len(u) = n
  BY <1>1, <1>2
<1>4. Without(t, k) = SubSeq(u, 1, n - 1)
  BY DEF Without
<1> HIDE DEF u, n
<1>5. 1 \in 1 .. (n + 1) /\ n - 1 \in 0 .. n
  BY <1>1
<1>6. /\ SubSeq(u, 1, n - 1) \in Seq(Blobs) /\ Len(SubSeq(u, 1, n - 1)) = n - 1
      /\ \A i \in 1 .. (n - 1) : SubSeq(u, 1, n - 1)[i] = u[i]
  BY <1>1, <1>3, <1>5
<1>7. \A i \in 1 .. (n - 1) : \E j \in 1 .. n : u[i] = t[j]
  <2> SUFFICES ASSUME NEW i \in 1 .. (n - 1) PROVE \E j \in 1 .. n : u[i] = t[j]
    OBVIOUS
  <2>1. i \in 1 .. n /\ n \in 1 .. n
    BY <1>1
  <2> QED BY <1>2, <2>1
<1> QED BY <1>4, <1>6, <1>7 DEF n

(* A blob in use is given back, bits and count.                            *)
LEMMA GiveBits ==
  ASSUME RestInv, NEW b \in Held, used' = used \ Own(b), Held' = Held \ {b}
  PROVE  /\ \A x : x \in used' <=> \E a \in Held' : x \in Own(a)
         /\ Cardinality(used') = Cardinality(used) - b.len
         /\ Cardinality(used) \in Nat /\ b.len \in Nat
<1>1. BlobTypeOK /\ RestOwned /\ RestBits /\ b.start \in Block /\ b.len \in 1 .. MaxLen
  BY BlobIs DEF RestInv
<1>2. Own(b) \subseteq used
  BY <1>1 DEF RestBits
<1>3. Cardinality(Own(b)) = b.len
  BY <1>1, SpanIs DEF RestOwned, Own
<1>4. Cardinality(used') = Cardinality(used) - b.len /\ Cardinality(used) \in Nat
  BY <1>1, <1>2, <1>3, CountGiven, UsedIsFinite
<1>5. ASSUME NEW x PROVE x \in used' <=> \E a \in Held' : x \in Own(a)
  <2>1. ASSUME x \in used' PROVE \E a \in Held' : x \in Own(a)
    BY <1>1, <2>1 DEF RestBits
  <2>2. ASSUME NEW a \in Held', x \in Own(a) PROVE x \in used'
    <3>1. a \in Held /\ a # b
      BY <2>2
    <3>2. x \in used /\ x \notin Own(b)
      BY <1>1, <2>2, <3>1 DEF RestBits, RestOwned
    <3> QED BY <3>2
  <2> QED BY <2>1, <2>2
<1> QED BY <1>1, <1>4, <1>5

LEMMA KFreeRest ==
  ASSUME RestInv, NEW b \in live, KFree(b)
  PROVE  RestInv'
<1>0. b \in Held
  BY DEF Held
<1>1. BlobTypeOK /\ Placed /\ RestIds /\ RestOwned /\ RestBits /\ b.start \in Block
  BY <1>0, BlobIs DEF RestInv
<1>2. Entries(b.id) # {}
  BY DEF KFree
<1>3. table \in Seq(Blobs) /\ DOMAIN table = 1 .. Len(table) /\ Len(table) \in Nat
  BY <1>1, LenProperties DEF BlobTypeOK
<1>4. PICK k \in 1 .. Len(table) : k = Min(Entries(b.id)) /\ table[k].id = b.id
  <2>1. Entries(b.id) \in SUBSET Nat
    BY <1>3 DEF Entries
  <2>2. Min(Entries(b.id)) \in Entries(b.id)
    BY <1>2, <2>1, LeastElement
  <2> QED BY <1>3, <2>2 DEF Entries
<1>5. table[k].start = b.start /\ table[k].len = b.len
  BY <1>0, <1>1, <1>4 DEF Placed, RestOwned
<1>6. /\ used' = used \ Own(b) /\ free' = free + b.len /\ table' = Without(table, k)
      /\ live' = live \ {b} /\ UNCHANGED <<nextId, hdr, cache, bop, entered, leaked>>
  BY <1>4, <1>5 DEF KFree, Own
<1>60. Held' = Held \ {b} /\ live' \cap leaked' = {}
  BY <1>1, <1>6 DEF Held, RestIds
<1>7. /\ table' \in Seq(Blobs) /\ Len(table') = Len(table) - 1
      /\ \A i \in 1 .. Len(table') : \E j \in 1 .. Len(table) : table'[i] = table[j]
  <2>1. /\ table' \in Seq(Blobs) /\ Len(table') = Len(table) - 1
        /\ \A i \in 1 .. (Len(table) - 1) : \E j \in 1 .. Len(table) : table'[i] = table[j]
    BY <1>3, <1>4, <1>6, WithoutIs
  <2> QED BY <2>1
<1>8. /\ \A x : x \in used' <=> \E a \in Held' : x \in Own(a)
      /\ Cardinality(used') = Cardinality(used) - b.len
      /\ Cardinality(used) \in Nat /\ b.len \in Nat
  BY <1>0, <1>6, <1>60, GiveBits
<1>9. RestBits'
  <2>1. free' = NBlocks - Cardinality(used')
    BY <1>1, <1>6, <1>8, HeapAssumption DEF RestBits
  <2> QED BY <1>8, <2>1 DEF RestBits, Own, Span
<1>10. BlobTypeOK'
  <2>1. Len(table') <= MaxBlobs /\ free' \in Int
    BY <1>1, <1>3, <1>6, <1>7, <1>8, HeapAssumption DEF BlobTypeOK
  <2> QED BY <1>1, <1>6, <1>7, <2>1 DEF BlobTypeOK
<1>11. Placed'
  <2>1. \A p \in Block, i \in 1 .. Len(table') :
          Claims(p) /\ hdr[p].id = table'[i].id => table'[i].start = p /\ table'[i].len = hdr[p].len
    BY <1>1, <1>7 DEF Placed
  <2> QED BY <1>1, <1>6, <2>1 DEF Placed, Claims
<1>12. RestIds'
  BY <1>1, <1>6, <1>60, <1>7 DEF RestIds, Claims, Issued
<1>13. RestOwned'
  BY <1>1, <1>6, <1>60 DEF RestOwned, Claims, Own, Span
<1> QED BY <1>9, <1>10, <1>11, <1>12, <1>13 DEF RestInv

LEMMA KGetRest ==
  ASSUME RestInv, NEW id \in Ids, KGet(id)
  PROVE  RestInv'
<1>1. BlobTypeOK /\ Placed /\ RestIds /\ RestOwned /\ RestBits
  BY DEF RestInv
<1>2. PICK p \in Block : p = Min(Found(hdr, id)) /\ Claims(p) /\ hdr[p].id = id
  BY FirstFound, FoundIs DEF KGet
<1> DEFINE e == [id |-> id, start |-> p, len |-> hdr[p].len]
<1>3. e \in Blobs /\ e.id = id /\ e.start = p /\ e.len = hdr[p].len
  BY <1>1, <1>2, HeaderIs DEF Blobs
<1>4. /\ Len(table) < MaxBlobs /\ table' = Append(table, e)
      /\ entered' = entered \cup {e}
      /\ UNCHANGED <<used, free, nextId, hdr, cache, bop, live, leaked, Held>>
  BY <1>2 DEF KGet, shared, Held
<1> HIDE DEF e
<1>5. /\ table' \in Seq(Blobs) /\ Len(table') = Len(table) + 1 /\ Len(table) \in Nat
      /\ \A i \in 1 .. Len(table) : table'[i] = table[i]
      /\ table'[Len(table) + 1] = e
  BY <1>1, <1>3, <1>4, AppendProperties, LenProperties DEF BlobTypeOK
<1>6. \A i \in 1 .. Len(table') : (i \in 1 .. Len(table) /\ table'[i] = table[i]) \/ table'[i] = e
  BY <1>5
<1>7. BlobTypeOK'
  BY <1>1, <1>3, <1>4, <1>5, HeapAssumption DEF BlobTypeOK
<1>8. Placed'
  <2>1. ASSUME NEW q \in Block, NEW i \in 1 .. Len(table'), Claims(q), hdr[q].id = table'[i].id
        PROVE  table'[i].start = q /\ table'[i].len = hdr[q].len
    <3>1. CASE table'[i] = e
      <4>1. q = p
        BY <1>1, <1>2, <1>3, <2>1, <3>1 DEF Placed
      <4> QED BY <1>3, <3>1, <4>1
    <3>2. CASE i \in 1 .. Len(table) /\ table'[i] = table[i]
      BY <1>1, <2>1, <3>2 DEF Placed
    <3> QED BY <1>6, <3>1, <3>2
  <2> QED BY <1>1, <1>4, <2>1 DEF Placed, Claims
<1>9. RestIds'
  <2>1. \A i \in 1 .. Len(table') : table'[i].id \in Issued
    BY <1>1, <1>2, <1>3, <1>6 DEF RestIds
  <2>2. \A x \in entered' : x.id \in Issued
    BY <1>1, <1>2, <1>3, <1>4 DEF RestIds
  <2> QED BY <1>1, <1>4, <2>1, <2>2 DEF RestIds, Claims, Issued
<1>10. RestOwned' /\ RestBits'
  BY <1>1, <1>4 DEF RestOwned, RestBits, Claims, Own, Span
<1> QED BY <1>7, <1>8, <1>9, <1>10 DEF RestInv

(* Data never reaches the first block of a blob in use.                    *)
LEMMA FillDataRest ==
  ASSUME RestInv, NEW b \in live, FillData(b)
  PROVE  RestInv'
<1>1. BlobTypeOK /\ Placed /\ RestIds /\ RestOwned /\ RestBits /\ b \in Held
  BY DEF RestInv, Held
<1> DEFINE gone == Span(b.start + 1, b.len - 1)
<1>2. /\ hdr' = [p \in Block |-> IF p \in gone THEN None ELSE hdr[p]]
      /\ UNCHANGED <<used, free, nextId, table, cache, bop, live, entered, leaked, Held>>
  BY DEF FillData, hist, Held
<1>3. gone \subseteq Own(b) /\ b.start \notin gone
  <2>1. b.start \in Int /\ b.len \in Int /\ b.len >= 1
    BY <1>1, BlobIs, HeapAssumption DEF Block
  <2> QED BY <2>1 DEF Span, Own
<1> HIDE DEF gone
<1>4. \A p \in Block : Claims(p)' => Claims(p) /\ hdr'[p] = hdr[p]
  BY <1>2 DEF Claims
<1>5. ASSUME NEW a \in Held PROVE a.start \in Block /\ a.start \notin gone
  <2>1. a.start \in Block /\ a.start \in Own(a)
    BY <1>1, BlobIs, SpanIs DEF RestOwned, Own
  <2>2. CASE a = b
    BY <1>3, <2>1, <2>2
  <2>3. CASE a # b
    BY <1>1, <1>3, <2>1, <2>3 DEF RestOwned
  <2> QED BY <2>2, <2>3
<1>6. \A a \in Held : hdr'[a.start] = hdr[a.start]
  BY <1>2, <1>5
<1>7. BlobTypeOK'
  <2>1. hdr' \in [Block -> Hdrs]
    BY <1>1, <1>2 DEF BlobTypeOK, Hdrs
  <2> QED BY <1>1, <1>2, <2>1 DEF BlobTypeOK
<1>8. Placed'
  BY <1>1, <1>2, <1>4 DEF Placed
<1>9. RestIds'
  BY <1>1, <1>2, <1>4 DEF RestIds, Issued
<1>10. RestOwned'
  BY <1>1, <1>2, <1>6 DEF RestOwned, Claims, Own, Span
<1>11. RestBits'
  BY <1>1, <1>2 DEF RestBits, Own, Span
<1> QED BY <1>7, <1>8, <1>9, <1>10, <1>11 DEF RestInv

LEMMA RestUnchanged ==
  ASSUME RestInv, UNCHANGED <<used, free, nextId, hdr, table, cache, live, entered, leaked, Held>>
  PROVE  RestInv'
BY DEF RestInv, BlobTypeOK, Placed, RestIds, RestOwned, RestBits, Claims, Own, Span, Issued

(* A blob given back in vain stays where it is.                            *)
LEMMA RestGivenUp ==
  ASSUME RestInv, NEW b \in live, live' = live \ {b}, leaked' = leaked \cup {b},
         UNCHANGED <<used, free, nextId, hdr, table, cache, entered>>
  PROVE  RestInv'
<1>1. BlobTypeOK /\ Placed /\ RestIds /\ RestOwned /\ RestBits
  BY DEF RestInv
<1>2. Held' = Held /\ live' \cap leaked' = {}
  BY <1>1 DEF Held, RestIds
<1>3. BlobTypeOK' /\ Placed'
  BY <1>1 DEF BlobTypeOK, Placed, Claims
<1>4. RestIds' /\ RestOwned' /\ RestBits'
  BY <1>1, <1>2 DEF RestIds, RestOwned, RestBits, Claims, Own, Span, Issued
<1> QED BY <1>3, <1>4 DEF RestInv

(* The kernel only runs while the bridge is idle.                          *)
LEMMA KernelStep ==
  ASSUME TakeTurns, HeapInv, Kernel
  PROVE  HeapInv'
<1>1. bop = Idle /\ bop' = bop
  BY DEF Kernel, KAlloc, KAllocFail, KFree, KFreeUnknown, FillData, KGet, KernelTurn, TakeTurns,
         blobVars
<1>2. Resting /\ Resting'
  BY <1>1 DEF Resting, Idle
<1>3. RestInv /\ BridgeLocals
  BY <1>2, AtRest
<1>4. BridgeLocals'
  BY <1>1, <1>3 DEF BridgeLocals, GivingOut, Idle
<1>5. RestInv'
  <2>1. ASSUME NEW n \in 1 .. MaxLen, KAlloc(n) PROVE RestInv'
    BY <1>3, <2>1, KAllocRest
  <2>2. ASSUME NEW n \in 1 .. MaxLen, KAllocFail(n) PROVE RestInv'
    BY <1>3, <2>2, RestUnchanged DEF KAllocFail, blobVars, Held
  <2>3. ASSUME NEW b \in live, KFree(b) PROVE RestInv'
    BY <1>3, <2>3, KFreeRest
  <2>4. ASSUME NEW b \in live, KFreeUnknown(b) PROVE RestInv'
    <3>1. /\ UNCHANGED <<used, free, nextId, hdr, table, cache, entered>>
          /\ live' = live \ {b} /\ leaked' = leaked \cup {b}
      BY <2>4 DEF KFreeUnknown, shared
    <3> QED BY <1>3, <3>1, RestGivenUp
  <2>5. ASSUME NEW b \in live, FillData(b) PROVE RestInv'
    BY <1>3, <2>5, FillDataRest
  <2>6. ASSUME NEW id \in Ids, KGet(id) PROVE RestInv'
    BY <1>3, <2>6, KGetRest
  <2> QED BY <2>1, <2>2, <2>3, <2>4, <2>5, <2>6 DEF Kernel
<1> QED BY <1>2, <1>4, <1>5, AtRestNext

-----------------------------------------------------------------------------
(* The bridge.                                                             *)
LEMMA IdleIs == Idle \in Ops /\ Idle.pc = "idle"
<1>1. NoBlob \in Blobs
  BY HeapAssumption DEF NoBlob, Blobs, Ids, Block
<1> QED BY <1>1, HeapAssumption DEF Idle, Ops, Ids, Block

LEMMA BackToIdle ==
  ASSUME RestInv', bop' = Idle
  PROVE  HeapInv'
<1>1. Resting'
  BY IdleIs DEF Resting
<1>2. BridgeLocals'
  BY IdleIs DEF BridgeLocals, GivingOut
<1> QED BY <1>1, <1>2, AtRestNext

LEMMA BAllocCtlStep ==
  ASSUME HeapInv, NEW n \in 1 .. MaxLen, BAllocCtl(n)
  PROVE  HeapInv'
<1>1. /\ bop = Idle /\ nextId <= MaxAllocs /\ nextId < IdSpan
      /\ bop' = [Idle EXCEPT !.pc = "bitmap", !.len = n, !.free = free, !.id = nextId]
      /\ UNCHANGED <<used, free, nextId, hdr, table, cache, live, entered, leaked, Held>>
  BY DEF BAllocCtl, shared, hist, Held
<1>2. RestInv
  BY <1>1, AtRest, IdleIs DEF Resting
<1>3. RestInv'
  BY <1>1, <1>2, RestUnchanged
<1>4. nextId \in Ids /\ free \in Int /\ n \in 0 .. MaxLen /\ n >= 1
  BY <1>1, <1>2, HeapAssumption DEF RestInv, BlobTypeOK, Ids
<1>5. bop' \in Ops /\ bop'.pc = "bitmap" /\ bop'.len = n /\ bop'.free = free /\ bop'.id = nextId
  BY <1>1, <1>4, IdleIs DEF Ops
<1>6. Resting' /\ BridgeLocals'
  BY <1>1, <1>4, <1>5 DEF Resting, BridgeLocals, GivingOut
<1> QED BY <1>3, <1>6, AtRestNext

LEMMA BAllocBitmapStep ==
  ASSUME HeapInv, BAllocBitmap
  PROVE  HeapInv'
<1>1. bop.pc = "bitmap" /\ UNCHANGED <<used, free, nextId, hdr, table, cache, live, entered, leaked, Held>>
  BY DEF BAllocBitmap, shared, hist, Held
<1>2. RestInv /\ BridgeLocals
  BY <1>1, AtRest DEF Resting
<1>3. RestInv'
  BY <1>1, <1>2, RestUnchanged
<1>4. bop \in Ops /\ bop.len \in 1 .. MaxLen /\ bop.id = nextId /\ nextId <= MaxAllocs
      /\ bop.free = free
  BY <1>1, <1>2, HeapAssumption DEF BridgeLocals, Ops
<1>5. CASE Fits(used, bop.len) = {}
  BY <1>3, <1>5, BackToIdle DEF BAllocBitmap
<1>6. CASE Fits(used, bop.len) # {}
  <2>1. PICK s \in Block : /\ s = Min(Fits(used, bop.len)) /\ s + bop.len <= NBlocks
                           /\ Span(s, bop.len) \cap used = {}
    BY <1>4, <1>6, FirstFit
  <2>2. bop' = [bop EXCEPT !.pc = "header", !.start = s, !.used = used]
    BY <1>6, <2>1 DEF BAllocBitmap
  <2>3. used \in SUBSET Block
    BY <1>2 DEF RestInv, BlobTypeOK
  <2>4. /\ bop' \in Ops /\ bop'.pc = "header" /\ bop'.start = s /\ bop'.used = used
        /\ bop'.len = bop.len /\ bop'.free = bop.free /\ bop'.id = bop.id
    BY <1>4, <2>2, <2>3 DEF Ops
  <2>5. Resting'
    BY <2>4 DEF Resting
  <2>6. BridgeLocals'
    <3>1. bop'.len >= 1 /\ bop'.id = nextId' /\ nextId' <= MaxAllocs /\ bop'.free = free'
      BY <1>1, <1>4, <2>4
    <3>2. bop'.start + bop'.len <= NBlocks /\ bop'.used = used'
          /\ Span(bop'.start, bop'.len) \cap used' = {}
      BY <1>1, <2>1, <2>4
    <3> QED BY <2>4, <3>1, <3>2 DEF BridgeLocals, GivingOut, Span
  <2> QED BY <1>3, <2>5, <2>6, AtRestNext
<1> QED BY <1>5, <1>6

LEMMA BAllocHeaderStep ==
  ASSUME HeapInv, BAllocHeader
  PROVE  HeapInv'
<1>1. /\ bop.pc = "header" /\ bop' = [bop EXCEPT !.pc = "store"]
      /\ hdr' = [hdr EXCEPT ![bop.start] = [id |-> bop.id, len |-> bop.len, off |-> "header"]]
      /\ UNCHANGED <<used, free, nextId, table, cache, live, entered, leaked, Held>>
  BY DEF BAllocHeader, hist, Held
<1>2. /\ BlobTypeOK /\ Placed /\ RestIds /\ RestOwned /\ RestBits /\ BridgeLocals
  BY <1>1, AtRest DEF Resting, RestInv
<1>3. /\ bop \in Ops /\ bop.start \in Block /\ bop.len \in 1 .. MaxLen /\ bop.id \in Ids
      /\ bop.id = nextId /\ nextId <= MaxAllocs /\ bop.free = free
      /\ bop.start + bop.len <= NBlocks /\ bop.used = used
      /\ Span(bop.start, bop.len) \cap used = {}
  BY <1>1, <1>2, HeapAssumption DEF BridgeLocals, Ops
<1>4. PICK s \in Block, n \in 1 .. MaxLen : s = bop.start /\ n = bop.len
  BY <1>3
<1>5. /\ bop' \in Ops /\ bop'.pc = "store" /\ bop'.start = s /\ bop'.used = used
      /\ bop'.len = n /\ bop'.free = free /\ bop'.id = nextId
  BY <1>1, <1>3, <1>4 DEF Ops
<1>6. /\ nextId \in Ids /\ nextId >= 1 /\ nextId \in Nat
      /\ [id |-> nextId, len |-> n, off |-> "header"] \in Hdrs
      /\ [id |-> nextId, len |-> n, off |-> "header"] # None
  BY <1>2, <1>3, HeapAssumption DEF Hdrs, None, BlobTypeOK
<1>7. /\ hdr' \in [Block -> Hdrs] /\ hdr'[s] = [id |-> nextId, len |-> n, off |-> "header"]
      /\ \A p \in Block : p # s => hdr'[p] = hdr[p]
  BY <1>1, <1>2, <1>3, <1>4, <1>6 DEF BlobTypeOK
<1>8. /\ Claims(s)' /\ hdr'[s].id = nextId /\ hdr'[s].len = n
      /\ \A p \in Block : p # s => (Claims(p)' <=> Claims(p))
  <2>1. hdr'[s].id = nextId /\ hdr'[s].len = n /\ hdr'[s] # None
    BY <1>6, <1>7
  <2> QED BY <1>7, <2>1 DEF Claims
<1>9. BlobTypeOK'
  BY <1>1, <1>2, <1>7 DEF BlobTypeOK
<1>10. nextId \notin Issued /\ Issued' = Issued
  BY <1>1, <1>6 DEF Issued
<1>11. Placed'
  <2>1. \A p, q \in Block : Claims(p)' /\ Claims(q)' /\ hdr'[p].id = hdr'[q].id => p = q
    BY <1>2, <1>7, <1>8, <1>10 DEF RestIds, Placed
  <2>2. \A p \in Block, i \in 1 .. Len(table) :
          Claims(p)' /\ hdr'[p].id = table[i].id =>
            table[i].start = p /\ table[i].len = hdr'[p].len
    BY <1>2, <1>7, <1>8, <1>10 DEF RestIds, Placed
  <2>3. \A p \in Block : Claims(p)' /\ cache[hdr'[p].id] # Missing => cache[hdr'[p].id] = p
    BY <1>2, <1>6, <1>7, <1>8, <1>10 DEF RestIds, Placed
  <2> QED BY <1>1, <2>1, <2>2, <2>3 DEF Placed
<1>12. GivingOut' /\ Holders' = Held /\ Holders = Held /\ InWork' = {} /\ Uncounted' = 0
  BY <1>1, <1>5 DEF GivingOut, Holders, Dropping, InWork, Uncounted
<1>13. IdsIssued'
  <2>1. \A p \in Block : Claims(p)' => hdr'[p].id \in Issued \/ p = bop'.start
    BY <1>2, <1>5, <1>7, <1>8 DEF RestIds
  <2> QED BY <1>1, <1>2, <1>10, <1>12, <2>1 DEF IdsIssued, RestIds
<1>14. ASSUME NEW b \in Held PROVE b.start \in Block /\ b.start # s
  <2>1. b.start \in Block /\ b.start \in Own(b)
    BY <1>2, BlobIs, SpanIs DEF RestOwned, Own
  <2>2. b.start \in used
    BY <1>2, <2>1 DEF RestBits
  <2>3. s \in Span(s, n)
    BY <1>3, <1>4, SpanIs
  <2> QED BY <1>3, <1>4, <2>1, <2>2, <2>3
<1>15. Owned'
  <2>1. \A b \in Held : /\ b.start + b.len <= NBlocks /\ Claims(b.start)'
                        /\ hdr'[b.start].id = b.id /\ hdr'[b.start].len = b.len
    BY <1>2, <1>7, <1>8, <1>14 DEF RestOwned
  <2>2. \A a, b \in Held : a # b => Own(a) \cap Own(b) = {}
    BY <1>2 DEF RestOwned
  <2> QED BY <1>12, <2>1, <2>2 DEF Owned, Own, Span
<1>16. Bits'
  <2>1. free = NBlocks - Cardinality(used) + 0
    BY <1>2, UsedIsFinite, HeapAssumption DEF RestBits
  <2> QED BY <1>1, <1>2, <1>12, <2>1 DEF Bits, RestBits, Own, Span
<1>17. BridgeLocals'
  <2>1. bop'.len >= 1 /\ bop'.id = nextId' /\ nextId' <= MaxAllocs /\ bop'.free = free'
    BY <1>1, <1>3, <1>5
  <2>2. bop'.start + bop'.len <= NBlocks /\ bop'.used = used'
        /\ Span(bop'.start, bop'.len) \cap used' = {}
    BY <1>1, <1>3, <1>4, <1>5
  <2>3. Claims(bop.start)' /\ hdr'[bop'.start].id = bop'.id /\ hdr'[bop'.start].len = bop'.len
    BY <1>5, <1>8 DEF Claims
  <2> QED BY <1>5, <2>1, <2>2, <2>3 DEF BridgeLocals, GivingOut, Span
<1> QED BY <1>9, <1>11, <1>13, <1>15, <1>16, <1>17 DEF HeapInv

LEMMA BAllocStoreStep ==
  ASSUME HeapInv, BAllocStore
  PROVE  HeapInv'
<1>1. /\ bop.pc = "store" /\ bop' = [bop EXCEPT !.pc = "control"]
      /\ used' = bop.used \cup Span(bop.start, bop.len)
      /\ UNCHANGED <<free, nextId, hdr, table, cache, live, entered, leaked, Held>>
  BY DEF BAllocStore, hist, Held
<1>2. BlobTypeOK /\ Placed /\ IdsIssued /\ Owned /\ Bits /\ BridgeLocals
  BY DEF HeapInv
<1>3. /\ bop \in Ops /\ bop.start \in Block /\ bop.len \in 1 .. MaxLen
      /\ bop.id = nextId /\ nextId <= MaxAllocs /\ bop.free = free
      /\ bop.start + bop.len <= NBlocks /\ bop.used = used
      /\ Span(bop.start, bop.len) \cap used = {}
      /\ Claims(bop.start) /\ hdr[bop.start].id = bop.id /\ hdr[bop.start].len = bop.len
  BY <1>1, <1>2, HeapAssumption DEF BridgeLocals, Ops, GivingOut
<1>4. PICK s \in Block, n \in 1 .. MaxLen : s = bop.start /\ n = bop.len
  BY <1>3
<1>5. /\ bop' \in Ops /\ bop'.pc = "control" /\ bop'.start = s
      /\ bop'.len = n /\ bop'.free = free /\ bop'.id = nextId
  BY <1>1, <1>3, <1>4 DEF Ops
<1>6. /\ GivingOut /\ GivingOut' /\ Holders' = Held /\ Holders = Held
      /\ InWork = {} /\ InWork' = Span(s, n) /\ Uncounted = 0 /\ Uncounted' = n
  <2>1. InWork' = Span(bop'.start, bop'.len)
    BY <1>5 DEF InWork, Span
  <2> QED BY <1>1, <1>5, <2>1 DEF GivingOut, Holders, Dropping, InWork, Uncounted
<1>7. /\ used' = used \cup Span(s, n) /\ used \cap Span(s, n) = {}
      /\ IsFiniteSet(Span(s, n)) /\ Cardinality(Span(s, n)) = n /\ Span(s, n) \subseteq Block
  BY <1>1, <1>3, <1>4, SpanIs
<1>8. BlobTypeOK'
  BY <1>1, <1>2, <1>7 DEF BlobTypeOK
<1>9. Placed' /\ IdsIssued'
  BY <1>1, <1>2, <1>4, <1>5, <1>6 DEF Placed, IdsIssued, Claims, Issued
<1>10. Owned'
  BY <1>1, <1>2, <1>6 DEF Owned, Claims, Own, Span
<1>11. Bits'
  <2>1. Cardinality(used') = Cardinality(used) + n /\ Cardinality(used) \in Nat
    BY <1>2, <1>7, CountTaken, UsedIsFinite
  <2>2. free' = NBlocks - Cardinality(used') + n
    BY <1>1, <1>2, <1>6, <2>1, HeapAssumption DEF Bits
  <2>3. \A x : x \in used' <=> x \in Span(s, n) \/ \E b \in Held : x \in Own(b)
    BY <1>2, <1>6, <1>7 DEF Bits
  <2>4. \A b \in Held : Own(b) \cap Span(s, n) = {}
    BY <1>2, <1>6, <1>7 DEF Bits
  <2> QED BY <1>6, <2>2, <2>3, <2>4 DEF Bits, Own, Span
<1>12. BridgeLocals'
  <2>1. bop'.len >= 1 /\ bop'.id = nextId' /\ nextId' <= MaxAllocs /\ bop'.free = free'
        /\ bop'.start + bop'.len <= NBlocks
    BY <1>1, <1>3, <1>4, <1>5
  <2>2. Claims(bop.start)' /\ hdr'[bop'.start].id = bop'.id /\ hdr'[bop'.start].len = bop'.len
    BY <1>1, <1>3, <1>4, <1>5 DEF Claims
  <2> QED BY <1>5, <2>1, <2>2 DEF BridgeLocals, GivingOut
<1> QED BY <1>8, <1>9, <1>10, <1>11, <1>12 DEF HeapInv

LEMMA BAllocControlStep ==
  ASSUME HeapInv, BAllocControl
  PROVE  HeapInv'
<1>1. BlobTypeOK /\ Placed /\ IdsIssued /\ Owned /\ Bits /\ BridgeLocals /\ bop.pc = "control"
  BY DEF HeapInv, BAllocControl
<1>2. /\ bop.start \in Block /\ bop.len \in 1 .. MaxLen /\ bop.id = nextId
      /\ bop.id \in Ids /\ nextId <= MaxAllocs /\ bop.free = free
      /\ bop.start + bop.len <= NBlocks
      /\ Claims(bop.start) /\ hdr[bop.start].id = bop.id /\ hdr[bop.start].len = bop.len
  BY <1>1, HeapAssumption DEF BridgeLocals, Ops, GivingOut
<1>3. PICK s \in Block, n \in 1 .. MaxLen, id \in Ids :
        s = bop.start /\ n = bop.len /\ id = nextId
  BY <1>2
<1> DEFINE b == [id |-> id, start |-> s, len |-> n]
<1>4. /\ free' = free - n /\ nextId' = id + 1 /\ cache' = [cache EXCEPT ![id] = s]
      /\ live' = live \cup {b} /\ bop' = Idle /\ UNCHANGED <<used, hdr, table, entered, leaked>>
  BY <1>2, <1>3 DEF BAllocControl
<1>40. Held' = Held \cup {b}
  BY <1>4 DEF Held
<1>5. b \in Blobs /\ b.id = id /\ b.start = s /\ b.len = n /\ Own(b) = Span(s, n)
  BY DEF Blobs, Own
<1> HIDE DEF b
<1>6. Holders = Held /\ InWork = Span(s, n) /\ Uncounted = n /\ GivingOut
  BY <1>1, <1>3 DEF Holders, Dropping, InWork, Uncounted, GivingOut
<1>7. id \in Nat /\ id >= 1 /\ id \notin Issued /\ id \in Issued' /\ \A i \in Issued : i \in Issued'
  BY <1>1, <1>3, <1>4 DEF Issued, BlobTypeOK
<1>8. /\ cache \in [Ids -> Block \cup {Missing}] /\ cache'[id] = s
      /\ \A i \in Ids : i # id => cache'[i] = cache[i]
  BY <1>1, <1>4 DEF BlobTypeOK
<1>9. BlobTypeOK'
  <2>1. nextId' \in 1 .. (MaxAllocs + 1) /\ free' \in Int
    BY <1>1, <1>2, <1>3, <1>4, HeapAssumption DEF BlobTypeOK
  <2>2. cache' \in [Ids -> Block \cup {Missing}] /\ live' \subseteq Blobs
    BY <1>1, <1>4, <1>5 DEF BlobTypeOK
  <2> QED BY <1>1, <1>4, <2>1, <2>2 DEF BlobTypeOK
<1>10. Placed'
  <2>1. ASSUME NEW p \in Block, Claims(p), cache'[hdr[p].id] # Missing
        PROVE  cache'[hdr[p].id] = p
    <3>1. hdr[p].id \in Ids
      BY <1>1, <2>1, HeaderIs
    <3>2. CASE hdr[p].id = id
      <4>1. p = s
        BY <1>1, <1>2, <1>3, <2>1, <3>2 DEF Placed
      <4> QED BY <1>8, <3>2, <4>1
    <3>3. CASE hdr[p].id # id
      BY <1>1, <1>8, <2>1, <3>1, <3>3 DEF Placed
    <3> QED BY <3>2, <3>3
  <2> QED BY <1>1, <1>4, <2>1 DEF Placed, Claims
<1>11. RestIds'
  <2>1. \A p \in Block : Claims(p) => hdr[p].id \in Issued'
    BY <1>1, <1>2, <1>3, <1>7 DEF IdsIssued
  <2>2. \A i \in 1 .. Len(table) : table[i].id \in Issued'
    BY <1>1, <1>7 DEF IdsIssued
  <2>3. \A i \in Ids : cache'[i] # Missing => i \in Issued'
    BY <1>1, <1>7, <1>8 DEF IdsIssued
  <2>4. \A a \in Held' : a.id \in Issued'
    BY <1>1, <1>40, <1>5, <1>7 DEF IdsIssued
  <2>5. \A a \in entered' : a.id \in Issued'
    BY <1>1, <1>4, <1>7 DEF IdsIssued
  <2>6. b \notin leaked
    BY <1>1, <1>5, <1>7 DEF IdsIssued, Held
  <2>7. live' \cap leaked' = {}
    BY <1>1, <1>4, <2>6 DEF IdsIssued
  <2> QED BY <1>4, <2>1, <2>2, <2>3, <2>4, <2>5, <2>7 DEF RestIds, Claims
<1>12. RestOwned'
  <2>1. \A a \in Held' : /\ a.start + a.len <= NBlocks /\ Claims(a.start)
                         /\ hdr[a.start].id = a.id /\ hdr[a.start].len = a.len
    BY <1>1, <1>2, <1>3, <1>40, <1>5, <1>6 DEF Owned
  <2>2. \A a, c \in Held' : a # c => Own(a) \cap Own(c) = {}
    <3>1. \A a \in Held : Own(a) \cap Own(b) = {}
      BY <1>1, <1>5, <1>6 DEF Bits
    <3>2. \A a, c \in Held : a # c => Own(a) \cap Own(c) = {}
      BY <1>1, <1>6 DEF Owned
    <3> QED BY <1>40, <3>1, <3>2
  <2> QED BY <1>4, <2>1, <2>2 DEF RestOwned, Claims, Own, Span
<1>13. RestBits'
  <2>1. \A x : x \in used <=> \E a \in Held' : x \in Own(a)
    BY <1>1, <1>40, <1>5, <1>6 DEF Bits
  <2>2. free' = NBlocks - Cardinality(used)
    BY <1>1, <1>4, <1>6, UsedIsFinite, HeapAssumption DEF Bits
  <2> QED BY <1>4, <2>1, <2>2 DEF RestBits, Own, Span
<1>14. RestInv'
  BY <1>9, <1>10, <1>11, <1>12, <1>13 DEF RestInv
<1> QED BY <1>4, <1>14, BackToIdle

(* A scan enters the place of each header it passes, the only one there    *)
(* can be.                                                                 *)
LEMMA ScannedIs ==
  ASSUME RestInv, NEW id \in Ids
  PROVE  /\ Scanned(id) \in [Ids -> Block \cup {Missing}]
         /\ \A i \in Ids : Scanned(id)[i] = cache[i]
              \/ \E p \in Block : Claims(p) /\ hdr[p].id = i /\ Scanned(id)[i] = p
<1>1. BlobTypeOK /\ Placed
  BY DEF RestInv
<1>2. \A p \in Passed(id) : p \in Block /\ Claims(p)
  BY DEF Passed, Stops, Claims
<1> DEFINE at(i) == {p \in Passed(id) : hdr[p].id = i}
           new(i) == IF at(i) = {} THEN cache[i] ELSE Max(at(i))
<1>3. ASSUME NEW i \in Ids
      PROVE  new(i) = cache[i] \/ \E p \in Block : Claims(p) /\ hdr[p].id = i /\ new(i) = p
  <2>1. CASE at(i) = {}
    BY <2>1
  <2>2. CASE at(i) # {}
    <3>1. PICK p : p \in at(i)
      BY <2>2
    <3>2. p \in Block /\ Claims(p) /\ hdr[p].id = i /\ p \in Int
      BY <1>2, <3>1 DEF Block
    <3>3. at(i) = {p}
      <4>1. ASSUME NEW q \in at(i) PROVE q = p
        BY <1>1, <1>2, <3>2, <4>1 DEF Placed
      <4> QED BY <3>1, <4>1
    <3>4. Max({p}) = p
      BY <3>2 DEF Max
    <3>5. new(i) = p
      BY <2>2, <3>3, <3>4
    <3> QED BY <3>2, <3>5
  <2> QED BY <2>1, <2>2
<1>4. Scanned(id) = [i \in Ids |-> new(i)]
  BY DEF Scanned
<1> HIDE DEF new
<1>5. \A i \in Ids : cache[i] \in Block \cup {Missing}
  BY <1>1 DEF BlobTypeOK
<1>6. \A i \in Ids : new(i) \in Block \cup {Missing}
  BY <1>3, <1>5
<1> QED BY <1>3, <1>4, <1>6

LEMMA ScanRest ==
  ASSUME RestInv, NEW id \in Ids, cache' = Scanned(id),
         UNCHANGED <<used, free, nextId, hdr, table, entered, Held>>,
         live' \cap leaked' = {}, live' \subseteq Blobs, leaked' \subseteq Blobs
  PROVE  RestInv'
<1>1. BlobTypeOK /\ Placed /\ RestIds /\ RestOwned /\ RestBits
  BY DEF RestInv
<1>2. /\ cache' \in [Ids -> Block \cup {Missing}]
      /\ \A i \in Ids : cache'[i] = cache[i]
           \/ \E p \in Block : Claims(p) /\ hdr[p].id = i /\ cache'[i] = p
  BY ScannedIs
<1>3. \A p \in Block : Claims(p) /\ cache'[hdr[p].id] # Missing => cache'[hdr[p].id] = p
  <2> SUFFICES ASSUME NEW p \in Block, Claims(p), cache'[hdr[p].id] # Missing
               PROVE  cache'[hdr[p].id] = p
    OBVIOUS
  <2>1. hdr[p].id \in Ids
    BY <1>1, HeaderIs
  <2>2. CASE cache'[hdr[p].id] = cache[hdr[p].id]
    BY <1>1, <2>2 DEF Placed
  <2>3. CASE \E q \in Block : Claims(q) /\ hdr[q].id = hdr[p].id /\ cache'[hdr[p].id] = q
    BY <1>1, <2>3 DEF Placed
  <2> QED BY <1>2, <2>1, <2>2, <2>3
<1>4. BlobTypeOK'
  BY <1>1, <1>2 DEF BlobTypeOK
<1>5. Placed'
  BY <1>1, <1>3 DEF Placed, Claims
<1>6. RestIds'
  <2>1. \A i \in Ids : cache'[i] # Missing => i \in Issued
    BY <1>1, <1>2 DEF RestIds
  <2> QED BY <1>1, <2>1 DEF RestIds, Claims, Issued
<1>7. RestOwned' /\ RestBits'
  BY <1>1 DEF RestOwned, RestBits, Claims, Own, Span
<1> QED BY <1>4, <1>5, <1>6, <1>7 DEF RestInv

(* A blob in use has a header of its own in its first block, where the     *)
(* cache has it, if it has it at all.                                      *)
LEMMA TargetIs ==
  ASSUME RestInv, NEW b \in live, Target(b) # Missing
  PROVE  Target(b) = b.start
<1>1. BlobTypeOK /\ Placed /\ RestOwned /\ b \in Held
  BY DEF RestInv, Held
<1>2. /\ b.id \in Ids /\ b.start \in Block /\ Claims(b.start) /\ hdr[b.start].id = b.id
  BY <1>1, BlobIs DEF RestOwned
<1>3. \/ Target(b) = cache[b.id]
      \/ \E p \in Block : Claims(p) /\ hdr[p].id = b.id /\ Target(b) = p
  BY <1>2, ScannedIs DEF Target
<1> QED BY <1>1, <1>2, <1>3 DEF Placed

LEMMA BFreeFindStep ==
  ASSUME HeapInv, NEW b \in live, BFreeFind(b)
  PROVE  HeapInv'
<1>1. /\ bop = Idle /\ Hit(b) /\ cache' = Scanned(b.id)
      /\ UNCHANGED <<used, free, nextId, hdr, table, live, entered, leaked, Held>>
  BY DEF BFreeFind, shared, hist, Held
<1>2. RestInv
  BY <1>1, AtRest, IdleIs DEF Resting
<1>3. BlobTypeOK /\ RestOwned /\ b \in Held
  BY <1>2 DEF RestInv, Held
<1>4. b.id \in Ids /\ b.start \in Block /\ b.len \in 1 .. MaxLen
      /\ b.start + b.len <= NBlocks /\ hdr[b.start].len = b.len
  BY <1>3, BlobIs DEF RestOwned
<1>5. RestInv'
  <2>1. live' \cap leaked' = {} /\ live' \subseteq Blobs /\ leaked' \subseteq Blobs
    BY <1>1, <1>2 DEF RestInv, RestIds, BlobTypeOK
  <2> QED BY <1>1, <1>2, <1>4, <2>1, ScanRest
<1>6. Target(b) = b.start
  BY <1>1, <1>2, TargetIs DEF Hit
<1>7. bop' = [Idle EXCEPT !.pc = "wipe", !.blob = b, !.start = b.start,
                          !.len = b.len, !.used = used]
  BY <1>4, <1>6 DEF BFreeFind
<1>8. b \in Blobs /\ used \in SUBSET Block /\ b.len \in 0 .. MaxLen /\ b.len >= 1
  BY <1>3, <1>4 DEF BlobTypeOK
<1>9. /\ bop' \in Ops /\ bop'.pc = "wipe" /\ bop'.blob = b /\ bop'.start = b.start
      /\ bop'.len = b.len /\ bop'.used = used
  BY <1>4, <1>7, <1>8, IdleIs DEF Ops
<1>10. Resting'
  BY <1>9 DEF Resting
<1>11. BridgeLocals'
  BY <1>1, <1>4, <1>8, <1>9 DEF BridgeLocals, GivingOut
<1> QED BY <1>5, <1>10, <1>11, AtRestNext

LEMMA BFreeLostStep ==
  ASSUME HeapInv, NEW b \in live, BFreeLost(b)
  PROVE  HeapInv'
<1>1. /\ bop = Idle /\ bop' = Idle /\ cache' = Scanned(b.id)
      /\ UNCHANGED <<used, free, nextId, hdr, table, entered>>
      /\ \/ UNCHANGED <<live, leaked>>
         \/ live' = live \ {b} /\ leaked' = leaked \cup {b}
  BY DEF BFreeLost, shared
<1>2. RestInv
  BY <1>1, AtRest, IdleIs DEF Resting
<1>3. BlobTypeOK /\ b \in Held /\ live \cap leaked = {}
  BY <1>2 DEF RestInv, Held, RestIds
<1>4. b.id \in Ids
  BY <1>3, BlobIs
<1>5. Held' = Held /\ live' \cap leaked' = {} /\ live' \subseteq Blobs /\ leaked' \subseteq Blobs
  BY <1>1, <1>3 DEF Held, BlobTypeOK
<1>6. RestInv'
  BY <1>1, <1>2, <1>4, <1>5, ScanRest
<1> QED BY <1>1, <1>6, BackToIdle

LEMMA BFreeWipeStep ==
  ASSUME HeapInv, BFreeWipe
  PROVE  HeapInv'
<1>1. /\ bop.pc = "wipe" /\ bop' = [bop EXCEPT !.pc = "clear"]
      /\ hdr' = [hdr EXCEPT ![bop.start] = None]
      /\ UNCHANGED <<used, free, nextId, table, cache, live, entered, leaked, Held>>
  BY DEF BFreeWipe, hist, Held
<1>2. BlobTypeOK /\ Placed /\ RestIds /\ RestOwned /\ RestBits /\ BridgeLocals
  BY <1>1, AtRest DEF Resting, RestInv
<1>3. /\ bop \in Ops /\ bop.start \in Block /\ bop.blob \in Held /\ bop.len >= 1
      /\ bop.start = bop.blob.start /\ bop.len = bop.blob.len /\ bop.used = used
      /\ bop.start + bop.len <= NBlocks
  BY <1>1, <1>2 DEF BridgeLocals, Ops, Held
<1>4. PICK b \in Held : b = bop.blob
  BY <1>3
<1>5. /\ bop' \in Ops /\ bop'.pc = "clear" /\ bop'.start = b.start /\ bop'.len = b.len
      /\ bop'.blob = b /\ bop'.used = used
  BY <1>1, <1>3, <1>4 DEF Ops
<1>6. b.start \in Block /\ b.start \in Own(b)
  BY <1>2, <1>3, <1>4, BlobIs, SpanIs DEF Own
<1>7. /\ hdr' \in [Block -> Hdrs] /\ hdr'[b.start] = None
      /\ \A p \in Block : p # b.start => hdr'[p] = hdr[p]
  BY <1>1, <1>2, <1>3, <1>4, <1>6 DEF BlobTypeOK, Hdrs
<1>8. \A p \in Block : Claims(p)' => Claims(p) /\ hdr'[p] = hdr[p]
  BY <1>7 DEF Claims
<1>9. Holders' = Held \ {b} /\ InWork' = Own(b) /\ Uncounted' = 0 /\ ~GivingOut'
  <2>1. InWork' = Span(bop'.start, bop'.len)
    BY <1>5 DEF InWork, Span
  <2> QED BY <1>1, <1>5, <2>1 DEF Holders, Dropping, Uncounted, GivingOut, Own
<1>10. BlobTypeOK'
  BY <1>1, <1>2, <1>7 DEF BlobTypeOK
<1>11. Placed'
  BY <1>1, <1>2, <1>8 DEF Placed
<1>12. IdsIssued'
  BY <1>1, <1>2, <1>8 DEF IdsIssued, RestIds, Issued
<1>13. ASSUME NEW a \in Held \ {b} PROVE a.start \in Block /\ a.start # b.start
  <2>1. a.start \in Block /\ a.start \in Own(a)
    BY <1>2, BlobIs, SpanIs DEF RestOwned, Own
  <2> QED BY <1>2, <1>6, <2>1 DEF RestOwned
<1>14. Owned'
  <2>1. \A a \in Held \ {b} : /\ a.start + a.len <= NBlocks /\ Claims(a.start)'
                              /\ hdr'[a.start].id = a.id /\ hdr'[a.start].len = a.len
    BY <1>2, <1>7, <1>13 DEF RestOwned, Claims
  <2>2. \A a, c \in Held \ {b} : a # c => Own(a) \cap Own(c) = {}
    BY <1>2 DEF RestOwned
  <2> QED BY <1>9, <2>1, <2>2 DEF Owned, Own, Span
<1>15. Bits'
  <2>1. \A x : x \in used <=> x \in Own(b) \/ \E a \in Held \ {b} : x \in Own(a)
    BY <1>2 DEF RestBits
  <2>2. \A a \in Held \ {b} : Own(a) \cap Own(b) = {}
    BY <1>2 DEF RestOwned
  <2>3. free = NBlocks - Cardinality(used) + 0
    BY <1>2, UsedIsFinite, HeapAssumption DEF RestBits
  <2> QED BY <1>1, <1>9, <2>1, <2>2, <2>3 DEF Bits, Own, Span
<1>16. BridgeLocals'
  BY <1>1, <1>2, <1>3, <1>4, <1>5 DEF BridgeLocals, GivingOut
<1> QED BY <1>10, <1>11, <1>12, <1>14, <1>15, <1>16 DEF HeapInv

LEMMA BFreeClearStep ==
  ASSUME HeapInv, BFreeClear
  PROVE  HeapInv'
<1>1. /\ bop.pc = "clear" /\ bop' = [bop EXCEPT !.pc = "count"]
      /\ used' = bop.used \ Span(bop.start, bop.len)
      /\ UNCHANGED <<free, nextId, hdr, table, cache, live, entered, leaked, Held>>
  BY DEF BFreeClear, hist, Held
<1>2. BlobTypeOK /\ Placed /\ IdsIssued /\ Owned /\ Bits /\ BridgeLocals
  BY DEF HeapInv
<1>3. /\ bop \in Ops /\ bop.start \in Block /\ bop.blob \in Held /\ bop.len >= 1
      /\ bop.start = bop.blob.start /\ bop.len = bop.blob.len /\ bop.used = used
      /\ bop.start + bop.len <= NBlocks
  BY <1>1, <1>2 DEF BridgeLocals, Ops, Held
<1>4. PICK b \in Held : b = bop.blob
  BY <1>3
<1>5. /\ bop' \in Ops /\ bop'.pc = "count" /\ bop'.start = b.start /\ bop'.len = b.len
      /\ bop'.blob = b
  BY <1>1, <1>3, <1>4 DEF Ops
<1>6. /\ Holders = Held \ {b} /\ Holders' = Held \ {b} /\ InWork = Own(b) /\ InWork' = {}
      /\ Uncounted = 0 /\ Uncounted' = 0 - b.len /\ ~GivingOut /\ ~GivingOut'
  BY <1>1, <1>3, <1>4, <1>5 DEF Holders, Dropping, InWork, Uncounted, GivingOut, Own
<1>7. used' = used \ Own(b)
  BY <1>1, <1>3, <1>4 DEF Own
<1>8. BlobTypeOK' /\ Placed' /\ IdsIssued'
  BY <1>1, <1>2, <1>6, <1>7 DEF BlobTypeOK, Placed, IdsIssued, Claims, Issued
<1>9. Owned'
  BY <1>1, <1>2, <1>6 DEF Owned, Claims, Own, Span
<1>10. Bits'
  <2>1. \A x : x \in used' <=> \E a \in Held \ {b} : x \in Own(a)
    BY <1>2, <1>6, <1>7 DEF Bits
  <2>2. Own(b) \subseteq used
    BY <1>2, <1>6 DEF Bits
  <2>3. b.start \in Block /\ b.len \in 1 .. MaxLen
    BY <1>2, BlobIs
  <2>4. Cardinality(Own(b)) = b.len
    BY <1>3, <1>4, <2>3, SpanIs DEF Own
  <2>5. Cardinality(used') = Cardinality(used) - b.len /\ Cardinality(used) \in Nat
    BY <1>2, <1>7, <2>2, <2>4, CountGiven, UsedIsFinite
  <2>6. free' = NBlocks - Cardinality(used') + (0 - b.len)
    BY <1>1, <1>2, <1>6, <2>3, <2>5, HeapAssumption DEF Bits
  <2> QED BY <1>6, <2>1, <2>6 DEF Bits, Own, Span
<1>11. BridgeLocals'
  BY <1>1, <1>2, <1>3, <1>4, <1>5 DEF BridgeLocals, GivingOut
<1> QED BY <1>8, <1>9, <1>10, <1>11 DEF HeapInv

LEMMA BFreeCountStep ==
  ASSUME HeapInv, BFreeCount
  PROVE  HeapInv'
<1>1. BlobTypeOK /\ Placed /\ IdsIssued /\ Owned /\ Bits /\ BridgeLocals /\ bop.pc = "count"
  BY DEF HeapInv, BFreeCount
<1>2. bop \in Ops /\ bop.blob \in live /\ bop.len = bop.blob.len
  BY <1>1 DEF BridgeLocals
<1>3. PICK b \in live : b = bop.blob
  BY <1>2
<1>4. /\ free' = free + b.len /\ cache' = [cache EXCEPT ![b.id] = Missing]
      /\ live' = live \ {b} /\ bop' = Idle
      /\ UNCHANGED <<used, nextId, hdr, table, entered, leaked>>
  BY <1>2, <1>3 DEF BFreeCount
<1>40. b \in Held /\ Held' = Held \ {b} /\ live' \cap leaked' = {}
  BY <1>1, <1>4 DEF Held, IdsIssued
<1>5. Holders = Held \ {b} /\ InWork = {} /\ Uncounted = 0 - b.len /\ ~GivingOut
  BY <1>1, <1>2, <1>3 DEF Holders, Dropping, InWork, Uncounted, GivingOut
<1>6. b.id \in Ids /\ b.len \in Nat
  BY <1>1, <1>40, BlobIs, HeapAssumption
<1>7. /\ cache' \in [Ids -> Block \cup {Missing}]
      /\ \A i \in Ids : cache'[i] = Missing \/ cache'[i] = cache[i]
  BY <1>1, <1>4, <1>6 DEF BlobTypeOK
<1>8. BlobTypeOK'
  BY <1>1, <1>4, <1>6, <1>7 DEF BlobTypeOK
<1>9. Placed'
  <2>1. \A p \in Block : Claims(p) /\ cache'[hdr[p].id] # Missing => cache'[hdr[p].id] = p
    BY <1>1, <1>7, HeaderIs DEF Placed
  <2> QED BY <1>1, <1>4, <2>1 DEF Placed, Claims
<1>10. RestIds'
  BY <1>1, <1>4, <1>40, <1>5, <1>7 DEF IdsIssued, RestIds, Claims, Issued
<1>11. RestOwned'
  BY <1>1, <1>4, <1>40, <1>5 DEF Owned, RestOwned, Claims, Own, Span
<1>12. RestBits'
  <2>1. free' = NBlocks - Cardinality(used)
    BY <1>1, <1>4, <1>5, <1>6, UsedIsFinite, HeapAssumption DEF Bits
  <2>2. \A x : x \in used <=> \E a \in Held \ {b} : x \in Own(a)
    BY <1>1, <1>5 DEF Bits
  <2> QED BY <1>4, <1>40, <2>1, <2>2 DEF RestBits, Own, Span
<1>13. RestInv'
  BY <1>8, <1>9, <1>10, <1>11, <1>12 DEF RestInv
<1> QED BY <1>4, <1>13, BackToIdle

-----------------------------------------------------------------------------
LEMMA HeapStep ==
  ASSUME TakeTurns, HeapInv, [BlobNext]_blobVars
  PROVE  HeapInv'
<1>1. CASE Kernel
  BY <1>1, KernelStep
<1>2. CASE BridgeSide
  BY <1>2, BAllocCtlStep, BAllocBitmapStep, BAllocHeaderStep, BAllocStoreStep,
     BAllocControlStep, BFreeFindStep, BFreeLostStep, BFreeWipeStep, BFreeClearStep, BFreeCountStep
     DEF BridgeSide
<1>3. CASE UNCHANGED blobVars
  BY <1>3 DEF blobVars, HeapInv, BlobTypeOK, Placed, IdsIssued, Owned, Bits, BridgeLocals, Claims,
              Issued, GivingOut, Dropping, Holders, Held, Own, InWork, Uncounted, Span
<1> QED BY <1>1, <1>2, <1>3 DEF BlobNext

LEMMA HeapStart == BlobInit => HeapInv
<1> SUFFICES ASSUME BlobInit PROVE HeapInv
  OBVIOUS
<1>1. /\ used = {} /\ free = NBlocks /\ nextId = 1 /\ table = << >> /\ bop = Idle /\ live = {}
      /\ entered = {} /\ leaked = {} /\ hdr = [b \in Block |-> None] /\ cache = [i \in Ids |-> Missing]
  BY DEF BlobInit
<1>20. Held = {}
  BY <1>1 DEF Held
<1>2. Len(table) = 0 /\ table \in Seq(Blobs) /\ \A i \in 1 .. Len(table) : FALSE
  BY <1>1
<1>3. \A p \in Block : ~Claims(p)
  BY <1>1 DEF Claims
<1>4. BlobTypeOK
  <2>1. hdr \in [Block -> Hdrs] /\ cache \in [Ids -> Block \cup {Missing}]
    BY <1>1 DEF Hdrs
  <2>2. used \subseteq Block /\ free \in Int /\ nextId \in 1 .. (MaxAllocs + 1)
        /\ Len(table) <= MaxBlobs
    BY <1>1, <1>2, HeapAssumption
  <2> QED BY <1>1, <1>2, <2>1, <2>2 DEF BlobTypeOK
<1>5. Placed
  BY <1>2, <1>3 DEF Placed
<1>6. RestIds
  BY <1>1, <1>2, <1>20, <1>3 DEF RestIds
<1>7. RestOwned
  BY <1>20 DEF RestOwned
<1>8. RestBits
  BY <1>1, <1>20, FS_EmptySet, HeapAssumption DEF RestBits
<1>9. Resting /\ BridgeLocals
  BY <1>1, IdleIs DEF Resting, BridgeLocals, GivingOut
<1> QED BY <1>4, <1>5, <1>6, <1>7, <1>8, <1>9, AtRest DEF RestInv

LEMMA HeapInvariant == TakeTurns /\ BlobSpec => []HeapInv
<1> SUFFICES ASSUME TakeTurns PROVE BlobSpec => []HeapInv
  OBVIOUS
<1>1. BlobInit => HeapInv
  BY HeapStart
<1>2. HeapInv /\ [BlobNext]_blobVars => HeapInv'
  BY HeapStep
<1> QED BY <1>1, <1>2, PTL DEF BlobSpec

(* Frees find what they need: the kernel's table keeps an entry of each    *)
(* blob in use that was entered, the bridge's cache the place of each one  *)
(* that the bridge made.                                                   *)
Ours(b) == hdr[b.start].off = "header"
Finds ==
  \A b \in live : /\ b \in entered => \E i \in 1 .. Len(table) : table[i].id = b.id
                  /\ Ours(b) => cache[b.id] = b.start

IdsDiffer == \A a, b \in live : a.id = b.id => a = b

\* The three are kept when blobs leave, entries stay and cached places stay.
LEMMA FindsKept ==
  ASSUME Finds, live' \subseteq live, entered' = entered, table' = table,
         \A b \in live' : Ours(b)' => Ours(b) /\ cache'[b.id] = cache[b.id]
  PROVE  Finds'
BY DEF Finds

LEMMA IdsDifferStep ==
  ASSUME TakeTurns, HeapInv, IdsDiffer, BlobNext
  PROVE  IdsDiffer'
<1>1. BlobTypeOK /\ IdsIssued /\ BridgeLocals
  BY DEF HeapInv
<1>2. nextId \in Nat /\ nextId \notin Issued /\ \A b \in live : b.id \in Issued
  BY <1>1 DEF BlobTypeOK, Issued, IdsIssued, Held
<1>3. ASSUME NEW n \in 1 .. MaxLen, KAlloc(n) PROVE IdsDiffer'
  <2> DEFINE id == nextId % IdSpan
             b == [id |-> id, start |-> Min(Fits(used, n)), len |-> n]
  <2>1. id = nextId
    <3>1. nextId \in Nat /\ IdSpan \in Nat /\ nextId < IdSpan
      BY <1>1, <1>3, HeapAssumption DEF KAlloc, TakeTurns, BlobTypeOK
    <3> QED BY <3>1
  <2>2. live' \subseteq live \cup {b} /\ b.id = id
    BY <1>3 DEF KAlloc
  <2> HIDE DEF b, id
  <2> QED BY <1>2, <2>1, <2>2 DEF IdsDiffer
<1>4. CASE BAllocControl
  <2> DEFINE b == [id |-> bop.id, start |-> bop.start, len |-> bop.len]
  <2>1. bop.id = nextId
    BY <1>1, <1>4 DEF BridgeLocals, BAllocControl
  <2>2. live' = live \cup {b} /\ b.id = bop.id
    BY <1>4 DEF BAllocControl
  <2> HIDE DEF b
  <2> QED BY <1>2, <2>1, <2>2 DEF IdsDiffer
<1>5. CASE live' \subseteq live
  BY <1>5 DEF IdsDiffer
<1>6. Kernel => live' \subseteq live \/ \E n \in 1 .. MaxLen : KAlloc(n)
  BY DEF Kernel, KAllocFail, KFree, KFreeUnknown, FillData, KGet, blobVars, hist
<1>7. BridgeSide => live' \subseteq live \/ BAllocControl
  BY DEF BridgeSide, BAllocCtl, BFreeFind, BFreeLost, BAllocBitmap, BAllocHeader, BAllocStore,
         BFreeWipe, BFreeClear, BFreeCount, hist
<1> QED BY <1>3, <1>4, <1>5, <1>6, <1>7 DEF BlobNext

LEMMA KAllocFinds ==
  ASSUME TakeTurns, RestInv, Finds, NEW n \in 1 .. MaxLen, KAlloc(n)
  PROVE  Finds'
<1>1. BlobTypeOK /\ RestIds /\ RestOwned /\ RestBits /\ table \in Seq(Blobs)
  BY DEF RestInv, BlobTypeOK
<1>2. Fits(used, n) # {} /\ nextId <= MaxAllocs
  BY DEF KAlloc
<1>3. PICK s \in Block :
        s = Min(Fits(used, n)) /\ s + n <= NBlocks /\ Span(s, n) \cap used = {}
  BY <1>2, FirstFit
<1> DEFINE id == nextId % IdSpan
<1>0. PICK b : b = [id |-> id, start |-> s, len |-> n]
  OBVIOUS
<1>4. id = nextId /\ nextId \in Nat /\ id # 0 /\ id \in Ids /\ nextId \notin Issued
  <2>1. nextId \in Nat /\ nextId >= 1 /\ IdSpan \in Nat /\ nextId < IdSpan
    BY <1>1, <1>2, HeapAssumption DEF TakeTurns, BlobTypeOK
  <2>2. nextId % IdSpan = nextId
    BY <2>1
  <2> QED BY <2>1, <2>2 DEF Ids, Issued
<1>5. /\ hdr' = [hdr EXCEPT ![s] = [id |-> id, len |-> n, off |-> "data"]]
      /\ live' = live \cup {b} /\ cache' = cache
  BY <1>0, <1>3, <1>4 DEF KAlloc
<1>6. IF Len(table) < MaxBlobs
      THEN table' = Append(table, b) /\ entered' = entered \cup {b}
      ELSE UNCHANGED <<table, entered>>
  BY <1>0, <1>3 DEF KAlloc
<1>7. b \in Blobs /\ b.id = nextId /\ b.start = s
  BY <1>0, <1>3, <1>4 DEF Blobs
<1> HIDE DEF id
<1>8. hdr'[s].off = "data" /\ \A p \in Block : p # s => hdr'[p] = hdr[p]
  BY <1>1, <1>5 DEF BlobTypeOK
<1>9. b \notin entered /\ b \notin live
  BY <1>1, <1>4, <1>7 DEF RestIds, Held
<1>10. ASSUME NEW x \in live
       PROVE  /\ x \in entered' => x \in entered
              /\ Ours(x)' => Ours(x)
  <2>1. x \in Held /\ x.start \in Block /\ x.start \in Own(x)
    BY <1>1, BlobIs, SpanIs DEF RestOwned, Own, Held
  <2>2. x.start \in used
    BY <1>1, <2>1 DEF RestBits
  <2>3. s \in Span(s, n)
    BY <1>3, SpanIs
  <2>4. hdr'[x.start] = hdr[x.start]
    BY <1>3, <1>8, <2>1, <2>2, <2>3
  <2> QED BY <1>6, <1>9, <2>4 DEF Ours
<1>11. ~Ours(b)'
  BY <1>7, <1>8 DEF Ours
<1>12. CASE Len(table) < MaxBlobs
  <2>1. table' = Append(table, b)
    BY <1>6, <1>12
  <2>2. /\ Len(table') = Len(table) + 1 /\ Len(table) \in Nat
        /\ \A i \in 1 .. Len(table) : table'[i] = table[i]
        /\ table'[Len(table) + 1] = b
    BY <1>1, <1>7, <2>1, AppendProperties, LenProperties
  <2>3. \A i \in 1 .. Len(table) : i \in 1 .. Len(table')
    BY <2>2
  <2>4. Len(table) + 1 \in 1 .. Len(table')
    BY <2>2
  <2>5. \A x \in live : x \in entered' => \E i \in 1 .. Len(table') : table'[i].id = x.id
    BY <1>10, <2>2, <2>3 DEF Finds
  <2>6. \E i \in 1 .. Len(table') : table'[i].id = b.id
    BY <2>2, <2>4
  <2> QED BY <1>5, <1>10, <1>11, <2>5, <2>6 DEF Finds
<1>13. CASE ~(Len(table) < MaxBlobs)
  BY <1>5, <1>6, <1>9, <1>10, <1>11, <1>13 DEF Finds
<1> QED BY <1>12, <1>13

(* Dropping an entry keeps the others.                                     *)
LEMMA WithoutKeeps ==
  ASSUME NEW t \in Seq(Blobs), NEW k \in 1 .. Len(t), NEW j \in 1 .. Len(t), j # k
  PROVE  \E i \in 1 .. (Len(t) - 1) : Without(t, k)[i] = t[j]
<1> DEFINE n == Len(t)
           u == [t EXCEPT ![k] = t[n]]
<1>1. n \in Nat /\ n >= 1 /\ t \in [1 .. n -> Blobs]
  BY LenProperties
<1>2. u \in [1 .. n -> Blobs] /\ \A i \in 1 .. n : u[i] = IF i = k THEN t[n] ELSE t[i]
  BY <1>1
<1>3. u \in Seq(Blobs) /\ Len(u) = n
  BY <1>1, <1>2
<1>4. Without(t, k) = SubSeq(u, 1, n - 1)
  BY DEF Without
<1> HIDE DEF u, n
<1>5. 1 \in 1 .. (n + 1) /\ n - 1 \in 0 .. n
  BY <1>1
<1>6. \A i \in 1 .. (n - 1) : SubSeq(u, 1, n - 1)[i] = u[i]
  BY <1>1, <1>3, <1>5
<1>7. j \in 1 .. n /\ k \in 1 .. n
  BY DEF n
<1>8. CASE j = n
  <2>1. k \in 1 .. (n - 1)
    BY <1>1, <1>7, <1>8
  <2>2. u[k] = t[j]
    BY <1>2, <1>7, <1>8
  <2> QED BY <1>4, <1>6, <2>1, <2>2 DEF n
<1>9. CASE j # n
  <2>1. j \in 1 .. (n - 1)
    BY <1>1, <1>7, <1>9
  <2>2. u[j] = t[j]
    BY <1>2, <1>7
  <2> QED BY <1>4, <1>6, <2>1, <2>2 DEF n
<1> QED BY <1>8, <1>9

LEMMA KFreeFinds ==
  ASSUME RestInv, IdsDiffer, Finds, NEW b \in live, KFree(b)
  PROVE  Finds'
<1>1. table \in Seq(Blobs) /\ DOMAIN table = 1 .. Len(table) /\ Len(table) \in Nat
  BY LenProperties DEF RestInv, BlobTypeOK
<1>2. PICK k \in 1 .. Len(table) : k = Min(Entries(b.id)) /\ table[k].id = b.id
  <2>1. Entries(b.id) \in SUBSET Nat
    BY <1>1 DEF Entries
  <2>2. Min(Entries(b.id)) \in Entries(b.id)
    BY <2>1, LeastElement DEF KFree
  <2> QED BY <1>1, <2>2 DEF Entries
<1>3. table' = Without(table, k) /\ live' = live \ {b} /\ UNCHANGED <<hdr, cache, entered>>
  BY <1>2 DEF KFree
<1>4. table' \in Seq(Blobs) /\ Len(table') = Len(table) - 1
  BY <1>1, <1>2, <1>3, WithoutIs
<1>5. ASSUME NEW a \in live', a \in entered
      PROVE  \E i \in 1 .. Len(table') : table'[i].id = a.id
  <2>1. a \in live /\ a.id # b.id
    BY <1>3 DEF IdsDiffer
  <2>2. PICK j \in 1 .. Len(table) : table[j].id = a.id
    BY <1>5, <2>1 DEF Finds
  <2>3. \E i \in 1 .. (Len(table) - 1) : Without(table, k)[i] = table[j]
    BY <1>1, <1>2, <2>1, <2>2, WithoutKeeps
  <2> QED BY <1>3, <1>4, <2>2, <2>3
<1>6. \A a \in live' : Ours(a)' => cache'[a.id] = a.start
  BY <1>3 DEF Finds, Ours
<1> QED BY <1>3, <1>5, <1>6 DEF Finds

LEMMA KGetFinds ==
  ASSUME RestInv, Finds, NEW id \in Ids, KGet(id)
  PROVE  Finds'
<1>1. BlobTypeOK /\ table \in Seq(Blobs)
  BY DEF RestInv, BlobTypeOK
<1>2. PICK p \in Block : p = Min(Found(hdr, id)) /\ Claims(p) /\ hdr[p].id = id
  BY FirstFound, FoundIs DEF KGet
<1> DEFINE e == [id |-> id, start |-> p, len |-> hdr[p].len]
<1>3. e \in Blobs
  BY <1>1, <1>2, HeaderIs DEF Blobs
<1>4. /\ table' = Append(table, e) /\ entered' = entered \cup {e}
      /\ UNCHANGED <<hdr, cache, live>>
  BY <1>2 DEF KGet, shared
<1> HIDE DEF e
<1>5. /\ Len(table') = Len(table) + 1 /\ Len(table) \in Nat
      /\ \A i \in 1 .. Len(table) : table'[i] = table[i]
      /\ table'[Len(table) + 1] = e
  BY <1>1, <1>3, <1>4, AppendProperties, LenProperties
<1>6. Len(table) + 1 \in 1 .. Len(table') /\ \A i \in 1 .. Len(table) : i \in 1 .. Len(table')
  BY <1>5
<1>7. \A a \in live : a \in entered' => \E i \in 1 .. Len(table') : table'[i].id = a.id
  BY <1>4, <1>5, <1>6 DEF Finds
<1> QED BY <1>4, <1>7 DEF Finds, Ours

(* A header that is new or gone is nobody's in use.                        *)
LEMMA HeaderFinds ==
  ASSUME RestInv, Finds, BAllocHeader, BridgeLocals
  PROVE  Finds'
<1>1. /\ bop.pc = "header" /\ UNCHANGED <<live, entered, table, cache>>
      /\ hdr' = [hdr EXCEPT ![bop.start] = [id |-> bop.id, len |-> bop.len, off |-> "header"]]
  BY DEF BAllocHeader, hist
<1>2. /\ bop.start \in Block /\ bop.len \in 1 .. MaxLen /\ bop.start + bop.len <= NBlocks
      /\ Span(bop.start, bop.len) \cap used = {}
  BY <1>1, HeapAssumption DEF BridgeLocals, Ops
<1>3. BlobTypeOK /\ RestOwned /\ RestBits
  BY DEF RestInv
<1>4. ASSUME NEW x \in live PROVE Ours(x)' => Ours(x)
  <2>1. x \in Held /\ x.start \in Block /\ x.start \in Own(x)
    BY <1>3, BlobIs, SpanIs DEF RestOwned, Own, Held
  <2>2. x.start \in used
    BY <1>3, <2>1 DEF RestBits
  <2>3. bop.start \in Span(bop.start, bop.len)
    BY <1>2, SpanIs
  <2>4. hdr'[x.start] = hdr[x.start]
    BY <1>1, <1>2, <1>3, <2>1, <2>2, <2>3 DEF BlobTypeOK
  <2> QED BY <2>4 DEF Ours
<1> QED BY <1>1, <1>4, FindsKept

LEMMA ControlFinds ==
  ASSUME HeapInv, Finds, BAllocControl
  PROVE  Finds'
<1>1. BlobTypeOK /\ IdsIssued /\ bop.id = nextId /\ nextId <= MaxAllocs /\ bop.id \in Ids
  BY DEF HeapInv, BridgeLocals, BAllocControl, Ops
<1> DEFINE b == [id |-> bop.id, start |-> bop.start, len |-> bop.len]
<1>2. /\ cache' = [cache EXCEPT ![bop.id] = bop.start] /\ live' = live \cup {b}
      /\ UNCHANGED <<hdr, table, entered>> /\ b.id = bop.id /\ b.start = bop.start
  BY DEF BAllocControl
<1> HIDE DEF b
<1>3. bop.id \notin Issued
  BY <1>1 DEF BlobTypeOK, Issued
<1>4. \A x \in live : x.id \in Ids /\ x.id # bop.id
  BY <1>1, <1>3, BlobIs DEF IdsIssued, Held
<1>5. b \notin entered
  BY <1>1, <1>2, <1>3 DEF IdsIssued
<1>6. cache'[b.id] = b.start /\ \A x \in live : cache'[x.id] = cache[x.id]
  BY <1>1, <1>2, <1>4 DEF BlobTypeOK
<1> QED BY <1>2, <1>5, <1>6 DEF Finds, Ours

(* A scan caches what is there.                                            *)
LEMMA ScanFinds ==
  ASSUME RestInv, Finds, NEW id \in Ids, cache' = Scanned(id), live' \subseteq live,
         UNCHANGED <<hdr, entered, table>>
  PROVE  Finds'
<1>1. BlobTypeOK /\ Placed /\ RestOwned
  BY DEF RestInv
<1>2. ASSUME NEW b \in live, Ours(b) PROVE cache'[b.id] = b.start
  <2>1. /\ b \in Held /\ b.id \in Ids /\ b.start \in Block /\ Claims(b.start)
        /\ hdr[b.start].id = b.id
    BY <1>1, BlobIs DEF RestOwned, Held
  <2>2. cache'[b.id] = cache[b.id]
          \/ \E p \in Block : Claims(p) /\ hdr[p].id = b.id /\ cache'[b.id] = p
    BY <2>1, ScannedIs
  <2> QED BY <1>1, <1>2, <2>1, <2>2 DEF Placed, Finds
<1> QED BY <1>2 DEF Finds, Ours

LEMMA CountFinds ==
  ASSUME HeapInv, IdsDiffer, Finds, BFreeCount
  PROVE  Finds'
<1>1. BlobTypeOK /\ bop.blob \in live
  BY DEF HeapInv, BridgeLocals, BFreeCount
<1>2. /\ cache' = [cache EXCEPT ![bop.blob.id] = Missing] /\ live' = live \ {bop.blob}
      /\ UNCHANGED <<hdr, table, entered>>
  BY DEF BFreeCount
<1>3. \A x \in live' : x.id \in Ids /\ x.id # bop.blob.id
  BY <1>1, <1>2, BlobIs DEF IdsDiffer, Held
<1>4. \A x \in live' : cache'[x.id] = cache[x.id]
  BY <1>1, <1>2, <1>3 DEF BlobTypeOK
<1> QED BY <1>2, <1>4 DEF Finds, Ours

LEMMA FindsStep ==
  ASSUME TakeTurns, HeapInv, IdsDiffer, Finds, BlobNext
  PROVE  Finds'
<1>1. CASE Kernel
  <2>1. bop = Idle
    BY <1>1 DEF Kernel, KAlloc, KAllocFail, KFree, KFreeUnknown, FillData, KGet, KernelTurn,
                TakeTurns
  <2>2. RestInv
    BY <2>1, AtRest, IdleIs DEF Resting
  <2>3. ASSUME NEW n \in 1 .. MaxLen, KAlloc(n) PROVE Finds'
    BY <2>2, <2>3, KAllocFinds
  <2>4. ASSUME NEW n \in 1 .. MaxLen, KAllocFail(n) PROVE Finds'
    BY <2>4, FindsKept DEF KAllocFail, blobVars, Ours
  <2>5. ASSUME NEW b \in live, KFree(b) PROVE Finds'
    BY <2>2, <2>5, KFreeFinds
  <2>6. ASSUME NEW b \in live, KFreeUnknown(b) PROVE Finds'
    BY <2>6, FindsKept DEF KFreeUnknown, shared, Ours
  <2>7. ASSUME NEW b \in live, FillData(b) PROVE Finds'
    <3>1. UNCHANGED <<live, entered, table, cache>>
      BY <2>7 DEF FillData, hist
    <3>2. \A x \in live : Ours(x)' => Ours(x)
      <4>1. hdr' = [p \in Block |-> IF p \in Span(b.start + 1, b.len - 1) THEN None ELSE hdr[p]]
        BY <2>7 DEF FillData
      <4>2. \A p \in Block : hdr'[p] = None \/ hdr'[p] = hdr[p]
        BY <4>1
      <4>3. \A x \in live : x.start \in Block
        BY <2>2, BlobIs DEF RestInv, Held
      <4> QED BY <4>2, <4>3 DEF Ours, None
    <3> QED BY <3>1, <3>2, FindsKept
  <2>8. ASSUME NEW id \in Ids, KGet(id) PROVE Finds'
    BY <2>2, <2>8, KGetFinds
  <2> QED BY <1>1, <2>3, <2>4, <2>5, <2>6, <2>7, <2>8 DEF Kernel
<1>2. CASE BridgeSide
  <2>1. ASSUME NEW n \in 1 .. MaxLen, BAllocCtl(n) PROVE Finds'
    BY <2>1, FindsKept DEF BAllocCtl, shared, hist, Ours
  <2>2. ASSUME NEW b \in live, BFreeFind(b) \/ BFreeLost(b) PROVE Finds'
    <3>1. /\ bop = Idle /\ cache' = Scanned(b.id) /\ live' \subseteq live
          /\ UNCHANGED <<hdr, entered, table>>
      BY <2>2 DEF BFreeFind, BFreeLost, shared, hist
    <3>2. RestInv
      BY <3>1, AtRest, IdleIs DEF Resting
    <3>3. b.id \in Ids
      BY <3>2, BlobIs DEF RestInv, Held
    <3> QED BY <3>1, <3>2, <3>3, ScanFinds
  <2>3. CASE BAllocBitmap \/ BAllocStore \/ BFreeClear
    BY <2>3, FindsKept DEF BAllocBitmap, BAllocStore, BFreeClear, shared, hist, Ours
  <2>4. CASE BAllocHeader
    <3>1. RestInv /\ BridgeLocals
      BY <2>4, AtRest DEF Resting, BAllocHeader
    <3> QED BY <2>4, <3>1, HeaderFinds
  <2>5. CASE BAllocControl
    BY <2>5, ControlFinds
  <2>6. CASE BFreeWipe
    <3>1. /\ hdr' = [hdr EXCEPT ![bop.start] = None] /\ UNCHANGED <<live, entered, table, cache>>
      BY <2>6 DEF BFreeWipe, hist
    <3>2. BlobTypeOK /\ bop.start \in Block
      BY <2>6 DEF HeapInv, BridgeLocals, Ops
    <3>3. \A p \in Block : hdr'[p] = None \/ hdr'[p] = hdr[p]
      BY <3>1, <3>2 DEF BlobTypeOK
    <3>4. \A x \in live : x.start \in Block
      BY <3>2, BlobIs DEF Held
    <3>5. \A x \in live : Ours(x)' => Ours(x)
      BY <3>3, <3>4 DEF Ours, None
    <3> QED BY <3>1, <3>5, FindsKept
  <2>7. CASE BFreeCount
    BY <2>7, CountFinds
  <2> QED BY <1>2, <2>1, <2>2, <2>3, <2>4, <2>5, <2>6, <2>7 DEF BridgeSide
<1> QED BY <1>1, <1>2 DEF BlobNext

LEMMA FindsInvariant == TakeTurns /\ BlobSpec => [](HeapInv /\ IdsDiffer /\ Finds)
<1> SUFFICES ASSUME TakeTurns PROVE BlobSpec => [](HeapInv /\ IdsDiffer /\ Finds)
  OBVIOUS
<1>1. BlobInit => HeapInv /\ IdsDiffer /\ Finds
  BY HeapStart DEF BlobInit, IdsDiffer, Finds
<1>2. HeapInv /\ IdsDiffer /\ Finds /\ [BlobNext]_blobVars => IdsDiffer' /\ Finds'
  <2>1. UNCHANGED blobVars => (IdsDiffer => IdsDiffer') /\ (Finds => Finds')
    BY DEF blobVars, IdsDiffer, Finds, Ours
  <2> QED BY <2>1, IdsDifferStep, FindsStep
<1>3. HeapInv /\ [BlobNext]_blobVars => HeapInv'
  BY HeapStep
<1> QED BY <1>1, <1>2, <1>3, PTL DEF BlobSpec

(* Bitmap, counter and blobs agree, and the only blocks lost are those of  *)
(* blobs that the side that frees them never recorded: for a heap, a table *)
(* and blobs of any size, after any history of allocations and frees by    *)
(* both sides, while the two take turns and before the ids are used up.    *)
THEOREM BlocksStayAccounted == TakeTurns /\ BlobSpec => []BlocksAccounted
<1>1. HeapInv /\ Finds => BlocksAccounted
  <2> SUFFICES ASSUME HeapInv, Finds
               PROVE  BlobTypeOK /\ Accounted /\ BitsExplained /\ FreeFinds
    BY DEF BlocksAccounted
  <2>1. BlobTypeOK
    BY DEF HeapInv
  <2>2. ASSUME bop = Idle PROVE RestInv
    BY <2>2, AtRest, IdleIs DEF Resting
  <2>3. Accounted
    BY <2>2 DEF Accounted, RestInv, RestBits
  <2>4. BitsExplained
    <3>1. ASSUME bop = Idle PROVE used = UNION {Span(b.start, b.len) : b \in live \cup leaked}
      <4>1. \A x : x \in used <=> \E b \in live \cup leaked : x \in Span(b.start, b.len)
        BY <2>2, <3>1 DEF RestInv, RestBits, Own, Held
      <4> QED BY <4>1
    <3> QED BY <3>1 DEF BitsExplained
  <2>5. FreeFinds
    <3> SUFFICES ASSUME bop = Idle, NEW b \in live
                 PROVE  /\ b \in entered => Entries(b.id) # {}
                        /\ \A i \in Entries(b.id) : table[i] = b
                        /\ hdr[b.start].off = "header" => Target(b) = b.start
      BY DEF FreeFinds
    <3>1. RestInv /\ BlobTypeOK /\ Placed /\ RestOwned /\ b \in Held
      BY <2>2 DEF RestInv, Held
    <3>2. table \in Seq(Blobs) /\ DOMAIN table = 1 .. Len(table)
      BY <3>1, LenProperties DEF BlobTypeOK
    <3>3. /\ b.id \in Ids /\ b.start \in Block /\ Claims(b.start)
          /\ b = [id |-> b.id, start |-> b.start, len |-> b.len]
          /\ hdr[b.start].id = b.id /\ hdr[b.start].len = b.len
      BY <3>1, BlobIs DEF RestOwned
    <3>4. b \in entered => Entries(b.id) # {}
      BY <3>2 DEF Finds, Entries
    <3>5. ASSUME NEW i \in Entries(b.id) PROVE table[i] = b
      <4>1. i \in 1 .. Len(table) /\ table[i].id = b.id
        BY <3>2 DEF Entries
      <4>2. table[i].start = b.start /\ table[i].len = b.len
        BY <3>1, <3>3, <4>1 DEF Placed
      <4>3. table[i] \in Blobs
        BY <3>2, <4>1
      <4>4. table[i] = [id |-> table[i].id, start |-> table[i].start, len |-> table[i].len]
        BY <4>3 DEF Blobs
      <4> QED BY <3>3, <4>1, <4>2, <4>4
    <3>6. ASSUME hdr[b.start].off = "header" PROVE Target(b) = b.start
      <4>1. cache[b.id] = b.start /\ b.start # Missing
        BY <3>3, <3>6, HeapAssumption DEF Finds, Ours, Block, Missing
      <4>2. Scanned(b.id)[b.id] = cache[b.id] \/
            \E p \in Block : Claims(p) /\ hdr[p].id = b.id /\ Scanned(b.id)[b.id] = p
        BY <3>1, <3>3, ScannedIs
      <4>3. Target(b) # Missing
        BY <3>3, <4>1, <4>2, HeapAssumption DEF Target, Block, Missing
      <4> QED BY <3>1, <4>3, TargetIs
    <3> QED BY <3>4, <3>5, <3>6
  <2> QED BY <2>1, <2>3, <2>4, <2>5
<1> QED BY <1>1, FindsInvariant, PTL

(* Blobs in use are apart and have their own header in their first block,  *)
(* whatever leftover headers, table entries and cached positions there are.*)
THEOREM LiveStayApart == TakeTurns /\ BlobSpec => []LiveApart
<1>1. HeapInv => LiveApart
  <2> SUFFICES ASSUME HeapInv, bop = Idle
               PROVE  /\ \A b \in live :
                           /\ Span(b.start, b.len) \subseteq used
                           /\ hdr[b.start].id = b.id /\ hdr[b.start].len = b.len
                      /\ \A a, b \in live :
                           a # b => /\ a.id # b.id
                                    /\ Span(a.start, a.len) \cap Span(b.start, b.len) = {}
    BY DEF LiveApart
  <2>1. BlobTypeOK /\ Placed /\ RestOwned /\ RestBits
    BY AtRest, IdleIs DEF Resting, RestInv
  <2>10. \A b \in live : b \in Held
    BY DEF Held
  <2>2. \A b \in live : Span(b.start, b.len) \subseteq used
    BY <2>1, <2>10 DEF RestBits, Own
  <2>3. ASSUME NEW a \in live, NEW b \in live, a # b PROVE a.id # b.id
    <3>1. CASE a.start = b.start
      <4>1. a.start \in Own(a) /\ b.start \in Own(b)
        BY <2>1, <2>10, BlobIs, SpanIs DEF RestOwned, Own
      <4> QED BY <2>1, <2>10, <2>3, <3>1, <4>1 DEF RestOwned
    <3>2. CASE a.start # b.start
      <4>1. a.start \in Block /\ b.start \in Block
        BY <2>1, <2>10, BlobIs
      <4> QED BY <2>1, <2>10, <3>2, <4>1 DEF RestOwned, Placed
    <3> QED BY <3>1, <3>2
  <2> QED BY <2>1, <2>10, <2>2, <2>3 DEF RestOwned, Own
<1> QED BY <1>1, HeapInvariant, PTL
=============================================================================
