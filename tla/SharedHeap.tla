----------------------------- MODULE SharedHeap -----------------------------
(***************************************************************************)
(* The blob heap in the shared memory file and its two allocators: the     *)
(* kernel's heap.c, with its blob_table, and the bridge's heap.py, with    *)
(* its _blob_cache.  Both work on one bitmap, one free_blocks counter, one *)
(* next_blob_id and on blob headers that live in the data blocks.          *)
(*                                                                         *)
(* The kernel updates the shared words where they are and each of its      *)
(* operations is one step.  The bridge copies the control block and the    *)
(* bitmap, computes, and stores the whole bitmap and both counters back:   *)
(* between what it reads and each of its stores the kernel may run.        *)
(*                                                                         *)
(* Sizes are counted in blocks, header included.  Of a block's contents    *)
(* only the blob header that may be in it is kept: heap_free leaves a      *)
(* header behind, free_blob wipes its magic, and writing a blob's data     *)
(* wipes what stood in the blocks after the first.  A header's offset      *)
(* field, through which heap_get_data finds the data, is kept as what it   *)
(* points at: the blob's data or the blob's header.                        *)
(***************************************************************************)
EXTENDS Integers, Sequences, FiniteSets, FiniteSetsExt

CONSTANTS NBlocks,     \* HEAP_MAX_BLOCKS
          MaxBlobs,    \* MAX_BLOBS, entries of the kernel's blob_table
          IdSpan,      \* number of values of a blob id (2^16 in the code)
          MaxLen,      \* bound on the blocks of one blob
          MaxAllocs,   \* bound on the allocations of a behaviour
          Concurrent   \* TRUE: the kernel runs while the bridge is at work

ASSUME HeapAssumption ==
  /\ NBlocks \in Nat \ {0} /\ MaxBlobs \in Nat
  /\ IdSpan \in Nat \ {0} /\ MaxLen \in 1 .. NBlocks
  /\ MaxAllocs \in Nat /\ Concurrent \in BOOLEAN

Block == 0 .. (NBlocks - 1)
Ids   == 0 .. (IdSpan - 1)
None  == [id |-> 0, len |-> 0, off |-> "data"]
Hdrs  == [id : Ids, len : 1 .. MaxLen, off : {"data", "header"}] \cup {None}
Blobs == [id : Ids, start : Block, len : 1 .. MaxLen]
Missing == 0 - 1    \* where _blob_cache has no entry

VARIABLES used,       \* set bits of heap_ctl->bitmap
          free,       \* heap_ctl->free_blocks
          nextId,     \* heap_ctl->next_blob_id, 32 bits wide
          hdr,        \* the blob header in each block, or None
          table,      \* the kernel's blob_table[0 .. blob_count - 1]
          cache,      \* the bridge's _blob_cache: a block for each id, or Missing
          bop,        \* the bridge's operation: its next step and its locals
          live,       \* history: blobs handed out and not given back
          entered,    \* history: blobs the kernel has entered in blob_table
          leaked      \* history: blobs given back in vain

shared == <<used, free, nextId, hdr>>
hist == <<live, entered, leaked>>
blobVars == <<used, free, nextId, hdr, table, cache, bop, live, entered, leaked>>

Span(s, n) == s .. (s + n - 1)
NoBlob == [id |-> 0, start |-> 0, len |-> 1]
Idle == [pc |-> "idle", len |-> 0, free |-> 0, id |-> 0, start |-> 0, used |-> {},
         blob |-> NoBlob]

-----------------------------------------------------------------------------
(* Helpers both sides have in the same form.                               *)

\* Mutant: the run may start one block too early.
Fits_OffByOne(u, n) ==
  {s \in Block : s + n <= NBlocks /\ Span(s + 1, n - 1) \cap u = {}}

\* find_free_blocks / _find_free_blocks: where a run of n free blocks starts.
Fits(u, n) == {s \in Block : s + n <= NBlocks /\ Span(s, n) \cap u = {}}

(* The blocks a scan for headers looks at: it goes block by block and      *)
(* jumps over the blocks a header claims.                                  *)
LookedAt(h) ==
  LET from[i \in 0 .. (NBlocks + MaxLen)] ==
        IF i >= NBlocks THEN {}
        ELSE {i} \cup from[IF h[i] = None THEN i + 1 ELSE i + h[i].len]
  IN  from[0]

\* Those where it finds a header.
Stops(h) == {p \in LookedAt(h) \cap Block : h[p] # None}

\* Where the scan finds id: the first header with this id, if any.
Found(h, id) == {p \in Stops(h) : h[p].id = id}

-----------------------------------------------------------------------------
\* heap_init, on a shared memory file that is still all zero.
BlobInit ==
  /\ used = {} /\ free = NBlocks /\ nextId = 1
  /\ hdr = [b \in Block |-> None]
  /\ table = << >> /\ cache = [i \in Ids |-> Missing] /\ bop = Idle
  /\ live = {} /\ entered = {} /\ leaked = {}

KernelTurn == Concurrent \/ bop = Idle

(* heap_alloc.  The id is next_blob_id cut to 16 bits; the id 0 tells the  *)
(* caller that there is no blob.  A full blob_table does not make the      *)
(* allocation fail.                                                        *)
KAlloc(n) ==
  /\ KernelTurn /\ nextId <= MaxAllocs
  /\ Fits(used, n) # {}
  /\ LET s == Min(Fits(used, n))
         id == nextId % IdSpan
         b == [id |-> id, start |-> s, len |-> n]
     IN  /\ used' = used \cup Span(s, n)
         /\ hdr' = [hdr EXCEPT ![s] = [id |-> id, len |-> n, off |-> "data"]]
         /\ IF Len(table) < MaxBlobs
            THEN table' = Append(table, b) /\ entered' = entered \cup {b}
            ELSE UNCHANGED <<table, entered>>
         /\ IF id = 0
            THEN leaked' = leaked \cup {b} /\ UNCHANGED live
            ELSE live' = live \cup {b} /\ UNCHANGED leaked
  /\ free' = free - n
  /\ nextId' = nextId + 1
  /\ UNCHANGED <<cache, bop>>

\* heap_alloc without a run of n free blocks returns 0.
KAllocFail(n) ==
  /\ KernelTurn /\ Fits(used, n) = {}
  /\ UNCHANGED blobVars

\* Index of id in blob_table, the first one that matches.
Entries(id) == {i \in DOMAIN table : table[i].id = id}

\* Mutant: the last entry dropped, the freed one left where it is.
Without_NoSwap(t, i) == SubSeq(t, 1, Len(t) - 1)

\* Swap entry i with the last one and drop that.
Without(t, i) == SubSeq([t EXCEPT ![i] = t[Len(t)]], 1, Len(t) - 1)

\* heap_free of a blob its owner still holds: the header stays in the block.
KFree(b) ==
  /\ KernelTurn /\ b \in live /\ Entries(b.id) # {}
  /\ LET e == table[Min(Entries(b.id))]
     IN  /\ used' = used \ Span(e.start, e.len)
         /\ free' = free + e.len
  /\ table' = Without(table, Min(Entries(b.id)))
  /\ live' = live \ {b}
  /\ UNCHANGED <<nextId, hdr, cache, bop, entered, leaked>>

(* heap_free of a blob the table does not know does nothing at all and     *)
(* tells nobody: its owner is done with it, its blocks stay taken.         *)
KFreeUnknown(b) ==
  /\ KernelTurn /\ b \in live /\ Entries(b.id) = {}
  /\ live' = live \ {b}
  /\ leaked' = leaked \cup {b}
  /\ UNCHANGED <<shared, table, cache, bop, entered>>

\* The table's answer to heap_get_blob, checked against the header.
Cached(id) == {table[i].start : i \in {j \in Entries(id) : hdr[table[j].start].id = id}}

(* heap_get_blob(id): what the scan finds is entered into the table, with  *)
(* the length the header tells.                                            *)
KGet(id) ==
  /\ KernelTurn /\ id # 0
  /\ Cached(id) = {} /\ Found(hdr, id) # {} /\ Len(table) < MaxBlobs
  /\ LET p == Min(Found(hdr, id))
         e == [id |-> id, start |-> p, len |-> hdr[p].len]
     IN  table' = Append(table, e) /\ entered' = entered \cup {e}
  /\ UNCHANGED <<shared, cache, bop, live, leaked>>

\* Somebody fills a blob it owns with data.
FillData(b) ==
  /\ KernelTurn /\ b \in live
  /\ hdr' = [p \in Block |->
               IF p \in Span(b.start + 1, b.len - 1) THEN None ELSE hdr[p]]
  /\ UNCHANGED <<used, free, nextId, table, cache, bop, hist>>

-----------------------------------------------------------------------------
(* The bridge: allocate_blob.                                              *)

BAllocCtl(n) ==
  /\ bop = Idle /\ nextId <= MaxAllocs
  /\ nextId < IdSpan      \* struct.pack raises before anything is stored
  /\ free >= n
  /\ bop' = [Idle EXCEPT !.pc = "bitmap", !.len = n, !.free = free, !.id = nextId]
  /\ UNCHANGED <<shared, table, cache, hist>>

BAllocBitmap ==
  /\ bop.pc = "bitmap"
  /\ bop' = IF Fits(used, bop.len) = {} THEN Idle
            ELSE [bop EXCEPT !.pc = "header", !.start = Min(Fits(used, bop.len)),
                             !.used = used]
  /\ UNCHANGED <<shared, table, cache, hist>>

\* The bridge stores data_offset, which is where the header is.
BAllocHeader ==
  /\ bop.pc = "header"
  /\ hdr' = [hdr EXCEPT ![bop.start] =
                [id |-> bop.id, len |-> bop.len, off |-> "header"]]
  /\ bop' = [bop EXCEPT !.pc = "store"]
  /\ UNCHANGED <<used, free, nextId, table, cache, hist>>

BAllocStore ==
  /\ bop.pc = "store"
  /\ used' = bop.used \cup Span(bop.start, bop.len)
  /\ bop' = [bop EXCEPT !.pc = "control"]
  /\ UNCHANGED <<free, nextId, hdr, table, cache, hist>>

BAllocControl ==
  /\ bop.pc = "control"
  /\ free' = bop.free - bop.len
  /\ nextId' = bop.id + 1
  /\ cache' = [cache EXCEPT ![bop.id] = bop.start]
  /\ live' = live \cup {[id |-> bop.id, start |-> bop.start, len |-> bop.len]}
  /\ bop' = Idle
  /\ UNCHANGED <<used, hdr, table, entered, leaked>>

-----------------------------------------------------------------------------
(* The bridge: free_blob.  A cached position is used as it is; a scan      *)
(* caches every header it passes.                                          *)

Passed(id) ==
  IF cache[id] # Missing THEN {}
  ELSE {p \in Stops(hdr) : Found(hdr, id) # {} => p <= Min(Found(hdr, id))}

Scanned(id) ==
  [i \in Ids |-> LET at == {p \in Passed(id) : hdr[p].id = i}
                 IN  IF at = {} THEN cache[i] ELSE Max(at)]

\* Where free_blob looks for the blob, if the scan or the cache has it.
Target(b) == Scanned(b.id)[b.id]
Hit(b) == Target(b) # Missing /\ hdr[Target(b)] # None

BFreeFind(b) ==
  /\ bop = Idle /\ b \in live /\ Hit(b)
  /\ cache' = Scanned(b.id)
  /\ bop' = [Idle EXCEPT !.pc = "wipe", !.blob = b, !.start = Target(b),
                         !.len = hdr[Target(b)].len, !.used = used]
  /\ UNCHANGED <<shared, table, hist>>

(* free_blob returns False.  Its caller keeps the blob and may try again,  *)
(* or gives it up.                                                         *)
BFreeLost(b) ==
  /\ bop = Idle /\ b \in live /\ ~Hit(b)
  /\ cache' = Scanned(b.id)
  /\ \/ UNCHANGED <<live, leaked>>
     \/ live' = live \ {b} /\ leaked' = leaked \cup {b}
  /\ UNCHANGED <<shared, table, bop, entered>>

BFreeWipe ==
  /\ bop.pc = "wipe"
  /\ hdr' = [hdr EXCEPT ![bop.start] = None]
  /\ bop' = [bop EXCEPT !.pc = "clear"]
  /\ UNCHANGED <<used, free, nextId, table, cache, hist>>

BFreeClear ==
  /\ bop.pc = "clear"
  /\ used' = bop.used \ Span(bop.start, bop.len)
  /\ bop' = [bop EXCEPT !.pc = "count"]
  /\ UNCHANGED <<free, nextId, hdr, table, cache, hist>>

BFreeCount ==
  /\ bop.pc = "count"
  /\ free' = free + bop.len
  /\ cache' = [cache EXCEPT ![bop.blob.id] = Missing]
  /\ live' = live \ {bop.blob}
  /\ bop' = Idle
  /\ UNCHANGED <<used, nextId, hdr, table, entered, leaked>>

-----------------------------------------------------------------------------
Kernel ==
  \/ \E n \in 1 .. MaxLen : KAlloc(n) \/ KAllocFail(n)
  \/ \E b \in live : KFree(b) \/ KFreeUnknown(b) \/ FillData(b)
  \/ \E id \in Ids : KGet(id)

BridgeSide ==
  \/ \E n \in 1 .. MaxLen : BAllocCtl(n)
  \/ \E b \in live : BFreeFind(b) \/ BFreeLost(b)
  \/ BAllocBitmap \/ BAllocHeader \/ BAllocStore \/ BAllocControl
  \/ BFreeWipe \/ BFreeClear \/ BFreeCount

BlobNext == Kernel \/ BridgeSide

BlobSpec == BlobInit /\ [][BlobNext]_blobVars

-----------------------------------------------------------------------------
(* Type invariant.                                                         *)
BlobTypeOK ==
  /\ used \subseteq Block /\ free \in Int
  /\ nextId \in 1 .. (MaxAllocs + 1)
  /\ hdr \in [Block -> Hdrs]
  /\ table \in Seq(Blobs) /\ Len(table) <= MaxBlobs
  /\ cache \in [Ids -> Block \cup {Missing}]
  /\ live \subseteq Blobs /\ entered \subseteq Blobs /\ leaked \subseteq Blobs

(* While the bridge is not in the middle of an operation, free_blocks is   *)
(* the number of clear bits, whoever allocated and whoever freed.          *)
Accounted == bop = Idle => free = NBlocks - Cardinality(used)

(* Blobs that are in use do not overlap, their bits are set, and the       *)
(* header in the first block is the blob's own: however freed blobs,       *)
(* leftover headers and both position caches led there.                    *)
LiveApart ==
  bop = Idle =>
    /\ \A b \in live :
         /\ Span(b.start, b.len) \subseteq used
         /\ hdr[b.start].id = b.id /\ hdr[b.start].len = b.len
    /\ \A a, b \in live :
         a # b => a.id # b.id /\ Span(a.start, a.len) \cap Span(b.start, b.len) = {}

(* A set bit belongs to a blob in use or to one that was given back in     *)
(* vain: no other block is lost.                                           *)
BitsExplained ==
  bop = Idle => used = UNION {Span(b.start, b.len) : b \in live \cup leaked}

(* Which blobs cannot leak.  What the kernel entered in blob_table, by     *)
(* heap_alloc or heap_get_blob, is there for heap_free to find, whatever   *)
(* entries were swapped and dropped since; what the bridge allocated is    *)
(* there for free_blob, whatever its scans entered in _blob_cache.         *)
FreeFinds ==
  bop = Idle =>
    \A b \in live : /\ b \in entered => Entries(b.id) # {}
                    /\ \A i \in Entries(b.id) : table[i] = b
                    /\ hdr[b.start].off = "header" => Target(b) = b.start

(* Bitmap, counter and blobs agree: none is counted twice, and the only    *)
(* blocks lost are those of blobs that the side that frees them never      *)
(* recorded.                                                               *)
BlocksAccounted == BlobTypeOK /\ Accounted /\ BitsExplained /\ FreeFinds

(* heap.h, of heap_free: "Free a previously allocated blob", with the "ID  *)
(* returned from heap_alloc".  Only blobs in use have their bits set.      *)
NoLeak ==
  bop = Idle => used = UNION {Span(b.start, b.len) : b \in live}

(* ipc_proto.h: "1 bit per block (0=free, 1=used)".  The blocks of a blob  *)
(* in use have their bits set.                                             *)
UsedBitsSet == \A b \in live : Span(b.start, b.len) \subseteq used

(* ipc_proto.h, of the offset field of heap_blob_t: "Offset from heap base *)
(* to data".  What heap_get_data answers for a blob in use is its data.    *)
OffsetToData == \A b \in live : hdr[b.start].off = "data"
=============================================================================
