------------------------------- MODULE KHeap -------------------------------
(***************************************************************************)
(* The kernel heap of kernel/mm/kheap.c, from which the WASM runtime, the  *)
(* weight cache and the C++ runtime take their memory: one doubly linked   *)
(* list of blocks in address order, a header in front of every payload.    *)
(*                                                                         *)
(* Memory is counted in units of 16 bytes, to which every size is rounded. *)
(* A unit holds a header, part of one, a client's data, or nothing known.  *)
(* Headers that coalesce merges away stay behind in the payload of the     *)
(* block that took them, as they do in the code.  The heap is used by one  *)
(* context, so every call is one step; a client fills what it asked for    *)
(* before anything else happens.                                           *)
(***************************************************************************)
EXTENDS Integers, FiniteSets

CONSTANTS NUnits,     \* units between heap_base and heap_end
          Hdr,        \* sizeof(block_header_t) in units
          Clients,    \* holders of one allocation each
          MaxWant     \* bound on a request, in units

ASSUME KHeapAssumption ==
  /\ NUnits \in Nat /\ Hdr \in Nat \ {0} /\ MaxWant \in Nat \ {0}
  /\ NUnits > Hdr + 1                    \* kheap_init's own test

Unit == 0 .. (NUnits - 1)
NULL == -1
Free == [ptr |-> NULL, want |-> 0]

VARIABLES mem,      \* what each unit holds
          held,     \* the pointer and the size every client holds
          stale     \* a pointer that was freed and not handed out again, or NULL

kheapVars == <<mem, held, stale>>

Header(s, f, n, p) == [kind |-> "hdr", size |-> s, free |-> f, next |-> n, prev |-> p]
Junk == [kind |-> "junk"]
Data(c) == [kind |-> "data", by |-> c]
IsHeader(m, b) == b \in Unit /\ m[b].kind = "hdr"     \* ptr_in_heap and magic

\* kheap_init: one free block spans the heap.
KHeapInit ==
  /\ mem = [u \in Unit |-> IF u = 0 THEN Header(NUnits - Hdr, TRUE, NULL, NULL)
                                    ELSE Junk]
  /\ held = [c \in Clients |-> Free]
  /\ stale = NULL

-----------------------------------------------------------------------------
(* The list operations                                                     *)

\* Make b's successor point back at b.
LinkBack(m, n, b) == IF n = NULL THEN m ELSE [m EXCEPT ![n].prev = b]

\* split_block: the remainder becomes a free block of its own unless it is
\* too small for a header and one more unit.
Split(m, b, want) ==
  LET nb  == b + Hdr + want
      rem == m[b].size - want
      n   == m[b].next
  IN IF rem <= Hdr + 1 THEN m
     ELSE [LinkBack(m, n, nb) EXCEPT
             ![nb] = Header(rem - Hdr, TRUE, n, b),
             ![b]  = Header(want, @.free, nb, @.prev)]

\* coalesce: a free block first walks back to the start of its free run; then
\* the free blocks that follow are merged, as long as they end in the heap.
\* A walk takes fewer steps than there are units.
Back(m, x) == LET p == m[x].prev IN IF IsHeader(m, p) /\ m[p].free THEN p ELSE x

FreeRunStart(m, b) ==
  LET walk[i \in 0 .. NUnits] == IF i = 0 THEN b ELSE Back(m, walk[i-1])
  IN IF m[b].free THEN walk[NUnits] ELSE b

Onward(m, x) == LET n == m[x].next IN
  IF IsHeader(m, n) /\ m[n].free /\ n + Hdr + m[n].size <= NUnits THEN n ELSE x

LastOfRun(m, b) ==
  LET walk[i \in 0 .. NUnits] == IF i = 0 THEN b ELSE Onward(m, walk[i-1])
  IN walk[NUnits]

\* Mutant: the block behind the merged ones still points back at one of them.
Coalesce_NoLink(m, h) ==
  LET b == FreeRunStart(m, h)
      l == LastOfRun(m, b)
  IN IF l = b THEN m
     ELSE [m EXCEPT ![b].size = l + m[l].size - b, ![b].next = m[l].next]

Coalesce(m, h) ==
  LET b == FreeRunStart(m, h)
      l == LastOfRun(m, b)
      n == m[l].next
  IN IF l = b THEN m
     ELSE [LinkBack(m, n, b) EXCEPT ![b].size = l + m[l].size - b, ![b].next = n]

\* The blocks of the list, from heap_start along next.
Behind(m, bs) == bs \cup ({m[b].next : b \in {x \in bs : IsHeader(m, x)}} \ {NULL})

Blocks(m) ==
  LET upto[i \in 0 .. NUnits] == IF i = 0 THEN {0} ELSE Behind(m, upto[i-1])
  IN upto[NUnits]

\* The first fit of kmalloc, NULL when no free block is large enough.
FirstFit(m, want) ==
  LET fits == {b \in Blocks(m) : m[b].free /\ m[b].size >= want}
  IN IF fits = {} THEN NULL ELSE CHOOSE b \in fits : \A x \in fits : b <= x

Take(m, b, want) == [Split(m, b, want) EXCEPT ![b].free = FALSE]

\* The client writes its data over the units of [from, to).  What it leaves
\* behind in units it gives back is not told apart from junk.
Fill(m, c, from, to) == [u \in Unit |-> IF u \in from .. (to - 1) THEN Data(c) ELSE m[u]]
Forget(m, c, from, to) ==
  [u \in Unit |-> IF m[u] = Data(c) /\ u \notin from .. (to - 1) THEN Junk ELSE m[u]]

-----------------------------------------------------------------------------
(* The calls                                                               *)

Hold(c, p, w) == held' = [held EXCEPT ![c] = [ptr |-> p, want |-> w]]

Kmalloc(c, want) ==
  LET b == FirstFit(mem, want) IN
  /\ held[c] = Free
  /\ b # NULL
  /\ mem' = Fill(Take(mem, b, want), c, b + Hdr, b + Hdr + want)
  /\ Hold(c, b + Hdr, want)
  /\ stale' = IF stale = b + Hdr THEN NULL ELSE stale

FreeBlock(m, h) == Coalesce([m EXCEPT ![h].free = TRUE], h)

Kfree(c) ==
  LET h == held[c].ptr - Hdr IN
  /\ held[c] # Free
  /\ mem' = Forget(IF IsHeader(mem, h) /\ ~mem[h].free THEN FreeBlock(mem, h) ELSE mem,
                   c, 0, 0)
  /\ Hold(c, NULL, 0)
  /\ stale' \in {stale, held[c].ptr}

\* A pointer that was freed is freed again: the header in front of it, if it
\* is still one, says whether the block is free.
KfreeAgain ==
  LET h == stale - Hdr IN
  /\ stale # NULL
  /\ IF IsHeader(mem, h) /\ ~mem[h].free THEN mem' = FreeBlock(mem, h)
                                         ELSE UNCHANGED mem
  /\ UNCHANGED <<held, stale>>

\* krealloc of a held pointer.  The block is large enough; or it grows over
\* the free block behind it; or the data moves; or there is no room, and the
\* block keeps what it may have grown by.
Fits(h, want) == mem[h].size >= want

GrowsInto(h) == LET n == mem[h].next IN
  IF IsHeader(mem, n) /\ mem[n].free THEN Coalesce(mem, h) ELSE mem

KreallocStay(c, want) ==
  LET h == held[c].ptr - Hdr IN
  /\ held[c] # Free /\ Fits(h, want)
  /\ mem' = Forget(Fill(mem, c, held[c].ptr, held[c].ptr + want),
                   c, held[c].ptr, held[c].ptr + want)
  /\ Hold(c, held[c].ptr, want)
  /\ UNCHANGED stale

KreallocGrow(c, want) ==
  LET p == held[c].ptr
      h == p - Hdr
      m == GrowsInto(h)
  IN
  /\ held[c] # Free /\ ~Fits(h, want) /\ m[h].size >= want
  /\ mem' = Fill(Take(m, h, want), c, p + held[c].want, p + want)
  /\ Hold(c, p, want)
  /\ UNCHANGED stale

\* The new block, the copy of everything the old one could hold, the free.
Moved(m, h, b, want, size) ==
  LET t == Take(m, b, want)
  IN [u \in Unit |-> LET i == u - (b + Hdr) IN
        IF i \in 0 .. (size - 1) THEN t[h + Hdr + i] ELSE t[u]]

KreallocMove(c, want) ==
  LET h == held[c].ptr - Hdr
      m == GrowsInto(h)
      b == FirstFit(m, want)
      p == b + Hdr
  IN
  /\ held[c] # Free /\ ~Fits(h, want) /\ m[h].size < want
  /\ b # NULL
  /\ mem' = Forget(Fill(FreeBlock(Moved(m, h, b, want, m[h].size), h),
                        c, p + held[c].want, p + want), c, p, p + want)
  /\ Hold(c, p, want)
  /\ stale' \in {IF stale = p THEN NULL ELSE stale, held[c].ptr}

KreallocFail(c, want) ==
  LET h == held[c].ptr - Hdr
      m == GrowsInto(h)
  IN
  /\ held[c] # Free /\ ~Fits(h, want) /\ m[h].size < want
  /\ FirstFit(m, want) = NULL
  /\ mem' = m
  /\ UNCHANGED <<held, stale>>

KHeapNext ==
  \/ \E c \in Clients, w \in 1 .. MaxWant :
       \/ Kmalloc(c, w)
       \/ KreallocStay(c, w)
       \/ KreallocGrow(c, w)
       \/ KreallocMove(c, w)
       \/ KreallocFail(c, w)
  \/ \E c \in Clients : Kfree(c)
  \/ KfreeAgain

KHeapSpec == KHeapInit /\ [][KHeapNext]_kheapVars

-----------------------------------------------------------------------------
(* What the heap promises                                                  *)

\* The list tiles the heap: every block is a header whose successor starts
\* where it ends and points back at it, and the last one ends at heap_end.
\* split_block and coalesce each rewrite three links to keep this.
Tiled == \A b \in Blocks(mem) :
  LET e == b + Hdr + mem[b].size IN
  /\ mem[b].kind = "hdr"
  /\ mem[b].next = IF e = NUnits THEN NULL ELSE e
  /\ mem[b].next # NULL => mem[mem[b].next].prev = b

\* Two free blocks never lie side by side: kfree leaves no fragmentation that
\* a request could trip over.
Coalesced == \A b \in Blocks(mem) :
  mem[b].free /\ mem[b].next # NULL => ~mem[mem[b].next].free

\* The blocks in use are exactly those some client holds, each by one client
\* and as large as what it asked for.
HeldOnce ==
  /\ \A c \in Clients : held[c] # Free =>
       LET h == held[c].ptr - Hdr IN
       h \in Blocks(mem) /\ ~mem[h].free /\ mem[h].size >= held[c].want
  /\ \A c, d \in Clients : held[c] # Free /\ held[c].ptr = held[d].ptr => c = d
  /\ \A b \in Blocks(mem) : ~mem[b].free => \E c \in Clients : held[c].ptr = b + Hdr

\* What a client stored is what it finds, whatever others allocate, free or
\* move, and also after krealloc moved it.
Contents == \A c \in Clients : held[c] # Free =>
  \A i \in 0 .. (held[c].want - 1) : mem[held[c].ptr + i] = Data(c)

\* The four together; each needs the others to be kept by every call.
HeapSound == Tiled /\ Coalesced /\ HeldOnce /\ Contents

=============================================================================
