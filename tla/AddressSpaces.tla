--------------------------- MODULE AddressSpaces ---------------------------
(***************************************************************************)
(* Page directories and processes on i386: kernel/mm/vmm.c, the creation   *)
(* and destruction of processes in kernel/sched/process.c, and             *)
(* sys_map_tensor of kernel/arch/syscall.c, which maps shared memory into  *)
(* the calling process.                                                    *)
(*                                                                         *)
(* A virtual page is a number; PteCount of them share a page table.  Pages *)
(* below TensorBase are the loader's, those above are handed out by        *)
(* sys_map_tensor.  The directory entries that every directory copies from *)
(* the kernel's are large pages and hold no frame; they are left out.      *)
(* Frames come from pmm_alloc_page, lowest first; pages of the shared      *)
(* memory are not frames, and pmm_free_page refuses them.                  *)
(***************************************************************************)
EXTENDS Integers, FiniteSets, FiniteSetsExt

CONSTANTS NFrames,      \* frames pmm can hand out
          Slots,        \* processes
          PteCount,     \* PAGE_ENTRIES
          PdeCount,     \* user entries of a directory
          TensorBase,   \* the first value of next_map_addr
          Blobs,        \* blobs of the shared heap
          BlobPages     \* pages of a blob

ASSUME SpacesAssumption ==
  /\ NFrames \in Nat /\ PteCount \in Nat \ {0} /\ PdeCount \in Nat
  /\ TensorBase \in 0 .. (PteCount * PdeCount)
  /\ Blobs \subseteq Nat /\ BlobPages \in Nat \ {0}

Frame == 1 .. NFrames
VPage == 0 .. (PteCount * PdeCount - 1)
Pde   == 0 .. (PdeCount - 1)
Pte   == 0 .. (PteCount - 1)
SharedPage(b, i) == NFrames + 1 + b * BlobPages + i   \* beyond highest_page
Kernel == 0                                           \* the boot directory
NoProc == [pcb |-> 0, pd |-> 0, kstack |-> 0]

VARIABLES free,      \* frames that pmm can hand out
          pde,       \* directory -> its user entries, 0 when not present
          pte,       \* page table -> its entries, 0 when not present
          proc,      \* the process_t of each slot
          cr3,       \* the directory the CPU uses
          curPd,     \* current_pd_phys
          nextMap,   \* next_map_addr
          loose,     \* frames allocated for code and mapped nowhere
          tensors    \* history: mappings that sys_map_tensor reported

spaceVars == <<free, pde, pte, proc, cr3, curPd, nextMap, loose, tensors>>

EmptyPd == [i \in Pde |-> 0]
EmptyPt == [i \in Pte |-> 0]

\* What a frame holds that is free or was never a table: pmm clears nothing,
\* so the entries may look present.
JunkPd == [i \in Pde |-> 1]
JunkPt == [i \in Pte |-> 1]

SpaceInit ==
  /\ free = Frame
  /\ pde = [f \in Frame |-> JunkPd] /\ pte = [f \in Frame |-> JunkPt]
  /\ proc = [s \in Slots |-> NoProc]
  /\ cr3 = Kernel /\ curPd = Kernel
  /\ nextMap = TensorBase
  /\ loose = {} /\ tensors = {}

Live == {s \in Slots : proc[s] # NoProc}
Lowest(fs) == IF fs = {} THEN 0 ELSE Min(fs)               \* pmm_alloc_page
PmmFree(fs, ps) == fs \cup (ps \cap Frame)                  \* pmm_free_page

-----------------------------------------------------------------------------
(* Directories                                                             *)

\* A memory is what the mapping operations read and write.
Memory == [free |-> free, pde |-> pde, pte |-> pte, ok |-> TRUE]

\* Mutant: a new page table is not cleared.
Mapped_Dirty(m, d, v, p) ==
  LET i == v \div PteCount
      t == IF m.pde[d][i] # 0 THEN m.pde[d][i] ELSE Lowest(m.free)
  IN IF t = 0 THEN [m EXCEPT !.ok = FALSE]
     ELSE [m EXCEPT !.free = @ \ {t}, !.pde[d][i] = t, !.pte[t][v % PteCount] = p]

\* vmm_map_page in directory d: a missing page table is allocated and cleared.
Mapped(m, d, v, p) ==
  LET i == v \div PteCount
      k == v % PteCount
      t == IF m.pde[d][i] # 0 THEN m.pde[d][i] ELSE Lowest(m.free)
  IN IF t = 0 THEN [m EXCEPT !.ok = FALSE]
     ELSE IF m.pde[d][i] # 0 THEN [m EXCEPT !.pte[t][k] = p]
     ELSE [m EXCEPT !.free = @ \ {t}, !.pde[d][i] = t,
                    !.pte[t] = [EmptyPt EXCEPT ![k] = p]]

\* vmm_map_range: page by page; it stops at the first failure and leaves what
\* it has mapped.
MappedRange(m, d, v, b) ==
  LET upto[i \in 0 .. BlobPages] ==
        IF i = 0 THEN m
        ELSE IF ~upto[i-1].ok THEN upto[i-1]
        ELSE Mapped(upto[i-1], d, v + i - 1, SharedPage(b, i - 1))
  IN upto[BlobPages]

\* vmm_virt_to_phys, 0 when a level is not present.
Phys(d, v) == LET t == pde[d][v \div PteCount]
              IN IF t = 0 THEN 0 ELSE pte[t][v % PteCount]

TablesOf(d) == {pde[d][i] : i \in Pde} \ {0}
PagesOf(d) == (UNION {{pte[t][k] : k \in Pte} : t \in TablesOf(d)}) \ {0}

\* vmm_destroy_user_pd: the pages, their tables and the directory.
DestroyedPd(fs, d) == PmmFree(fs, PagesOf(d) \cup TablesOf(d) \cup {d})

Store(m) == free' = m.free /\ pde' = m.pde /\ pte' = m.pte

-----------------------------------------------------------------------------
(* Processes                                                               *)

\* sched_create_user_process, called on the kernel's directory: the PCB, the
\* directory, the kernel stack.  Each failure gives back what was taken.  At
\* the end CR3 is what current_pd_phys says.
CreateProcess(s) ==
  LET pcb    == Lowest(free)
      pd     == Lowest(free \ {pcb})
      kstack == Lowest(free \ {pcb, pd})
      rest   == free \ {pcb, pd, kstack}
  IN
  /\ proc[s] = NoProc /\ cr3 = Kernel
  /\ CASE pcb = 0 -> UNCHANGED <<free, pde, proc, cr3>>
       [] pcb # 0 /\ pd = 0 ->
            free' = PmmFree(rest, {pcb}) /\ UNCHANGED <<pde, proc, cr3>>
       [] pd # 0 /\ kstack = 0 ->
            /\ free' = PmmFree(rest, {pcb, pd})
            /\ UNCHANGED <<pde, proc, cr3>>
       [] OTHER ->
            /\ free' = rest
            /\ pde' = [pde EXCEPT ![pd] = EmptyPd]
            /\ proc' = [proc EXCEPT ![s] = [pcb |-> pcb, pd |-> pd, kstack |-> kstack]]
            /\ cr3' = curPd
  /\ UNCHANGED <<pte, curPd, nextMap, loose, tensors>>

\* sched_destroy_process of a process that is not on the CPU.
DestroyProcess(s) ==
  /\ s \in Live /\ cr3 # proc[s].pd
  /\ free' = PmmFree(DestroyedPd(free, proc[s].pd), {proc[s].kstack, proc[s].pcb})
  /\ proc' = [proc EXCEPT ![s] = NoProc]
  /\ tensors' = {t \in tensors : t.slot # s}
  /\ pde' = [f \in Frame |-> IF f \in free' THEN JunkPd ELSE pde[f]]
  /\ pte' = [f \in Frame |-> IF f \in free' THEN JunkPt ELSE pte[f]]
  /\ UNCHANGED <<cr3, curPd, nextMap, loose>>

\* switch_to loads the directory without telling vmm.c.
ContextSwitch(s) ==
  /\ s \in Live /\ cr3' = proc[s].pd
  /\ UNCHANGED <<free, pde, pte, proc, curPd, nextMap, loose, tensors>>

BackToKernel ==
  /\ cr3' = curPd
  /\ UNCHANGED <<free, pde, pte, proc, curPd, nextMap, loose, tensors>>

-----------------------------------------------------------------------------
(* Mappings                                                                *)

\* The loader takes a page for code, one at a time ...
LoadPage ==
  /\ cr3 = Kernel /\ free # {} /\ loose = {}
  /\ loose' = loose \cup {Lowest(free)}
  /\ free' = free \ {Lowest(free)}
  /\ UNCHANGED <<pde, pte, proc, cr3, curPd, nextMap, tensors>>

\* ... and maps it where nothing is mapped, between two vmm_switch_pd.
MapCode(s, v, f) ==
  LET m == Mapped(Memory, proc[s].pd, v, f) IN
  /\ s \in Live /\ cr3 = Kernel /\ f \in loose
  /\ v < TensorBase /\ Phys(proc[s].pd, v) = 0
  /\ Store(m)
  /\ loose' = IF m.ok THEN loose \ {f} ELSE loose
  /\ UNCHANGED <<proc, cr3, curPd, nextMap, tensors>>

\* vmm_unmap_page hands the page back to its caller; the table stays.
UnmapPage(s, v) ==
  LET d == proc[s].pd
      f == Phys(d, v)
  IN
  /\ s \in Live /\ cr3 = d /\ v < TensorBase /\ f # 0 /\ loose = {}
  /\ pte' = [pte EXCEPT ![pde[d][v \div PteCount]][v % PteCount] = 0]
  /\ loose' = loose \cup {f}
  /\ UNCHANGED <<free, pde, proc, cr3, curPd, nextMap, tensors>>

\* sys_map_tensor by the running process.  The next address moves on only
\* after success.  Nothing in the code stops it at the end of user space: the
\* model does.
MapTensor(s, b) ==
  LET m == MappedRange(Memory, proc[s].pd, nextMap, b) IN
  /\ s \in Live /\ cr3 = proc[s].pd
  /\ nextMap + BlobPages - 1 \in VPage
  /\ Store(m)
  /\ IF m.ok
     THEN /\ nextMap' = nextMap + BlobPages
          /\ tensors' = tensors \cup {[slot |-> s, at |-> nextMap, blob |-> b]}
     ELSE UNCHANGED <<nextMap, tensors>>
  /\ UNCHANGED <<proc, cr3, curPd, loose>>

SpaceNext ==
  \/ \E s \in Slots : CreateProcess(s) \/ DestroyProcess(s) \/ ContextSwitch(s)
  \/ \E s \in Slots, v \in VPage : UnmapPage(s, v) \/ \E f \in loose : MapCode(s, v, f)
  \/ \E s \in Slots, b \in Blobs : MapTensor(s, b)
  \/ LoadPage \/ BackToKernel

SpaceSpec == SpaceInit /\ [][SpaceNext]_spaceVars

-----------------------------------------------------------------------------
(* What address spaces promise                                             *)

\* The places of the running system that may hold a frame.
Places ==
  [as : {"pcb", "pd", "kstack"}, of : Live] \cup [as : {"table"}, of : Live, at : Pde]
  \cup [as : {"page"}, of : Live, at : VPage] \cup [as : {"loose"}, at : loose]

HeldAt(u) ==
  CASE u.as = "pcb"    -> proc[u.of].pcb
    [] u.as = "pd"     -> proc[u.of].pd
    [] u.as = "kstack" -> proc[u.of].kstack
    [] u.as = "table"  -> pde[proc[u.of].pd][u.at]
    [] u.as = "page"   -> Phys(proc[u.of].pd, u.at)
    [] u.as = "loose"  -> u.at

Used == {u \in Places : HeldAt(u) \in Frame}

\* Every frame is free or in use in exactly one role of one process: no frame
\* leaks when a creation or a mapping fails half way, and destroying a process
\* takes nothing from another one.
FramesAccounted ==
  /\ Frame \ free = {HeldAt(u) : u \in Used}
  /\ \A u, w \in Used : HeldAt(u) = HeldAt(w) => u = w

\* A tensor that sys_map_tensor reported stays mapped where it said, page for
\* page, also when later mappings fail half way and leave pages behind.
TensorsIntact == \A t \in tensors :
  \A i \in 0 .. (BlobPages - 1) : Phys(proc[t.slot].pd, t.at + i) = SharedPage(t.blob, i)

\* Both: no process loses a frame, a table or a tensor to another.
SpacesSound == FramesAccounted /\ TensorsIntact

=============================================================================
