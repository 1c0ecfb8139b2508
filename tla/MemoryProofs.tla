---------------------------- MODULE MemoryProofs ----------------------------
(***************************************************************************)
(* Proofs about the physical pages.  The page allocator and the contracts, *)
(* for every number of pages and jobs, every node boundary and every       *)
(* budget: no page is held twice or lost, a job is charged exactly what it *)
(* holds and never holds more than its budget, and its state is justified  *)
(* by its violations.  The address spaces, for every number of frames, of  *)
(* slots and of directory entries: every frame is free or held in exactly  *)
(* one place, also when a creation or a mapping fails half way, and every  *)
(* reported tensor stays mapped where it was reported.                     *)
(***************************************************************************)
EXTENDS Governor, AddressSpaces, CommonLemmas

-----------------------------------------------------------------------------
(*                  The page allocator and the contracts                   *)

(* The frames of the two nodes part the pages.                             *)
LEMMA PagesParted ==
  /\ IsFiniteSet(Page) /\ Cardinality(Page) = NPages
  /\ Frames(0) \cup Frames(1) = Page /\ Frames(0) \cap Frames(1) = {}
  /\ Page \subseteq Nat
<1>1. IsFiniteSet(Page) /\ Cardinality(Page) = NPages
  <2>1. 0 \in Int /\ NPages - 1 \in Int /\ NPages \in Nat
    BY GovernorAssumption
  <2>2. IsFiniteSet(0 .. (NPages - 1))
        /\ Cardinality(0 .. (NPages - 1)) = IF 0 > NPages - 1 THEN 0 ELSE (NPages - 1) - 0 + 1
    BY <2>1, FS_Interval
  <2> QED BY <2>1, <2>2 DEF Page
<1>2. Frames(0) \cup Frames(1) = Page /\ Frames(0) \cap Frames(1) = {}
  BY DEF Frames
<1>3. Page \subseteq Nat
  BY DEF Page
<1> QED BY <1>1, <1>2, <1>3

(* The pages of a set are those of it in node 0 and those in node 1.       *)
LEMMA CountByNode ==
  ASSUME NEW ps \in SUBSET Page
  PROVE  /\ IsFiniteSet(ps) /\ Cardinality(ps) \in Nat
         /\ \A m \in Node : Cardinality(ps \cap Frames(m)) \in Nat
         /\ Cardinality(ps) = Cardinality(ps \cap Frames(0)) + Cardinality(ps \cap Frames(1))
<1>1. IsFiniteSet(ps)
  BY PagesParted, FS_Subset
<1>2. IsFiniteSet(ps \cap Frames(0)) /\ IsFiniteSet(ps \cap Frames(1))
  BY <1>1, FS_Intersection
<1>3. /\ ps = (ps \cap Frames(0)) \cup (ps \cap Frames(1))
      /\ (ps \cap Frames(0)) \cap (ps \cap Frames(1)) = {}
  BY PagesParted
<1>4. Cardinality(ps) = Cardinality(ps \cap Frames(0)) + Cardinality(ps \cap Frames(1))
  BY <1>2, <1>3, CountTaken
<1> QED BY <1>1, <1>2, <1>4, FS_CardinalityType DEF Node

-----------------------------------------------------------------------------
(* The counters.  Taking free pages, whichever node is charged, and giving *)
(* back used ones keeps the bitmap, free_pages and the sum of the nodes'   *)
(* counters in step.                                                       *)
Counters ==
  /\ used \in SUBSET Page /\ freePages \in 0 .. NPages /\ nodeFree \in [Node -> Int]
  /\ PagesCounted

LEMMA TakeCounted ==
  ASSUME Counters, NEW ps \in SUBSET (Page \ used), NEW m \in Node, Take(ps, m)
  PROVE  Counters' /\ used' = used \cup ps
<1> DEFINE c == Cardinality(ps)
<1>1. /\ used' = used \cup ps /\ freePages' = freePages - c
      /\ nodeFree' = [nodeFree EXCEPT ![m] = @ - c]
  BY DEF Take
<1>2. IsFiniteSet(used) /\ IsFiniteSet(ps) /\ used \cap ps = {} /\ used' \in SUBSET Page
  BY <1>1, PagesParted, FS_Subset DEF Counters
<1>3. /\ Cardinality(used') = Cardinality(used) + c /\ c \in Nat /\ Cardinality(used) \in Nat
      /\ Cardinality(used') \in Nat /\ Cardinality(used') <= NPages
  BY <1>1, <1>2, CountTaken, PagesParted, FS_Subset, FS_CardinalityType
<1> HIDE DEF c
<1>4. freePages' = NPages - Cardinality(used') /\ freePages' \in 0 .. NPages
  BY <1>1, <1>3, GovernorAssumption DEF Counters, PagesCounted
<1>5. nodeFree' \in [Node -> Int] /\ nodeFree'[0] + nodeFree'[1] = freePages'
  BY <1>1, <1>3, GovernorAssumption DEF Counters, PagesCounted, Node
<1> QED BY <1>1, <1>2, <1>4, <1>5 DEF Counters, PagesCounted

LEMMA GiveCounted ==
  ASSUME Counters, NEW ps \in SUBSET used, GiveBack(ps)
  PROVE  Counters' /\ used' = used \ ps
<1> DEFINE c == Cardinality(ps)
           c0 == Cardinality(ps \cap Frames(0))
           c1 == Cardinality(ps \cap Frames(1))
<1>1. /\ used' = used \ ps /\ freePages' = freePages + c
      /\ nodeFree' = [m \in Node |-> nodeFree[m] + Cardinality(ps \cap Frames(m))]
  BY DEF GiveBack
<1>2. c \in Nat /\ c0 \in Nat /\ c1 \in Nat /\ c = c0 + c1
  BY CountByNode DEF Counters, Node
<1>3. IsFiniteSet(used) /\ used' \in SUBSET Page
  BY <1>1, PagesParted, FS_Subset DEF Counters
<1>4. /\ Cardinality(used') = Cardinality(used) - c /\ Cardinality(used) \in Nat
      /\ Cardinality(used') \in Nat
  BY <1>1, <1>3, CountGiven, FS_CardinalityType
<1>5. nodeFree'[0] = nodeFree[0] + c0 /\ nodeFree'[1] = nodeFree[1] + c1
  BY <1>1 DEF Node
<1>6. nodeFree' \in [Node -> Int]
  BY <1>1, <1>3, CountByNode DEF Counters, Node
<1> HIDE DEF c, c0, c1
<1>7. freePages' = NPages - Cardinality(used') /\ freePages' \in 0 .. NPages
  BY <1>1, <1>2, <1>4, GovernorAssumption DEF Counters, PagesCounted
<1>8. nodeFree'[0] + nodeFree'[1] = freePages'
  BY <1>1, <1>2, <1>5, GovernorAssumption DEF Counters, PagesCounted, Node
<1> QED BY <1>1, <1>3, <1>6, <1>7, <1>8 DEF Counters, PagesCounted

(* pmm_alloc_page finds a free page, in the preferred node or the other.   *)
LEMMA PageForFree ==
  ASSUME used \in SUBSET Page, used # Page, NEW m \in Node
  PROVE  PageFor(m) \in Page \ used /\ NodeOf(PageFor(m)) \in Node
<1>1. FreeIn(0) \cup FreeIn(1) = Page \ used /\ FreeIn(0) \cup FreeIn(1) # {}
  BY PagesParted DEF FreeIn
<1>2. \A k \in Node : FreeIn(k) \in SUBSET Nat /\ FreeIn(k) \subseteq Page \ used
  BY <1>1, PagesParted DEF Node
<1>3. m = 0 \/ m = 1
  BY DEF Node
<1>4. 1 - m \in Node /\ (FreeIn(m) = {} => FreeIn(1 - m) # {})
  BY <1>1, <1>3 DEF Node
<1>5. PageFor(m) \in Page \ used
  BY <1>2, <1>4, LeastElement DEF PageFor
<1> QED BY <1>5 DEF NodeOf, Node

(* pmm_alloc_pages finds a run of free pages that lie within the area it   *)
(* searched, and the run is not empty.                                     *)
LEMMA RunFree ==
  ASSUME NEW k \in 2 .. MaxRun, NEW m \in Node \cup {AnyNode}, Candidates(k, m) # {}
  PROVE  LET p == Min(Candidates(k, m))
         IN  /\ Run(p, k) \in SUBSET (Page \ used) /\ Run(p, k) # {}
             /\ NodeOf(p) \in Node
<1> DEFINE p == Min(Candidates(k, m))
<1>1. \A x \in Candidates(k, m) : x \in Page /\ Run(x, k) \subseteq Page \ used
  BY PagesParted DEF Candidates, Runs, Node, AnyNode, Frames
<1>2. Candidates(k, m) \in SUBSET Nat
  BY <1>1, PagesParted
<1>3. p \in Candidates(k, m)
  BY <1>2, LeastElement
<1>4. p \in Nat /\ k \in Int /\ k >= 2
  BY <1>2, <1>3, GovernorAssumption
<1> HIDE DEF p
<1>5. p \in Run(p, k)
  BY <1>4 DEF Run
<1> QED BY <1>1, <1>3, <1>5 DEF NodeOf, Node, p

-----------------------------------------------------------------------------
(* Who holds a page.  PagesHeldOnce said page by page.                     *)
Held(p) == (\E j \in Jobs : p \in owned[j]) \/ (\E r \in raw : p \in r)

Apart ==
  /\ \A j, k \in Jobs : j # k => owned[j] \cap owned[k] = {}
  /\ \A r \in raw, j \in Jobs : r \cap owned[j] = {}
  /\ \A r, s \in raw : r # s => r \cap s = {}

HeldIsUsed == \A p : p \in used <=> Held(p)

LEMMA HeldOnceIs == PagesHeldOnce <=> HeldIsUsed /\ Apart
<1>1. \A p : p \in UNION ({owned[j] : j \in Jobs} \cup raw) <=> Held(p)
  BY DEF Held
<1>2. used = UNION ({owned[j] : j \in Jobs} \cup raw) <=> HeldIsUsed
  BY <1>1 DEF HeldIsUsed
<1> QED BY <1>2 DEF PagesHeldOnce, Apart

(* The types of the holders, and the part of TypeOK pmm.c does not touch.  *)
HolderTypes ==
  /\ hung \in BOOLEAN /\ owned \in [Jobs -> SUBSET Page]
  /\ \A r \in raw : r \subseteq Page

ContractTypes ==
  /\ applied \subseteq Jobs /\ pref \in [Jobs -> Node]
  /\ mem \in [Jobs -> 0 .. MaxUse] /\ cpu \in [Jobs -> 0 .. MaxUse]
  /\ memV \in [Jobs -> 0 .. MaxViol] /\ cpuV \in [Jobs -> 0 .. MaxViol]
  /\ state \in [Jobs -> {"OK", "WARNED", "SAFE_MODE"}] /\ overAdmitted \in BOOLEAN

LEMMA PagesSoundIs ==
  PagesSound <=> Counters /\ HeldIsUsed /\ Apart /\ HolderTypes /\ ContractTypes
BY HeldOnceIs DEF PagesSound, TypeOK, Counters, HolderTypes, ContractTypes

LEMMA HoldersUse ==
  HeldIsUsed => /\ \A j \in Jobs : owned[j] \subseteq used
                /\ \A r \in raw : r \subseteq used
BY DEF HeldIsUsed, Held

(* Calls that move no page.                                                *)
LEMMA PagesKept ==
  ASSUME PagesSound, UNCHANGED <<used, freePages, nodeFree, raw, owned>>,
         ContractTypes', hung' \in BOOLEAN
  PROVE  PagesSound'
<1>1. Counters /\ HeldIsUsed /\ Apart /\ HolderTypes
  BY PagesSoundIs
<1>2. Counters'
  BY <1>1 DEF Counters, PagesCounted
<1>3. HeldIsUsed'
  BY <1>1 DEF HeldIsUsed, Held
<1>4. Apart' /\ HolderTypes'
  BY <1>1 DEF Apart, HolderTypes
<1> QED BY <1>2, <1>3, <1>4, PagesSoundIs, PTL

(* The state machine of a contract stays among its three states.           *)
LEMMA DegradedType ==
  ASSUME NEW s \in {"OK", "WARNED", "SAFE_MODE"}, NEW v, NEW limit
  PROVE  Degraded(s, v, limit) \in {"OK", "WARNED", "SAFE_MODE"}
BY DEF Degraded

-----------------------------------------------------------------------------
(* pmm_alloc_pages and pmm_free_pages keep the pages sound.                *)
LEMMA PagesStep == ASSUME PagesSound, Pages PROVE PagesSound'
<1>0. /\ Counters /\ HeldIsUsed /\ Apart /\ HolderTypes /\ ContractTypes
      /\ (\A j \in Jobs : owned[j] \subseteq used) /\ \A r \in raw : r \subseteq used
  BY PagesSoundIs, HoldersUse
<1>1. ASSUME NEW k \in 2 .. MaxRun, NEW m \in Node \cup {AnyNode}, AllocPages(k, m)
      PROVE  PagesSound'
  <2> DEFINE x == Min(Candidates(k, m))
             run == Run(x, k)
  <2>1. /\ Candidates(k, m) # {} /\ Take(run, NodeOf(x)) /\ raw' = raw \cup {run}
        /\ UNCHANGED <<hung, applied, pref, mem, cpu, memV, cpuV, state, owned,
                       charged, overAdmitted>>
    BY <1>1 DEF AllocPages, acct
  <2>2. run \in SUBSET (Page \ used) /\ NodeOf(x) \in Node
    BY <2>1, RunFree
  <2> HIDE DEF x, run
  <2>3. Counters' /\ used' = used \cup run
    BY <1>0, <2>1, <2>2, TakeCounted
  <2>4. HeldIsUsed'
    BY <1>0, <2>1, <2>3 DEF HeldIsUsed, Held
  <2>5. Apart'
    <3>1. \A r \in raw : r \cap run = {}
      BY <1>0, <2>2
    <3>2. \A j \in Jobs : owned[j] \cap run = {}
      BY <1>0, <2>2
    <3> QED BY <1>0, <2>1, <3>1, <3>2 DEF Apart
  <2>6. ContractTypes'
    BY <1>0, <2>1 DEF ContractTypes
  <2>7. HolderTypes'
    BY <1>0, <2>1, <2>2 DEF HolderTypes
  <2> QED BY <2>3, <2>4, <2>5, <2>6, <2>7, PagesSoundIs, PTL
<1>2. ASSUME NEW k \in 2 .. MaxRun, NEW m \in Node \cup {AnyNode}, AllocPagesFails(k, m)
      PROVE  PagesSound'
  <2>1. /\ UNCHANGED <<used, freePages, nodeFree, raw, applied, pref, mem, cpu, memV, cpuV,
                       state, owned, overAdmitted>>
        /\ hung' \in BOOLEAN
    BY <1>2 DEF AllocPagesFails, acct
  <2>2. ContractTypes'
    BY <1>0, <2>1 DEF ContractTypes
  <2> QED BY <2>1, <2>2, PagesKept
<1>3. ASSUME NEW r \in raw, FreePages(r) PROVE PagesSound'
  <2>1. /\ GiveBack(r) /\ raw' = raw \ {r}
        /\ UNCHANGED <<hung, applied, pref, mem, cpu, memV, cpuV, state, owned,
                       charged, overAdmitted>>
    BY <1>3 DEF FreePages, acct
  <2>2. Counters' /\ used' = used \ r
    BY <1>0, <2>1, GiveCounted
  <2>3. HeldIsUsed'
    BY <1>0, <2>1, <2>2 DEF HeldIsUsed, Held, Apart
  <2>4. Apart' /\ HolderTypes'
    BY <1>0, <2>1 DEF Apart, HolderTypes
  <2>5. ContractTypes'
    BY <1>0, <2>1 DEF ContractTypes
  <2> QED BY <2>2, <2>3, <2>4, <2>5, PagesSoundIs, PTL
<1> QED BY <1>1, <1>2, <1>3 DEF Pages

(* The calls of contracts.c keep them sound: contract_alloc_page takes one *)
(* free page and contract_free_page gives one back, the others move none.  *)
LEMMA ContractStep == ASSUME PagesSound, NEW j \in Jobs, Contract(j) PROVE PagesSound'
<1>0. /\ Counters /\ HeldIsUsed /\ Apart /\ HolderTypes /\ ContractTypes
      /\ (\A i \in Jobs : owned[i] \subseteq used) /\ \A r \in raw : r \subseteq used
  BY PagesSoundIs, HoldersUse
<1>1. /\ MaxUse \in Nat /\ MaxViol \in Nat /\ MaxCharge \in Nat /\ PageKb \in Nat
      /\ MemBudget \in Nat /\ MemBudget <= MaxUse /\ 0 \in 0 .. MaxUse /\ 0 \in 0 .. MaxViol
      /\ mem[j] \in 0 .. MaxUse /\ cpu[j] \in 0 .. MaxUse
      /\ memV[j] \in 0 .. MaxViol /\ cpuV[j] \in 0 .. MaxViol
      /\ state[j] \in {"OK", "WARNED", "SAFE_MODE"} /\ pref[j] \in Node
  BY <1>0, GovernorAssumption DEF ContractTypes
<1>2. ASSUME NEW rt \in BOOLEAN, Apply(j, rt) PROVE PagesSound'
  <2>1. UNCHANGED <<used, freePages, nodeFree, hung, raw, owned>>
    BY <1>2 DEF Apply, pmm
  <2>2. ContractTypes'
    BY <1>0, <1>1, <1>2 DEF Apply, ContractTypes, Node
  <2> QED BY <1>0, <2>1, <2>2, PagesKept DEF HolderTypes
<1>3. ASSUME NEW x \in 1 .. MaxCharge, ChargeCpu(j, x) PROVE PagesSound'
  <2>1. UNCHANGED <<used, freePages, nodeFree, hung, raw, owned>>
    BY <1>3 DEF ChargeCpu, pmm
  <2>2. ContractTypes'
    <3>1. cpu[j] + x \in 0 .. MaxUse /\ cpuV[j] + 1 \in 0 .. MaxViol
      BY <1>1, <1>3 DEF ChargeCpu
    <3>2. Degraded(state[j], cpuV[j] + 1, 3) \in {"OK", "WARNED", "SAFE_MODE"}
      BY <1>1, DegradedType
    <3> QED BY <1>0, <1>3, <3>1, <3>2 DEF ChargeCpu, ContractTypes
  <2> QED BY <1>0, <2>1, <2>2, PagesKept DEF HolderTypes
<1>4. ASSUME NEW x \in 1 .. MaxCharge, ChargeMemory(j, x) PROVE PagesSound'
  <2>1. UNCHANGED <<used, freePages, nodeFree, hung, raw, owned>>
    BY <1>4 DEF ChargeMemory, pmm
  <2>2. ContractTypes'
    <3>1. mem[j] + x \in 0 .. MaxUse /\ memV[j] + 1 \in 0 .. MaxViol
      BY <1>1, <1>4 DEF ChargeMemory
    <3>2. Degraded(state[j], memV[j] + 1, 2) \in {"OK", "WARNED", "SAFE_MODE"}
      BY <1>1, DegradedType
    <3> QED BY <1>0, <1>4, <3>1, <3>2 DEF ChargeMemory, ContractTypes
  <2> QED BY <1>0, <2>1, <2>2, PagesKept DEF HolderTypes
<1>5. CASE AllocDenied(j)
  <2>1. UNCHANGED <<used, freePages, nodeFree, hung, raw, owned>>
    BY <1>5 DEF AllocDenied, pmm
  <2>2. ContractTypes'
    <3>1. memV[j] + 1 \in 0 .. MaxViol
      BY <1>1, <1>5 DEF AllocDenied
    <3>2. Degraded(state[j], memV[j] + 1, 2) \in {"OK", "WARNED", "SAFE_MODE"}
      BY <1>1, DegradedType
    <3> QED BY <1>0, <1>5, <3>1, <3>2 DEF AllocDenied, ContractTypes
  <2> QED BY <1>0, <2>1, <2>2, PagesKept DEF HolderTypes
<1>6. CASE AllocPage(j)
  <2> DEFINE p == PageFor(pref[j])
  <2>1. /\ used # Page /\ Take({p}, NodeOf(p)) /\ owned' = [owned EXCEPT ![j] = @ \cup {p}]
        /\ mem' = [mem EXCEPT ![j] = @ + PageKb] /\ mem[j] + PageKb <= MemBudget
        /\ UNCHANGED <<hung, raw, applied, pref, cpu, memV, cpuV, state, overAdmitted>>
    BY <1>6 DEF AllocPage
  <2>2. p \in Page \ used /\ NodeOf(p) \in Node
    BY <1>0, <1>1, <2>1, PageForFree DEF Counters
  <2> HIDE DEF p
  <2>3. Counters' /\ used' = used \cup {p}
    <3>1. {p} \in SUBSET (Page \ used)
      BY <2>2
    <3> QED BY <1>0, <2>1, <2>2, <3>1, TakeCounted
  <2>4. /\ owned'[j] = owned[j] \cup {p} /\ \A i \in Jobs \ {j} : owned'[i] = owned[i]
    BY <1>0, <2>1 DEF HolderTypes
  <2>5. HeldIsUsed'
    <3>1. ASSUME NEW q PROVE q \in used' <=> Held(q)'
      BY <1>0, <2>1, <2>3, <2>4 DEF HeldIsUsed, Held
    <3> QED BY <3>1 DEF HeldIsUsed
  <2>6. Apart'
    <3>1. (\A i \in Jobs : p \notin owned[i]) /\ \A r \in raw : p \notin r
      BY <1>0, <2>2
    <3> QED BY <1>0, <2>1, <2>4, <3>1 DEF Apart
  <2>7. HolderTypes'
    BY <1>0, <2>1, <2>2 DEF HolderTypes
  <2>8. ContractTypes'
    <3>1. mem[j] + PageKb \in 0 .. MaxUse
      BY <1>1, <2>1
    <3> QED BY <1>0, <2>1, <3>1 DEF ContractTypes
  <2> QED BY <2>3, <2>5, <2>6, <2>7, <2>8, PagesSoundIs, PTL
<1>7. ASSUME NEW p \in owned[j], FreePage(j, p) PROVE PagesSound'
  <2>1. /\ GiveBack({p}) /\ owned' = [owned EXCEPT ![j] = @ \ {p}]
        /\ mem' = [mem EXCEPT ![j] = IF @ >= PageKb THEN @ - PageKb ELSE @]
        /\ UNCHANGED <<hung, raw, applied, pref, cpu, memV, cpuV, state, overAdmitted>>
    BY <1>7 DEF FreePage
  <2>2. Counters' /\ used' = used \ {p}
    <3>1. {p} \in SUBSET used
      BY <1>0
    <3> QED BY <1>0, <2>1, <3>1, GiveCounted
  <2>3. /\ owned'[j] = owned[j] \ {p} /\ \A i \in Jobs \ {j} : owned'[i] = owned[i]
    BY <1>0, <2>1 DEF HolderTypes
  <2>4. HeldIsUsed'
    <3>1. (\A i \in Jobs \ {j} : p \notin owned[i]) /\ \A r \in raw : p \notin r
      BY <1>0 DEF Apart
    <3>2. ASSUME NEW q PROVE q \in used' <=> Held(q)'
      BY <1>0, <2>1, <2>2, <2>3, <3>1 DEF HeldIsUsed, Held
    <3> QED BY <3>2 DEF HeldIsUsed
  <2>5. Apart'
    BY <1>0, <2>1, <2>3 DEF Apart
  <2>6. HolderTypes'
    BY <1>0, <2>1 DEF HolderTypes
  <2>7. ContractTypes'
    <3>1. (IF mem[j] >= PageKb THEN mem[j] - PageKb ELSE mem[j]) \in 0 .. MaxUse
      BY <1>1
    <3> QED BY <1>0, <2>1, <3>1 DEF ContractTypes
  <2> QED BY <2>2, <2>4, <2>5, <2>6, <2>7, PagesSoundIs, PTL
<1>8. ASSUME NEW peak \in 1 .. MemBudget, Admit(j, peak) PROVE PagesSound'
  <2>1. /\ UNCHANGED <<used, freePages, nodeFree, hung, raw, owned>>
        /\ UNCHANGED <<applied, pref, mem, cpu, memV, cpuV, state>>
        /\ overAdmitted' \in BOOLEAN
    BY <1>8 DEF Admit, pmm, acct
  <2>2. ContractTypes'
    BY <1>0, <2>1 DEF ContractTypes
  <2> QED BY <1>0, <2>1, <2>2, PagesKept DEF HolderTypes
<1> QED BY <1>2, <1>3, <1>4, <1>5, <1>6, <1>7, <1>8 DEF Contract

(* No page frame is ever held twice or lost: the bitmap, free_pages and    *)
(* the nodes' counters agree with what the jobs and the kernel hold, for   *)
(* any sequence of allocations, fallbacks to the other node, runs across   *)
(* the node boundary and frees.                                            *)
THEOREM PagesAreSound == Spec => []PagesSound
<1>1. Init => PagesSound
  <2> SUFFICES ASSUME Init PROVE PagesSound
    OBVIOUS
  <2>1. Counters
    <3>1. Cardinality({}) = 0 /\ NPages \in Nat
      BY FS_EmptySet, GovernorAssumption
    <3>2. /\ Page \cap Frames(0) = Frames(0) /\ Page \cap Frames(1) = Frames(1)
      BY PagesParted
    <3>3. /\ Cardinality(Frames(0)) \in Nat /\ Cardinality(Frames(1)) \in Nat
          /\ Cardinality(Frames(0)) + Cardinality(Frames(1)) = NPages
      BY <3>2, CountByNode, PagesParted DEF Node
    <3>4. nodeFree[0] = Cardinality(Frames(0)) /\ nodeFree[1] = Cardinality(Frames(1))
          /\ nodeFree \in [Node -> Int]
      BY <3>3 DEF Init, Node
    <3> QED BY <3>1, <3>3, <3>4 DEF Init, Counters, PagesCounted
  <2>2. HeldIsUsed /\ Apart /\ HolderTypes
    BY DEF Init, HeldIsUsed, Held, Apart, HolderTypes
  <2>3. ContractTypes
    <3>1. 0 \in 0 .. MaxUse /\ 0 \in 0 .. MaxViol /\ 0 \in Node
      BY GovernorAssumption DEF Node
    <3> QED BY <3>1 DEF Init, ContractTypes
  <2> QED BY <2>1, <2>2, <2>3, PagesSoundIs
<1>2. PagesSound /\ [Next]_vars => PagesSound'
  <2> SUFFICES ASSUME PagesSound, [Next]_vars PROVE PagesSound'
    OBVIOUS
  <2>1. CASE UNCHANGED vars
    <3>1. ContractTypes /\ HolderTypes
      BY PagesSoundIs
    <3>2. ContractTypes'
      BY <2>1, <3>1 DEF vars, ContractTypes
    <3> QED BY <2>1, <3>1, <3>2, PagesKept DEF vars, HolderTypes
  <2> QED BY <2>1, PagesStep, ContractStep DEF Next
<1> QED BY <1>1, <1>2, PTL DEF Spec

-----------------------------------------------------------------------------
(* The states.  A contract that was never applied has no violation, so     *)
(* contract_apply, which clears the counters, does not clear a safe mode.  *)
FreshContracts == \A j \in Jobs \ applied : cpuV[j] = 0 /\ memV[j] = 0

StateInv == StateJustified /\ FreshContracts

(* The state machine on a violation keeps the state justified.             *)
LEMMA DegradedJustified ==
  ASSUME NEW s \in {"OK", "WARNED", "SAFE_MODE"}, NEW v \in Nat, NEW w \in Nat,
         NEW limit \in {2, 3}
  PROVE  /\ Degraded(s, v + 1, limit) # "OK"
         /\ Degraded(s, v + 1, limit) = "SAFE_MODE" => s = "SAFE_MODE" \/ v + 1 >= limit
         /\ s = "SAFE_MODE" => Degraded(s, v + 1, limit) = "SAFE_MODE"
BY DEF Degraded

LEMMA StateStep == ContractTypes /\ StateInv /\ [Next]_vars => StateInv'
<1> SUFFICES ASSUME ContractTypes, StateInv, [Next]_vars PROVE StateInv'
  OBVIOUS
<1>0. MaxViol \in Nat /\ MaxCharge \in Nat
  BY GovernorAssumption
<1>1. CASE UNCHANGED <<applied, memV, cpuV, state>>
  BY <1>1 DEF StateInv, StateJustified, FreshContracts
<1>2. ASSUME NEW j \in Jobs, NEW rt \in BOOLEAN, Apply(j, rt) PROVE StateInv'
  <2>1. /\ memV' = [memV EXCEPT ![j] = 0] /\ cpuV' = [cpuV EXCEPT ![j] = 0]
        /\ state' = [state EXCEPT ![j] = "OK"] /\ applied' = applied \cup {j}
    BY <1>2 DEF Apply
  <2> QED BY <2>1 DEF StateInv, StateJustified, FreshContracts, ContractTypes
<1>3. ASSUME NEW j \in Jobs, NEW x \in 1 .. MaxCharge, ChargeCpu(j, x) PROVE StateInv'
  <2>1. /\ j \in applied /\ applied' = applied /\ memV' = memV
        /\ state[j] \in {"OK", "WARNED", "SAFE_MODE"} /\ cpuV[j] \in Nat /\ memV[j] \in Nat
    BY <1>3 DEF ChargeCpu, ContractTypes
  <2>2. \A i \in Jobs \ {j} : cpuV'[i] = cpuV[i] /\ state'[i] = state[i]
    BY <1>3 DEF ChargeCpu, ContractTypes
  <2>3. \/ cpuV'[j] = cpuV[j] /\ state'[j] = state[j]
        \/ cpuV'[j] = cpuV[j] + 1 /\ state'[j] = Degraded(state[j], cpuV[j] + 1, 3)
    BY <1>3 DEF ChargeCpu, ContractTypes
  <2>4. /\ (state'[j] = "OK") <=> (cpuV'[j] = 0 /\ memV'[j] = 0)
        /\ state'[j] = "SAFE_MODE" => cpuV'[j] >= 3 \/ memV'[j] >= 2
    BY <2>1, <2>3, DegradedJustified DEF StateInv, StateJustified
  <2> QED BY <2>1, <2>2, <2>4 DEF StateInv, StateJustified, FreshContracts
<1>4. ASSUME NEW j \in Jobs, memV' = [memV EXCEPT ![j] = @ + 1],
             state' = [state EXCEPT ![j] = Degraded(@, memV[j] + 1, 2)],
             j \in applied, UNCHANGED <<applied, cpuV>>
      PROVE  StateInv'
  <2>1. state[j] \in {"OK", "WARNED", "SAFE_MODE"} /\ cpuV[j] \in Nat /\ memV[j] \in Nat
    BY DEF ContractTypes
  <2>2. \A i \in Jobs \ {j} : memV'[i] = memV[i] /\ state'[i] = state[i]
    BY <1>4 DEF ContractTypes
  <2>3. memV'[j] = memV[j] + 1 /\ state'[j] = Degraded(state[j], memV[j] + 1, 2)
    BY <1>4 DEF ContractTypes
  <2>4. /\ (state'[j] = "OK") <=> (cpuV'[j] = 0 /\ memV'[j] = 0)
        /\ state'[j] = "SAFE_MODE" => cpuV'[j] >= 3 \/ memV'[j] >= 2
    BY <1>4, <2>1, <2>3, DegradedJustified DEF StateInv, StateJustified
  <2> QED BY <1>4, <2>2, <2>4 DEF StateInv, StateJustified, FreshContracts
<1>5. ASSUME NEW j \in Jobs, NEW x \in 1 .. MaxCharge, ChargeMemory(j, x) PROVE StateInv'
  <2>1. CASE mem[j] + x > MemBudget
    BY <1>4, <1>5, <2>1 DEF ChargeMemory
  <2>2. CASE ~(mem[j] + x > MemBudget)
    <3>1. /\ memV' = [memV EXCEPT ![j] = @] /\ state' = [state EXCEPT ![j] = @]
          /\ UNCHANGED <<applied, cpuV>>
      BY <1>5, <2>2 DEF ChargeMemory
    <3>2. memV' = memV /\ state' = state
      BY <3>1 DEF ContractTypes
    <3> QED BY <1>1, <3>1, <3>2
  <2> QED BY <2>1, <2>2
<1>6. ASSUME NEW j \in Jobs, AllocDenied(j) PROVE StateInv'
  BY <1>4, <1>6 DEF AllocDenied
<1>7. ASSUME NEW j \in Jobs, AllocPage(j) PROVE StateInv'
  BY <1>1, <1>7 DEF AllocPage
<1>8. ASSUME NEW j \in Jobs, NEW p \in owned[j], FreePage(j, p) PROVE StateInv'
  BY <1>1, <1>8 DEF FreePage
<1>9. ASSUME NEW j \in Jobs, NEW peak \in 1 .. MemBudget, Admit(j, peak) PROVE StateInv'
  BY <1>1, <1>9 DEF Admit, acct
<1>10. CASE Pages
  <2>1. UNCHANGED <<applied, memV, cpuV, state>>
    BY <1>10 DEF Pages, AllocPages, AllocPagesFails, FreePages, acct
  <2> QED BY <1>1, <2>1
<1>11. CASE UNCHANGED vars
  BY <1>1, <1>11 DEF vars
<1> QED BY <1>2, <1>3, <1>5, <1>6, <1>7, <1>8, <1>9, <1>10, <1>11 DEF Next, Contract

LEMMA StateInvariant == Spec => []StateInv
<1>1. Init => StateInv
  BY DEF Init, StateInv, StateJustified, FreshContracts
<1>2. PagesSound => ContractTypes
  BY PagesSoundIs
<1> QED BY <1>1, <1>2, StateStep, PagesAreSound, PTL DEF Spec

(* A contract is OK exactly if it has no violation, and in safe mode only  *)
(* after the third CPU or the second memory violation, however charges,    *)
(* denials and frees are mixed.                                            *)
THEOREM StatesJustified == Spec => []StateJustified
BY StateInvariant, PTL DEF StateInv

(* contract_apply, the charges and the denials never take a contract out   *)
(* of safe mode, and contract_alloc_page gives it no page.                 *)
THEOREM SafeModeKept == Spec => SafeModeHolds
<1>1. ContractTypes /\ HolderTypes /\ StateInv /\ [Next]_vars =>
        [\A j \in Jobs : state[j] = "SAFE_MODE" =>
           state'[j] = "SAFE_MODE" /\ owned'[j] \subseteq owned[j]]_vars
  <2> SUFFICES ASSUME ContractTypes, HolderTypes, StateInv, Next,
                      NEW j \in Jobs, state[j] = "SAFE_MODE"
               PROVE  state'[j] = "SAFE_MODE" /\ owned'[j] \subseteq owned[j]
    OBVIOUS
  <2>1. j \in applied
    BY DEF StateInv, StateJustified, FreshContracts
  <2>2. CASE Pages
    BY <2>2 DEF Pages, AllocPages, AllocPagesFails, FreePages, acct
  <2>3. ASSUME NEW i \in Jobs, Contract(i)
        PROVE  state'[j] = "SAFE_MODE" /\ owned'[j] \subseteq owned[j]
    <3>1. ASSUME NEW rt \in BOOLEAN, Apply(i, rt)
          PROVE  state'[j] = "SAFE_MODE" /\ owned'[j] \subseteq owned[j]
      <4>1. i # j /\ state' = [state EXCEPT ![i] = "OK"] /\ owned' = owned
        BY <2>1, <3>1 DEF Apply
      <4> QED BY <4>1 DEF ContractTypes
    <3>2. ASSUME NEW x \in 1 .. MaxCharge, ChargeCpu(i, x)
          PROVE  state'[j] = "SAFE_MODE" /\ owned'[j] \subseteq owned[j]
      BY <3>2 DEF ChargeCpu, Degraded, ContractTypes
    <3>3. ASSUME NEW x \in 1 .. MaxCharge, ChargeMemory(i, x)
          PROVE  state'[j] = "SAFE_MODE" /\ owned'[j] \subseteq owned[j]
      BY <3>3 DEF ChargeMemory, Degraded, ContractTypes
    <3>4. CASE AllocDenied(i)
      BY <3>4 DEF AllocDenied, ContractTypes
    <3>5. CASE AllocPage(i)
      <4>1. i # j /\ state' = state
        BY <3>5 DEF AllocPage
      <4>2. owned'[j] = owned[j]
        BY <3>5, <4>1 DEF AllocPage, HolderTypes
      <4> QED BY <4>1, <4>2
    <3>6. ASSUME NEW p \in owned[i], FreePage(i, p)
          PROVE  state'[j] = "SAFE_MODE" /\ owned'[j] \subseteq owned[j]
      BY <3>6 DEF FreePage, HolderTypes
    <3>7. ASSUME NEW peak \in 1 .. MemBudget, Admit(i, peak)
          PROVE  state'[j] = "SAFE_MODE" /\ owned'[j] \subseteq owned[j]
      BY <3>7 DEF Admit, acct
    <3> QED BY <2>3, <3>1, <3>2, <3>3, <3>4, <3>5, <3>6, <3>7 DEF Contract
  <2> QED BY <2>2, <2>3 DEF Next
<1>2. PagesSound => ContractTypes /\ HolderTypes
  BY PagesSoundIs
<1> QED BY <1>1, <1>2, PagesAreSound, StateInvariant, PTL DEF Spec, SafeModeHolds

-----------------------------------------------------------------------------
(* The charges.  A contract that was never applied holds nothing, so the   *)
(* reset of mem_used_kb in contract_apply loses no charge.                 *)
ChargesInv ==
  /\ ChargesSound /\ charged \in [Jobs -> Nat]
  /\ \A j \in Jobs \ applied : owned[j] = {} /\ charged[j] = 0

(* One page more or less is PageKb more or less.                           *)
LEMMA PageCharged ==
  ASSUME NEW S \in SUBSET Page
  PROVE  /\ Cardinality(S) \in Nat /\ PageKb * Cardinality(S) \in Nat
         /\ \A p \in Page \ S :
              PageKb * Cardinality(S \cup {p}) = PageKb * Cardinality(S) + PageKb
         /\ \A p \in S : /\ PageKb * Cardinality(S \ {p}) = PageKb * Cardinality(S) - PageKb
                         /\ PageKb * Cardinality(S) >= PageKb
<1>1. IsFiniteSet(S) /\ Cardinality(S) \in Nat /\ PageKb \in Nat
  BY CountByNode, GovernorAssumption
<1>2. \A c \in Nat : /\ PageKb * (c + 1) = PageKb * c + PageKb
                     /\ PageKb * c \in Nat
  BY <1>1
<1>3. ASSUME NEW p \in Page \ S
      PROVE  PageKb * Cardinality(S \cup {p}) = PageKb * Cardinality(S) + PageKb
  <2>1. Cardinality(S \cup {p}) = Cardinality(S) + 1
    BY <1>1, FS_AddElement
  <2> QED BY <1>1, <1>2, <2>1
<1>4. ASSUME NEW p \in S
      PROVE  /\ PageKb * Cardinality(S \ {p}) = PageKb * Cardinality(S) - PageKb
             /\ PageKb * Cardinality(S) >= PageKb
  <2> DEFINE c == Cardinality(S \ {p})
  <2>1. IsFiniteSet(S \ {p}) /\ c = Cardinality(S) - 1
    BY <1>1, FS_RemoveElement
  <2>2. c \in Nat
    BY <2>1, FS_CardinalityType
  <2> HIDE DEF c
  <2>3. Cardinality(S) = c + 1
    BY <1>1, <2>1, <2>2
  <2>4. PageKb * Cardinality(S) = PageKb * c + PageKb /\ PageKb * c \in Nat
    BY <1>2, <2>2, <2>3
  <2>5. PageKb * c = PageKb * Cardinality(S) - PageKb /\ PageKb * Cardinality(S) >= PageKb
    BY <1>1, <2>4
  <2> QED BY <2>5 DEF c
<1> QED BY <1>1, <1>2, <1>3, <1>4

LEMMA ChargesStep == PagesSound /\ ChargesInv /\ [Next]_vars => ChargesInv'
<1> SUFFICES ASSUME PagesSound, ChargesInv, [Next]_vars PROVE ChargesInv'
  OBVIOUS
<1>0. /\ Counters /\ HeldIsUsed /\ HolderTypes /\ ContractTypes
      /\ \A i \in Jobs : owned[i] \subseteq used /\ owned[i] \in SUBSET Page
  BY PagesSoundIs, HoldersUse DEF HolderTypes
<1>1. CASE UNCHANGED <<applied, mem, owned, charged>>
  BY <1>1 DEF ChargesInv, ChargesSound, ChargesMatch, WithinBudget
<1>2. ASSUME NEW j \in Jobs, NEW rt \in BOOLEAN, Apply(j, rt) PROVE ChargesInv'
  <2>1. /\ j \notin applied /\ applied' = applied \cup {j} /\ mem' = [mem EXCEPT ![j] = 0]
        /\ owned' = owned /\ charged' = charged
    BY <1>2 DEF Apply
  <2>2. owned[j] = {} /\ charged[j] = 0 /\ mem[j] = 0
    <3>1. owned[j] = {} /\ charged[j] = 0
      BY <2>1 DEF ChargesInv
    <3>2. mem[j] = PageKb * Cardinality(owned[j]) + charged[j] /\ Cardinality({}) = 0
      BY FS_EmptySet DEF ChargesInv, ChargesSound, ChargesMatch
    <3> QED BY <3>1, <3>2, GovernorAssumption
  <2>3. mem' = mem
    BY <1>0, <2>1, <2>2 DEF ContractTypes
  <2> QED BY <2>1, <2>3 DEF ChargesInv, ChargesSound, ChargesMatch, WithinBudget
<1>3. ASSUME NEW j \in Jobs, NEW x \in 1 .. MaxCharge, ChargeMemory(j, x) PROVE ChargesInv'
  <2>1. /\ j \in applied /\ mem' = [mem EXCEPT ![j] = @ + x]
        /\ charged' = [charged EXCEPT ![j] = @ + x] /\ owned' = owned /\ applied' = applied
    BY <1>3 DEF ChargeMemory
  <2>2. x \in Nat /\ mem[j] \in Nat /\ charged[j] \in Nat
    BY <1>0, GovernorAssumption DEF ContractTypes, ChargesInv
  <2>3. charged' \in [Jobs -> Nat]
    BY <2>1, <2>2 DEF ChargesInv
  <2>4. mem'[j] = PageKb * Cardinality(owned'[j]) + charged'[j]
    <3>1. mem'[j] = mem[j] + x /\ charged'[j] = charged[j] + x
      BY <1>0, <2>1 DEF ContractTypes, ChargesInv
    <3>2. mem[j] = PageKb * Cardinality(owned[j]) + charged[j]
      BY DEF ChargesInv, ChargesSound, ChargesMatch
    <3>3. PageKb * Cardinality(owned[j]) \in Nat
      BY <1>0, PageCharged
    <3> QED BY <2>1, <2>2, <3>1, <3>2, <3>3
  <2>5. ChargesMatch'
    <3>1. \A i \in Jobs \ {j} : mem'[i] = mem[i] /\ charged'[i] = charged[i]
      BY <1>0, <2>1 DEF ContractTypes, ChargesInv
    <3> QED BY <2>1, <2>4, <3>1 DEF ChargesInv, ChargesSound, ChargesMatch
  <2>6. WithinBudget' /\ \A i \in Jobs \ applied' : owned'[i] = {} /\ charged'[i] = 0
    BY <2>1 DEF ChargesInv, ChargesSound, WithinBudget
  <2> QED BY <2>3, <2>5, <2>6 DEF ChargesInv, ChargesSound
<1>4. ASSUME NEW j \in Jobs, AllocPage(j) PROVE ChargesInv'
  <2> DEFINE p == PageFor(pref[j])
  <2>1. /\ j \in applied /\ applied' = applied /\ used # Page /\ charged' = charged
        /\ owned' = [owned EXCEPT ![j] = @ \cup {p}]
        /\ mem' = [mem EXCEPT ![j] = @ + PageKb] /\ mem[j] + PageKb <= MemBudget
    BY <1>4 DEF AllocPage
  <2>2. p \in Page \ owned[j]
    BY <1>0, <2>1, PageForFree DEF Counters, ContractTypes
  <2> HIDE DEF p
  <2>3. /\ mem'[j] = mem[j] + PageKb /\ owned'[j] = owned[j] \cup {p}
        /\ \A i \in Jobs \ {j} : mem'[i] = mem[i] /\ owned'[i] = owned[i]
    BY <1>0, <2>1 DEF ContractTypes, HolderTypes
  <2>4. /\ PageKb * Cardinality(owned'[j]) = PageKb * Cardinality(owned[j]) + PageKb
        /\ PageKb * Cardinality(owned[j]) \in Nat
    BY <1>0, <2>2, <2>3, PageCharged
  <2>5. mem[j] = PageKb * Cardinality(owned[j]) + charged[j] /\ charged[j] \in Nat
    BY DEF ChargesInv, ChargesSound, ChargesMatch
  <2>6. PageKb \in Nat /\ MemBudget \in Nat
    BY GovernorAssumption
  <2>7. /\ mem'[j] = PageKb * Cardinality(owned'[j]) + charged[j]
        /\ PageKb * Cardinality(owned'[j]) <= MemBudget
    BY <2>1, <2>3, <2>4, <2>5, <2>6
  <2>8. ChargesMatch' /\ WithinBudget'
    BY <2>1, <2>3, <2>7 DEF ChargesInv, ChargesSound, ChargesMatch, WithinBudget
  <2> QED BY <2>1, <2>3, <2>8 DEF ChargesInv, ChargesSound
<1>5. ASSUME NEW j \in Jobs, NEW p \in owned[j], FreePage(j, p) PROVE ChargesInv'
  <2>1. /\ applied' = applied /\ charged' = charged
        /\ owned' = [owned EXCEPT ![j] = @ \ {p}]
        /\ mem' = [mem EXCEPT ![j] = IF @ >= PageKb THEN @ - PageKb ELSE @]
    BY <1>5 DEF FreePage
  <2>2. /\ mem'[j] = (IF mem[j] >= PageKb THEN mem[j] - PageKb ELSE mem[j])
        /\ owned'[j] = owned[j] \ {p}
        /\ \A i \in Jobs \ {j} : mem'[i] = mem[i] /\ owned'[i] = owned[i]
    BY <1>0, <2>1 DEF ContractTypes, HolderTypes
  <2>3. /\ PageKb * Cardinality(owned'[j]) = PageKb * Cardinality(owned[j]) - PageKb
        /\ PageKb * Cardinality(owned[j]) \in Nat
        /\ PageKb * Cardinality(owned[j]) >= PageKb
    BY <1>0, <2>2, PageCharged
  <2>4. mem[j] = PageKb * Cardinality(owned[j]) + charged[j] /\ charged[j] \in Nat
    BY DEF ChargesInv, ChargesSound, ChargesMatch
  <2>5. PageKb * Cardinality(owned[j]) <= MemBudget /\ PageKb \in Nat /\ MemBudget \in Nat
    BY GovernorAssumption DEF ChargesInv, ChargesSound, WithinBudget
  <2>6. /\ mem'[j] = PageKb * Cardinality(owned'[j]) + charged[j]
        /\ PageKb * Cardinality(owned'[j]) <= MemBudget
    BY <2>2, <2>3, <2>4, <2>5
  <2>7. ChargesMatch' /\ WithinBudget'
    BY <2>1, <2>2, <2>6 DEF ChargesInv, ChargesSound, ChargesMatch, WithinBudget
  <2>8. \A i \in Jobs \ applied' : owned'[i] = {} /\ charged'[i] = 0
    BY <2>1, <2>2 DEF ChargesInv
  <2> QED BY <2>1, <2>7, <2>8 DEF ChargesInv, ChargesSound
<1>6. ASSUME NEW j \in Jobs, NEW x \in 1 .. MaxCharge, ChargeCpu(j, x) PROVE ChargesInv'
  BY <1>1, <1>6 DEF ChargeCpu
<1>7. ASSUME NEW j \in Jobs, AllocDenied(j) PROVE ChargesInv'
  BY <1>1, <1>7 DEF AllocDenied
<1>8. ASSUME NEW j \in Jobs, NEW peak \in 1 .. MemBudget, Admit(j, peak) PROVE ChargesInv'
  BY <1>1, <1>8 DEF Admit, acct
<1>9. CASE Pages
  <2>1. UNCHANGED <<applied, mem, owned, charged>>
    BY <1>9 DEF Pages, AllocPages, AllocPagesFails, FreePages, acct
  <2> QED BY <1>1, <2>1
<1>10. CASE UNCHANGED vars
  BY <1>1, <1>10 DEF vars
<1> QED BY <1>2, <1>3, <1>4, <1>5, <1>6, <1>7, <1>8, <1>9, <1>10 DEF Next, Contract

(* mem_used_kb is exactly what the job holds and what was charged to it,   *)
(* and contract_alloc_page never gives a job a page beyond its budget.     *)
THEOREM ChargesAreSound == Spec => []ChargesSound
<1>1. Init => ChargesInv
  <2> SUFFICES ASSUME Init PROVE ChargesInv
    OBVIOUS
  <2>1. Cardinality({}) = 0 /\ PageKb * 0 = 0 /\ MemBudget >= 0
    BY FS_EmptySet, GovernorAssumption
  <2> QED BY <2>1 DEF Init, ChargesInv, ChargesSound, ChargesMatch, WithinBudget
<1>2. ChargesInv => ChargesSound
  BY DEF ChargesInv
<1> QED BY <1>1, <1>2, ChargesStep, PagesAreSound, PTL DEF Spec

-----------------------------------------------------------------------------
(*                            Address spaces                               *)

(* The use of a frame, as the proof's ledger names it.                     *)
NoUse         == [as |-> "free"]
PcbUse(s)     == [as |-> "pcb", of |-> s]
PdUse(s)      == [as |-> "pd", of |-> s]
StackUse(s)   == [as |-> "kstack", of |-> s]
TableUse(s, i) == [as |-> "table", of |-> s, at |-> i]
PageUse(s, v) == [as |-> "page", of |-> s, at |-> v]
LooseUse(f)   == [as |-> "loose", at |-> f]

LiveIn(pr) == {s \in Slots : pr[s] # NoProc}
PhysIn(D, T, d, v) == IF D[d][v \div PteCount] = 0 THEN 0
                      ELSE T[D[d][v \div PteCount]][v % PteCount]

(* The ledger own gives each frame one use: every place that holds a frame *)
(* is the use of that frame, and every use is a place that holds it.       *)
Typed(fr, D, T, pr, lo) ==
  /\ fr \in SUBSET Frame /\ lo \in SUBSET Frame
  /\ D \in [Frame -> [Pde -> Nat]] /\ T \in [Frame -> [Pte -> Nat]]
  /\ pr \in [Slots -> [pcb : Nat, pd : Nat, kstack : Nat]]
ProcsOwn(pr, own) == \A s \in LiveIn(pr) :
  /\ pr[s].pcb \in Frame /\ own[pr[s].pcb] = PcbUse(s)
  /\ pr[s].pd \in Frame /\ own[pr[s].pd] = PdUse(s)
  /\ pr[s].kstack \in Frame /\ own[pr[s].kstack] = StackUse(s)
TablesOwn(D, pr, own) == \A s \in LiveIn(pr), i \in Pde :
  D[pr[s].pd][i] # 0 => D[pr[s].pd][i] \in Frame /\ own[D[pr[s].pd][i]] = TableUse(s, i)
PagesOwn(D, T, pr, own) == \A s \in LiveIn(pr), v \in VPage :
  /\ PhysIn(D, T, pr[s].pd, v) \in Frame =>
       v < TensorBase /\ own[PhysIn(D, T, pr[s].pd, v)] = PageUse(s, v)
  /\ v < TensorBase => PhysIn(D, T, pr[s].pd, v) \in Frame \cup {0}
RestOwn(fr, lo, own) ==
  /\ \A f \in fr : own[f] = NoUse
  /\ \A f \in lo : own[f] = LooseUse(f)
OwnedAs(fr, D, T, pr, lo, f, u) ==
  \/ u = NoUse /\ f \in fr
  \/ u = LooseUse(f) /\ f \in lo
  \/ \E s \in LiveIn(pr) : u = PcbUse(s) /\ pr[s].pcb = f
  \/ \E s \in LiveIn(pr) : u = PdUse(s) /\ pr[s].pd = f
  \/ \E s \in LiveIn(pr) : u = StackUse(s) /\ pr[s].kstack = f
  \/ \E s \in LiveIn(pr), i \in Pde : u = TableUse(s, i) /\ D[pr[s].pd][i] = f
  \/ \E s \in LiveIn(pr), v \in VPage : u = PageUse(s, v) /\ PhysIn(D, T, pr[s].pd, v) = f
AllOwned(fr, D, T, pr, lo, own) ==
  \A f \in Frame : OwnedAs(fr, D, T, pr, lo, f, own[f])
Books(fr, D, T, pr, lo, own) ==
  /\ Typed(fr, D, T, pr, lo) /\ ProcsOwn(pr, own) /\ TablesOwn(D, pr, own)
  /\ PagesOwn(D, T, pr, own) /\ RestOwn(fr, lo, own) /\ AllOwned(fr, D, T, pr, lo, own)

(* The mappings that sys_map_tensor reported are there, below the address  *)
(* that the next one gets.                                                 *)
TensorsIn(D, T, pr, nm, ts) ==
  /\ nm \in Nat /\ nm >= TensorBase
  /\ \A t \in ts :
       /\ t.slot \in LiveIn(pr) /\ t.at \in Nat /\ t.blob \in Nat
       /\ t.at >= TensorBase /\ t.at + BlobPages <= nm /\ t.at + BlobPages - 1 \in VPage
       /\ \A i \in 0 .. (BlobPages - 1) :
            PhysIn(D, T, pr[t.slot].pd, t.at + i) = SharedPage(t.blob, i)

SpaceInv ==
  /\ \E own : Books(free, pde, pte, proc, loose, own)
  /\ TensorsIn(pde, pte, proc, nextMap, tensors)

-----------------------------------------------------------------------------

(* Uses of different kinds, and of different places, differ.               *)
LEMMA UsesDiffer ==
  /\ \A s, r : PcbUse(s) = PcbUse(r) => s = r
  /\ \A s, r : PdUse(s) = PdUse(r) => s = r
  /\ \A s, r : StackUse(s) = StackUse(r) => s = r
  /\ \A s, r, i, j : TableUse(s, i) = TableUse(r, j) => s = r /\ i = j
  /\ \A s, r, i, j : PageUse(s, i) = PageUse(r, j) => s = r /\ i = j
  /\ \A f, g : LooseUse(f) = LooseUse(g) => f = g
<1>1. \A s, r : PcbUse(s) = PcbUse(r) => s = r
  BY DEF PcbUse
<1>2. \A s, r : PdUse(s) = PdUse(r) => s = r
  BY DEF PdUse
<1>3. \A s, r : StackUse(s) = StackUse(r) => s = r
  BY DEF StackUse
<1>4. \A s, r, i, j : TableUse(s, i) = TableUse(r, j) => s = r /\ i = j
  BY DEF TableUse
<1>5. \A s, r, i, j : PageUse(s, i) = PageUse(r, j) => s = r /\ i = j
  BY DEF PageUse
<1>6. \A f, g : LooseUse(f) = LooseUse(g) => f = g
  BY DEF LooseUse
<1> QED BY <1>1, <1>2, <1>3, <1>4, <1>5, <1>6

LEMMA KindsDiffer ==
  /\ NoUse.as = "free"
  /\ \A s : PcbUse(s).as = "pcb"
  /\ \A s : PdUse(s).as = "pd"
  /\ \A s : StackUse(s).as = "kstack"
  /\ \A s, i : TableUse(s, i).as = "table"
  /\ \A s, v : PageUse(s, v).as = "page"
  /\ \A f : LooseUse(f).as = "loose"
BY DEF NoUse, PcbUse, PdUse, StackUse, TableUse, PageUse, LooseUse

(* What frames, pages and entries are, and that a page is its entry of its *)
(* table.                                                                  *)
LEMMA PagesAre ==
  /\ NFrames \in Nat /\ PteCount \in Nat \ {0} /\ PdeCount \in Nat
  /\ TensorBase \in Nat /\ BlobPages \in Nat /\ BlobPages >= 1
  /\ 0 \notin Frame /\ Frame \in SUBSET Nat
  /\ \A v \in VPage : v \in Nat /\ v \div PteCount \in Pde /\ v % PteCount \in Pte
  /\ \A v, w \in VPage :
       v \div PteCount = w \div PteCount /\ v % PteCount = w % PteCount => v = w
  /\ \A i \in Pde, k \in Pte :
       /\ i * PteCount + k \in VPage
       /\ (i * PteCount + k) \div PteCount = i /\ (i * PteCount + k) % PteCount = k
<1>1. /\ NFrames \in Nat /\ PteCount \in Nat \ {0} /\ PdeCount \in Nat
      /\ TensorBase \in Nat /\ BlobPages \in Nat /\ BlobPages >= 1
      /\ PteCount * PdeCount \in Nat
  BY SpacesAssumption
<1>2. 0 \notin Frame /\ Frame \in SUBSET Nat
  BY <1>1 DEF Frame
<1> DEFINE D(v) == /\ v \div PteCount \in Nat /\ v % PteCount \in Nat /\ v % PteCount < PteCount
                   /\ v = PteCount * (v \div PteCount) + (v % PteCount)
<1>3. \A v \in Nat : D(v)
  BY <1>1
<1>4. ASSUME NEW v \in VPage PROVE v \in Nat /\ v \div PteCount \in Pde /\ v % PteCount \in Pte
  <2>1. v \in Nat /\ v < PteCount * PdeCount
    BY <1>1 DEF VPage
  <2>2. v \div PteCount < PdeCount
    BY <1>1, <2>1
  <2> QED BY <1>1, <1>3, <2>1, <2>2 DEF Pde, Pte
<1>5. ASSUME NEW v \in VPage, NEW w \in VPage,
             v \div PteCount = w \div PteCount, v % PteCount = w % PteCount
      PROVE  v = w
  BY <1>3, <1>4, <1>5
<1>6. ASSUME NEW i \in Pde, NEW k \in Pte
      PROVE  /\ i * PteCount + k \in VPage
             /\ (i * PteCount + k) \div PteCount = i /\ (i * PteCount + k) % PteCount = k
  <2>1. i \in Nat /\ k \in Nat /\ i < PdeCount /\ k < PteCount
    BY <1>1 DEF Pde, Pte
  <2>2. i * PteCount + k < PteCount * PdeCount /\ i * PteCount + k \in Nat
    BY <1>1, <2>1
  <2>3. (i * PteCount + k) \div PteCount = i /\ (i * PteCount + k) % PteCount = k
    BY <1>1, <2>1
  <2> QED BY <1>1, <2>2, <2>3 DEF VPage
<1> HIDE DEF D
<1> QED BY <1>1, <1>2, <1>4, <1>5, <1>6

(* The pages of the shared memory are not frames.                          *)
LEMMA SharedIsNoFrame ==
  ASSUME NEW b \in Nat, NEW i \in Nat
  PROVE  SharedPage(b, i) \in Nat /\ SharedPage(b, i) \notin Frame /\ SharedPage(b, i) # 0
<1>1. NFrames \in Nat /\ BlobPages \in Nat
  BY PagesAre
<1>2. b * BlobPages \in Nat
  BY <1>1
<1> QED BY <1>1, <1>2 DEF SharedPage, Frame

(* A function of functions written in one place.                           *)
Written(F, G, E, f, e, x) == \A g \in Frame, h \in E :
  G[g][h] = IF g = f /\ h = e THEN x ELSE F[g][h]
(* A page table cleared.                                                   *)
Cleared(F, G, f) == \A g \in Frame, h \in Pte : G[g][h] = IF g = f THEN 0 ELSE F[g][h]
(* Page v of slot s now maps to p, and no other mapping has changed.       *)
MapsTo(D, T, D2, T2, pr, s, v, p) == \A r \in LiveIn(pr), w \in VPage :
  PhysIn(D2, T2, pr[r].pd, w) = IF r = s /\ w = v THEN p ELSE PhysIn(D, T, pr[r].pd, w)
MapsSame(D, T, D2, T2, pr) == \A r \in LiveIn(pr), w \in VPage :
  PhysIn(D2, T2, pr[r].pd, w) = PhysIn(D, T, pr[r].pd, w)
(* What is loose once p is mapped at page v of slot s.                     *)
Loosened(D, T, pr, lo, s, v, p) == (lo \ {p}) \cup ({PhysIn(D, T, pr[s].pd, v)} \cap Frame)
Booked(fr, D, T, pr, lo) == \E own : Books(fr, D, T, pr, lo, own)

(* A live process has one directory, its tables are its own.               *)
LEMMA DirectoriesDiffer ==
  ASSUME NEW fr, NEW D, NEW T, NEW pr, NEW lo, NEW own, Books(fr, D, T, pr, lo, own),
         NEW s \in LiveIn(pr)
  PROVE  /\ pr[s].pd \in Frame /\ pr[s].pd \notin fr /\ pr[s].pd \notin lo
         /\ \A r \in LiveIn(pr) : pr[r].pd = pr[s].pd => r = s
         /\ \A i \in Pde : D[pr[s].pd][i] # 0 =>
              /\ D[pr[s].pd][i] \in Frame /\ D[pr[s].pd][i] \notin fr
              /\ \A r \in LiveIn(pr), j \in Pde :
                   D[pr[r].pd][j] = D[pr[s].pd][i] => r = s /\ j = i
<1>1. /\ pr[s].pd \in Frame /\ own[pr[s].pd] = PdUse(s)
      /\ \A r \in LiveIn(pr) : own[pr[r].pd] = PdUse(r)
  BY DEF Books, ProcsOwn
<1>2. (\A f \in fr : own[f].as = "free") /\ (\A f \in lo : own[f].as = "loose")
  BY KindsDiffer DEF Books, RestOwn
<1>3. own[pr[s].pd].as = "pd"
  BY <1>1, KindsDiffer
<1>4. pr[s].pd \in Frame /\ pr[s].pd \notin fr /\ pr[s].pd \notin lo
  BY <1>1, <1>2, <1>3
<1>5. \A r \in LiveIn(pr) : pr[r].pd = pr[s].pd => r = s
  BY <1>1, UsesDiffer
<1>6. ASSUME NEW i \in Pde, D[pr[s].pd][i] # 0
      PROVE  /\ D[pr[s].pd][i] \in Frame /\ D[pr[s].pd][i] \notin fr
             /\ \A r \in LiveIn(pr), j \in Pde :
                  D[pr[r].pd][j] = D[pr[s].pd][i] => r = s /\ j = i
  <2>1. /\ D[pr[s].pd][i] \in Frame /\ own[D[pr[s].pd][i]] = TableUse(s, i)
        /\ \A r \in LiveIn(pr), j \in Pde :
             D[pr[r].pd][j] # 0 => own[D[pr[r].pd][j]] = TableUse(r, j)
    BY <1>6 DEF Books, TablesOwn
  <2>2. own[D[pr[s].pd][i]].as = "table"
    BY <2>1, KindsDiffer
  <2> QED BY <1>2, <1>6, <2>1, <2>2, UsesDiffer
<1> QED BY <1>4, <1>5, <1>6

(* vmm_map_page takes a free frame for a missing page table and clears it. *)
LEMMA NewTable ==
  ASSUME NEW fr, NEW D, NEW T, NEW pr, NEW lo, Booked(fr, D, T, pr, lo),
         NEW s \in LiveIn(pr), NEW i \in Pde, D[pr[s].pd][i] = 0, NEW t \in fr,
         NEW D2 \in [Frame -> [Pde -> Nat]], NEW T2 \in [Frame -> [Pte -> Nat]],
         Written(D, D2, Pde, pr[s].pd, i, t), Cleared(T, T2, t)
  PROVE  Booked(fr \ {t}, D2, T2, pr, lo) /\ MapsSame(D, T, D2, T2, pr)
<1>a. PICK own : Books(fr, D, T, pr, lo, own)
  BY DEF Booked
<1>b. /\ \A f \in Frame, j \in Pde : D2[f][j] = IF f = pr[s].pd /\ j = i THEN t ELSE D[f][j]
      /\ \A f \in Frame, k \in Pte : T2[f][k] = IF f = t THEN 0 ELSE T[f][k]
  BY DEF Written, Cleared
<1> DEFINE own2 == [f \in Frame |-> IF f = t THEN TableUse(s, i) ELSE own[f]]
<1>0. /\ t \in Frame /\ t # 0 /\ own[t] = NoUse /\ own[t].as = "free"
      /\ \A f \in Frame : own2[f] = IF f = t THEN TableUse(s, i) ELSE own[f]
      /\ s \in LiveIn(pr)
  BY <1>a, PagesAre, KindsDiffer DEF Books, Typed, RestOwn
<1> HIDE DEF own2
<1>1. /\ \A r \in LiveIn(pr) :
           /\ pr[r].pd \in Frame /\ pr[r].pd # t
           /\ pr[r].pd = pr[s].pd => r = s
           /\ \A j \in Pde : D[pr[r].pd][j] # 0 => D[pr[r].pd][j] \in Frame /\ D[pr[r].pd][j] # t
  BY <1>a, DirectoriesDiffer
<1>2. ASSUME NEW r \in LiveIn(pr), NEW j \in Pde
      PROVE  D2[pr[r].pd][j] = IF r = s /\ j = i THEN t ELSE D[pr[r].pd][j]
  BY <1>1, <1>b
<1>3. ASSUME NEW r \in LiveIn(pr), NEW w \in VPage
      PROVE  PhysIn(D2, T2, pr[r].pd, w) = PhysIn(D, T, pr[r].pd, w)
  <2> DEFINE j == w \div PteCount
             k == w % PteCount
  <2>1. j \in Pde /\ k \in Pte
    BY PagesAre
  <2> HIDE DEF j, k
  <2>2. D2[pr[r].pd][j] = IF r = s /\ j = i THEN t ELSE D[pr[r].pd][j]
    BY <1>2, <2>1
  <2>3. D[pr[r].pd][j] # 0 => D[pr[r].pd][j] \in Frame /\ D[pr[r].pd][j] # t
    BY <1>1, <2>1
  <2>4. CASE r = s /\ j = i
    <3>1. T2[t][k] = 0 /\ D2[pr[r].pd][j] = t /\ D[pr[r].pd][j] = 0
      BY <1>0, <1>b, <2>1, <2>2, <2>4
    <3> QED BY <1>0, <3>1 DEF PhysIn, j, k
  <2>5. CASE ~(r = s /\ j = i)
    <3>1. D2[pr[r].pd][j] = D[pr[r].pd][j]
      BY <2>2, <2>5
    <3>2. D[pr[r].pd][j] # 0 => T2[D[pr[r].pd][j]][k] = T[D[pr[r].pd][j]][k]
      BY <1>b, <2>1, <2>3
    <3> QED BY <3>1, <3>2 DEF PhysIn, j, k
  <2> QED BY <2>4, <2>5
<1>4. Typed(fr \ {t}, D2, T2, pr, lo)
  BY <1>a DEF Books, Typed
<1>5. ProcsOwn(pr, own2)
  <2> SUFFICES ASSUME NEW r \in LiveIn(pr)
      PROVE  /\ pr[r].pcb \in Frame /\ own2[pr[r].pcb] = PcbUse(r)
             /\ pr[r].pd \in Frame /\ own2[pr[r].pd] = PdUse(r)
             /\ pr[r].kstack \in Frame /\ own2[pr[r].kstack] = StackUse(r)
    BY DEF ProcsOwn
  <2>1. /\ pr[r].pcb \in Frame /\ own[pr[r].pcb] = PcbUse(r)
        /\ pr[r].pd \in Frame /\ own[pr[r].pd] = PdUse(r)
        /\ pr[r].kstack \in Frame /\ own[pr[r].kstack] = StackUse(r)
    BY <1>a DEF Books, ProcsOwn
  <2>2. pr[r].pcb # t /\ pr[r].pd # t /\ pr[r].kstack # t
    BY <1>0, <2>1, KindsDiffer
  <2> QED BY <1>0, <2>1, <2>2
<1>6. TablesOwn(D2, pr, own2)
  <2> SUFFICES ASSUME NEW r \in LiveIn(pr), NEW j \in Pde, D2[pr[r].pd][j] # 0
      PROVE  D2[pr[r].pd][j] \in Frame /\ own2[D2[pr[r].pd][j]] = TableUse(r, j)
    BY DEF TablesOwn
  <2>1. CASE r = s /\ j = i
    BY <1>0, <1>2, <2>1
  <2>2. CASE ~(r = s /\ j = i)
    <3>1. D2[pr[r].pd][j] = D[pr[r].pd][j]
      BY <1>2, <2>2
    <3>2. own[D[pr[r].pd][j]] = TableUse(r, j)
      BY <1>a, <3>1 DEF Books, TablesOwn
    <3> QED BY <1>0, <1>1, <3>1, <3>2
  <2> QED BY <2>1, <2>2
<1>7. PagesOwn(D2, T2, pr, own2)
  <2> SUFFICES ASSUME NEW r \in LiveIn(pr), NEW w \in VPage
      PROVE  LET p == PhysIn(D, T, pr[r].pd, w) IN
             /\ p \in Frame => w < TensorBase /\ own2[p] = PageUse(r, w)
             /\ w < TensorBase => p \in Frame \cup {0}
    BY <1>3 DEF PagesOwn
  <2> DEFINE p == PhysIn(D, T, pr[r].pd, w)
  <2>1. /\ p \in Frame => w < TensorBase /\ own[p] = PageUse(r, w)
        /\ w < TensorBase => p \in Frame \cup {0}
    BY <1>a DEF Books, PagesOwn
  <2> HIDE DEF p
  <2>2. p \in Frame => p # t
    BY <1>0, <2>1, KindsDiffer
  <2>3. /\ p \in Frame => w < TensorBase /\ own2[p] = PageUse(r, w)
        /\ w < TensorBase => p \in Frame \cup {0}
    BY <1>0, <2>1, <2>2
  <2> QED BY <2>3 DEF p
<1>8. RestOwn(fr \ {t}, lo, own2)
  <2>1. \A f \in fr : f \in Frame /\ own[f] = NoUse
    BY <1>a DEF Books, Typed, RestOwn
  <2>2. \A f \in lo : f \in Frame /\ own[f] = LooseUse(f) /\ own[f].as = "loose"
    BY <1>a, KindsDiffer DEF Books, Typed, RestOwn
  <2> QED BY <1>0, <2>1, <2>2 DEF RestOwn
<1>9. AllOwned(fr \ {t}, D2, T2, pr, lo, own2)
  <2> SUFFICES ASSUME NEW f \in Frame PROVE OwnedAs(fr \ {t}, D2, T2, pr, lo, f, own2[f])
    BY DEF AllOwned
  <2>1. CASE f = t
    <3>1. D2[pr[s].pd][i] = t /\ own2[t] = TableUse(s, i)
      BY <1>0, <1>2
    <3> QED BY <2>1, <3>1 DEF OwnedAs
  <2>2. CASE f # t
    <3>1. own2[f] = own[f] /\ OwnedAs(fr, D, T, pr, lo, f, own[f])
      BY <1>a, <1>0, <2>2 DEF Books, AllOwned
    <3>2. \A r \in LiveIn(pr), j \in Pde :
            D[pr[r].pd][j] = f => D2[pr[r].pd][j] = f
      <4>1. f # 0
        BY PagesAre
      <4> QED BY <1>2, <4>1
    <3> QED BY <1>3, <2>2, <3>1, <3>2 DEF OwnedAs
  <2> QED BY <2>1, <2>2
<1>10. Books(fr \ {t}, D2, T2, pr, lo, own2)
  BY <1>4, <1>5, <1>6, <1>7, <1>8, <1>9 DEF Books
<1> QED BY <1>3, <1>10 DEF Booked, MapsSame

(* An entry of a page table is written: what was mapped there is loose     *)
(* afterwards, what was loose is mapped, and nothing else moves.           *)
LEMMA SetEntry ==
  ASSUME NEW fr, NEW D, NEW T, NEW pr, NEW lo, Booked(fr, D, T, pr, lo),
         NEW s \in LiveIn(pr), NEW v \in VPage, D[pr[s].pd][v \div PteCount] # 0,
         NEW p \in Nat, p \in Frame => p \in lo /\ v < TensorBase,
         v < TensorBase => p \in Frame \cup {0},
         NEW T2 \in [Frame -> [Pte -> Nat]],
         Written(T, T2, Pte, D[pr[s].pd][v \div PteCount], v % PteCount, p)
  PROVE  /\ Booked(fr, D, T2, pr, Loosened(D, T, pr, lo, s, v, p))
         /\ MapsTo(D, T, D, T2, pr, s, v, p)
<1>a. PICK own : Books(fr, D, T, pr, lo, own)
  BY DEF Booked
<1>b. \A f \in Frame, k \in Pte :
        T2[f][k] = IF f = D[pr[s].pd][v \div PteCount] /\ k = v % PteCount THEN p ELSE T[f][k]
  BY DEF Written
<1> DEFINE q == PhysIn(D, T, pr[s].pd, v)
           lo2 == Loosened(D, T, pr, lo, s, v, p)
           own2 == [f \in Frame |-> IF f = p THEN PageUse(s, v)
                                    ELSE IF f = q THEN LooseUse(f) ELSE own[f]]
<1>0. \A f \in Frame : own2[f] = IF f = p THEN PageUse(s, v)
                                    ELSE IF f = q THEN LooseUse(f) ELSE own[f]
  OBVIOUS
<1>1. q \in Frame => v < TensorBase /\ own[q] = PageUse(s, v) /\ own[q].as = "page"
  BY <1>a, KindsDiffer DEF Books, PagesOwn
<1>2. p \in Frame => own[p] = LooseUse(p) /\ own[p].as = "loose"
  BY <1>a, KindsDiffer DEF Books, RestOwn
<1>3. ASSUME NEW r \in LiveIn(pr), NEW w \in VPage
      PROVE  PhysIn(D, T2, pr[r].pd, w) =
               IF r = s /\ w = v THEN p ELSE PhysIn(D, T, pr[r].pd, w)
  <2> DEFINE j == w \div PteCount
             k == w % PteCount
             i == v \div PteCount
  <2>1. j \in Pde /\ k \in Pte /\ i \in Pde /\ v % PteCount \in Pte
    BY PagesAre
  <2>2. j = i /\ k = v % PteCount => w = v
    BY PagesAre
  <2>3. D[pr[s].pd][i] # 0
    OBVIOUS
  <2>4. /\ D[pr[s].pd][i] \in Frame
        /\ D[pr[r].pd][j] = D[pr[s].pd][i] => r = s /\ j = i
        /\ D[pr[r].pd][j] # 0 => D[pr[r].pd][j] \in Frame
    <3> HIDE DEF i, j, k
    <3> QED BY <2>1, <2>3, <1>a, DirectoriesDiffer
  <2>5. D[pr[r].pd][j] # 0 =>
          T2[D[pr[r].pd][j]][k] = IF D[pr[r].pd][j] = D[pr[s].pd][i] /\ k = v % PteCount
                                  THEN p ELSE T[D[pr[r].pd][j]][k]
    BY <1>b, <2>1, <2>4
  <2>6. CASE r = s /\ w = v
    <3>1. T2[D[pr[s].pd][i]][v % PteCount] = p
      BY <2>5, <2>6
    <3> QED BY <2>3, <2>6, <3>1 DEF PhysIn
  <2>7. CASE ~(r = s /\ w = v)
    <3>1. D[pr[r].pd][j] # 0 => T2[D[pr[r].pd][j]][k] = T[D[pr[r].pd][j]][k]
      <4> HIDE DEF i, j, k
      <4> QED BY <2>2, <2>4, <2>5, <2>7
    <3> QED BY <2>7, <3>1 DEF PhysIn
  <2> QED BY <2>6, <2>7
<1>4. q # 0 /\ q \in Frame => p # q
  BY <1>1, <1>2
<1>5. lo2 = (lo \ {p}) \cup ({q} \cap Frame)
  BY DEF Loosened
<1>6. PhysIn(D, T, pr[s].pd, v) = q
  OBVIOUS
<1> HIDE DEF q, own2, lo2
<1>7. Typed(fr, D, T2, pr, lo2)
  BY <1>a, <1>5 DEF Books, Typed
<1>8. ProcsOwn(pr, own2)
  <2> SUFFICES ASSUME NEW r \in LiveIn(pr)
      PROVE  /\ pr[r].pcb \in Frame /\ own2[pr[r].pcb] = PcbUse(r)
             /\ pr[r].pd \in Frame /\ own2[pr[r].pd] = PdUse(r)
             /\ pr[r].kstack \in Frame /\ own2[pr[r].kstack] = StackUse(r)
    BY DEF ProcsOwn
  <2>1. /\ pr[r].pcb \in Frame /\ own[pr[r].pcb] = PcbUse(r)
        /\ pr[r].pd \in Frame /\ own[pr[r].pd] = PdUse(r)
        /\ pr[r].kstack \in Frame /\ own[pr[r].kstack] = StackUse(r)
    BY <1>a DEF Books, ProcsOwn
  <2>2. /\ pr[r].pcb \notin {p, q} /\ pr[r].pd \notin {p, q} /\ pr[r].kstack \notin {p, q}
    BY <1>1, <1>2, <2>1, KindsDiffer
  <2> QED BY <1>0, <2>1, <2>2
<1>9. TablesOwn(D, pr, own2)
  <2> SUFFICES ASSUME NEW r \in LiveIn(pr), NEW j \in Pde, D[pr[r].pd][j] # 0
      PROVE  D[pr[r].pd][j] \in Frame /\ own2[D[pr[r].pd][j]] = TableUse(r, j)
    BY DEF TablesOwn
  <2>1. D[pr[r].pd][j] \in Frame /\ own[D[pr[r].pd][j]] = TableUse(r, j)
    BY <1>a DEF Books, TablesOwn
  <2>2. D[pr[r].pd][j] # p /\ D[pr[r].pd][j] # q
    BY <1>1, <1>2, <2>1, KindsDiffer
  <2> QED BY <1>0, <2>1, <2>2
<1>10. PagesOwn(D, T2, pr, own2)
  <2> SUFFICES ASSUME NEW r \in LiveIn(pr), NEW w \in VPage
      PROVE  LET x == PhysIn(D, T2, pr[r].pd, w) IN
             /\ x \in Frame => w < TensorBase /\ own2[x] = PageUse(r, w)
             /\ w < TensorBase => x \in Frame \cup {0}
    BY DEF PagesOwn
  <2> DEFINE x == PhysIn(D, T2, pr[r].pd, w)
             y == PhysIn(D, T, pr[r].pd, w)
  <2>1. /\ y \in Frame => w < TensorBase /\ own[y] = PageUse(r, w) /\ own[y].as = "page"
        /\ w < TensorBase => y \in Frame \cup {0}
    BY <1>a, KindsDiffer DEF Books, PagesOwn
  <2>2. x = IF r = s /\ w = v THEN p ELSE y
    BY <1>3
  <2> HIDE DEF x, y
  <2>3. CASE r = s /\ w = v
    <3>1. /\ x \in Frame => w < TensorBase /\ own2[x] = PageUse(r, w)
          /\ w < TensorBase => x \in Frame \cup {0}
      BY <1>0, <2>2, <2>3
    <3> QED BY <3>1 DEF x
  <2>4. CASE ~(r = s /\ w = v)
    <3>1. x = y
      BY <2>2, <2>4
    <3>2. y \in Frame => y # p
      BY <1>2, <2>1
    <3>3. y \in Frame => y # q
      BY <1>1, <2>1, <2>4, UsesDiffer
    <3>4. /\ x \in Frame => w < TensorBase /\ own2[x] = PageUse(r, w)
          /\ w < TensorBase => x \in Frame \cup {0}
      BY <1>0, <2>1, <3>1, <3>2, <3>3
    <3> QED BY <3>4 DEF x
  <2> QED BY <2>3, <2>4
<1>11. RestOwn(fr, lo2, own2)
  <2>1. \A f \in fr : f \in Frame /\ own[f] = NoUse /\ own[f].as = "free"
    BY <1>a, KindsDiffer DEF Books, Typed, RestOwn
  <2>2. \A f \in lo : f \in Frame /\ own[f] = LooseUse(f)
    BY <1>a DEF Books, Typed, RestOwn
  <2>3. ASSUME NEW f \in fr PROVE own2[f] = NoUse
    BY <1>0, <1>1, <1>2, <2>1
  <2>4. ASSUME NEW f \in lo2 PROVE own2[f] = LooseUse(f)
    <3>1. f \in Frame /\ f # p
      BY <1>4, <1>5, <2>2, PagesAre
    <3> QED BY <1>0, <1>5, <2>2, <3>1
  <2> QED BY <2>3, <2>4 DEF RestOwn
<1>12. AllOwned(fr, D, T2, pr, lo2, own2)
  <2> SUFFICES ASSUME NEW f \in Frame PROVE OwnedAs(fr, D, T2, pr, lo2, f, own2[f])
    BY DEF AllOwned
  <2>1. CASE f = p
    <3>1. PhysIn(D, T2, pr[s].pd, v) = p /\ own2[f] = PageUse(s, v)
      BY <1>0, <1>3, <2>1
    <3> QED BY <2>1, <3>1 DEF OwnedAs
  <2>2. CASE f # p /\ f = q
    <3>1. f \in lo2 /\ own2[f] = LooseUse(f)
      BY <1>0, <1>5, <2>2
    <3> QED BY <3>1 DEF OwnedAs
  <2>3. CASE f # p /\ f # q
    <3>1. own2[f] = own[f] /\ OwnedAs(fr, D, T, pr, lo, f, own[f])
      BY <1>a, <1>0, <2>3 DEF Books, AllOwned
    <3>2. f \in lo => f \in lo2
      BY <1>5, <2>3
    <3>3. \A r \in LiveIn(pr), w \in VPage :
            PhysIn(D, T, pr[r].pd, w) = f => PhysIn(D, T2, pr[r].pd, w) = f
      BY <1>3, <1>6, <2>3
    <3> QED BY <3>1, <3>2, <3>3 DEF OwnedAs
  <2> QED BY <2>1, <2>2, <2>3
<1>13. Books(fr, D, T2, pr, lo2, own2)
  BY <1>7, <1>8, <1>9, <1>10, <1>11, <1>12 DEF Books
<1> QED BY <1>3, <1>13 DEF Booked, MapsTo, lo2

(* pmm_alloc_page finds a free frame exactly when there is one.            *)
LEMMA LowestIs ==
  ASSUME NEW fs \in SUBSET Frame
  PROVE  /\ Lowest(fs) = 0 <=> fs = {}
         /\ fs # {} => Lowest(fs) \in fs
<1>1. fs \in SUBSET Nat /\ 0 \notin fs
  BY PagesAre
<1>2. fs # {} => Min(fs) \in fs
  BY <1>1, LeastElement
<1> QED BY <1>1, <1>2 DEF Lowest

Memories == [free : SUBSET Frame, pde : [Frame -> [Pde -> Nat]],
             pte : [Frame -> [Pte -> Nat]], ok : BOOLEAN]

(* vmm_map_page: it fails and changes nothing, or it maps the page and     *)
(* changes no other.                                                       *)
LEMMA MapPage ==
  ASSUME NEW m \in Memories, m.ok, NEW pr, NEW lo, Booked(m.free, m.pde, m.pte, pr, lo),
         NEW s \in LiveIn(pr), NEW v \in VPage,
         NEW p \in Nat, p \in Frame => p \in lo /\ v < TensorBase,
         v < TensorBase => p \in Frame \cup {0},
         NEW n, n = Mapped(m, pr[s].pd, v, p)
  PROVE  /\ n \in Memories
         /\ ~n.ok => n.free = m.free /\ n.pde = m.pde /\ n.pte = m.pte
         /\ n.ok => /\ Booked(n.free, n.pde, n.pte, pr, Loosened(m.pde, m.pte, pr, lo, s, v, p))
                    /\ MapsTo(m.pde, m.pte, n.pde, n.pte, pr, s, v, p)
<1> DEFINE d == pr[s].pd
           i == v \div PteCount
           k == v % PteCount
           D == m.pde
           T == m.pte
           fr == m.free
           new == Lowest(fr)
           lo2 == Loosened(D, T, pr, lo, s, v, p)
<1>1. Booked(fr, D, T, pr, lo)
  OBVIOUS
<1>2. /\ fr \in SUBSET Frame /\ D \in [Frame -> [Pde -> Nat]] /\ T \in [Frame -> [Pte -> Nat]]
      /\ m.ok = TRUE
  BY DEF Memories
<1>3. /\ i \in Pde /\ k \in Pte /\ d \in Frame
      /\ D[d][i] # 0 => D[d][i] \in Frame
  <2>1. i \in Pde /\ k \in Pte
    BY PagesAre
  <2> HIDE DEF i, k, D, T, fr
  <2> QED BY <1>1, <2>1, DirectoriesDiffer DEF Booked
<1>5. CASE D[d][i] # 0
  <2> DEFINE T2 == [T EXCEPT ![D[d][i]][k] = p]
  <2>1. n = [m EXCEPT !.pte[D[d][i]][k] = p]
    BY <1>5 DEF Mapped
  <2>2. n.free = fr /\ n.pde = D /\ n.pte = T2 /\ n.ok = TRUE
    <3> HIDE DEF i, k
    <3> QED BY <1>2, <2>1 DEF Memories
  <2>3. T2 \in [Frame -> [Pte -> Nat]] /\ Written(T, T2, Pte, D[d][i], k, p)
    <3> HIDE DEF i, k, D, T, d
    <3> QED BY <1>2, <1>3, <1>5 DEF Written
  <2> HIDE DEF T2, D, T, fr, lo2
  <2>4. n \in Memories
    <3>1. n = [free |-> n.free, pde |-> n.pde, pte |-> n.pte, ok |-> n.ok]
      BY <2>1 DEF Memories
    <3> QED BY <1>2, <2>2, <2>3, <3>1 DEF Memories
  <2>5. Booked(fr, D, T2, pr, lo2) /\ MapsTo(D, T, D, T2, pr, s, v, p)
    BY <1>1, <1>5, <2>3, SetEntry DEF lo2
  <2> QED BY <2>2, <2>4, <2>5 DEF D, T, lo2
<1>6. CASE D[d][i] = 0 /\ new = 0
  <2>1. n = [m EXCEPT !.ok = FALSE]
    BY <1>6 DEF Mapped
  <2> QED BY <2>1 DEF Memories
<1>7. CASE D[d][i] = 0 /\ new # 0
  <2> DEFINE D1 == [D EXCEPT ![d][i] = new]
             T1 == [T EXCEPT ![new] = EmptyPt]
             T2 == [T EXCEPT ![new] = [EmptyPt EXCEPT ![k] = p]]
  <2>0. new \in fr /\ new \in Frame /\ new \in Nat
    BY <1>2, <1>7, LowestIs, PagesAre
  <2>1. n = [m EXCEPT !.free = @ \ {new}, !.pde[d][i] = new,
                      !.pte[new] = [EmptyPt EXCEPT ![k] = p]]
    BY <1>7 DEF Mapped
  <2>2. n.free = fr \ {new} /\ n.pde = D1 /\ n.pte = T2 /\ n.ok = TRUE
    <3> HIDE DEF new, i, k
    <3> QED BY <1>2, <2>1 DEF Memories
  <2>3. /\ EmptyPt \in [Pte -> Nat] /\ \A h \in Pte : EmptyPt[h] = 0
    BY DEF EmptyPt
  <2> HIDE DEF new, D, T, fr, lo2
  <2>4. D1 \in [Frame -> [Pde -> Nat]] /\ Written(D, D1, Pde, d, i, new)
    <3> HIDE DEF d, i
    <3> QED BY <1>2, <1>3, <2>0 DEF Written
  <2>5. T1 \in [Frame -> [Pte -> Nat]] /\ Cleared(T, T1, new)
    BY <1>2, <1>3, <2>0, <2>3 DEF Cleared
  <2>6. T2 \in [Frame -> [Pte -> Nat]] /\ Written(T1, T2, Pte, new, k, p)
    <3> HIDE DEF k
    <3> QED BY <1>2, <1>3, <2>0, <2>3 DEF Written
  <2>7. D1[d][i] = new /\ new # 0
    BY <1>3, <1>7, <2>4 DEF Written
  <2>8. n \in Memories
    <3>1. n = [free |-> n.free, pde |-> n.pde, pte |-> n.pte, ok |-> n.ok]
      BY <2>1 DEF Memories
    <3> QED BY <1>2, <2>2, <2>4, <2>6, <3>1 DEF Memories
  <2> HIDE DEF D1, T1, T2
  <2>9. Booked(fr \ {new}, D1, T1, pr, lo) /\ MapsSame(D, T, D1, T1, pr)
    <3> HIDE DEF i
    <3> QED BY <1>1, <1>3, <1>7, <2>0, <2>4, <2>5, NewTable
  <2>10. /\ Booked(fr \ {new}, D1, T2, pr, Loosened(D1, T1, pr, lo, s, v, p))
         /\ MapsTo(D1, T1, D1, T2, pr, s, v, p)
    BY <2>6, <2>7, <2>9, SetEntry
  <2>11. Loosened(D1, T1, pr, lo, s, v, p) = lo2
    BY <2>9 DEF Loosened, MapsSame, lo2
  <2>12. MapsTo(D, T, D1, T2, pr, s, v, p)
    BY <2>9, <2>10 DEF MapsTo, MapsSame
  <2> QED BY <2>2, <2>8, <2>10, <2>11, <2>12 DEF D, T, lo2
<1> QED BY <1>5, <1>6, <1>7

(* Mapping a page of the shared memory moves no frame.                     *)
LEMMA MapSharedPage ==
  ASSUME NEW m \in Memories, m.ok, NEW pr, NEW lo, Booked(m.free, m.pde, m.pte, pr, lo),
         NEW s \in LiveIn(pr), NEW v \in VPage, v >= TensorBase,
         NEW b \in Nat, NEW i \in Nat,
         NEW n, n = Mapped(m, pr[s].pd, v, SharedPage(b, i))
  PROVE  /\ n \in Memories /\ Booked(n.free, n.pde, n.pte, pr, lo)
         /\ ~n.ok => MapsSame(m.pde, m.pte, n.pde, n.pte, pr)
         /\ n.ok => MapsTo(m.pde, m.pte, n.pde, n.pte, pr, s, v, SharedPage(b, i))
<1> DEFINE p == SharedPage(b, i)
<1>1. p \in Nat /\ p \notin Frame /\ ~(v < TensorBase)
  BY SharedIsNoFrame, PagesAre
<1>2. n = Mapped(m, pr[s].pd, v, p)
  OBVIOUS
<1>3. Loosened(m.pde, m.pte, pr, lo, s, v, p) = lo
  <2>1. lo \in SUBSET Frame /\ PhysIn(m.pde, m.pte, pr[s].pd, v) \notin Frame
    BY <1>1 DEF Booked, Books, Typed, PagesOwn
  <2> HIDE DEF p
  <2> QED BY <1>1, <2>1 DEF Loosened
<1> HIDE DEF p
<1>4. /\ n \in Memories
      /\ ~n.ok => n.free = m.free /\ n.pde = m.pde /\ n.pte = m.pte
      /\ n.ok => /\ Booked(n.free, n.pde, n.pte, pr, Loosened(m.pde, m.pte, pr, lo, s, v, p))
                 /\ MapsTo(m.pde, m.pte, n.pde, n.pte, pr, s, v, p)
  BY <1>1, <1>2, MapPage
<1> QED BY <1>3, <1>4 DEF MapsSame, p

(* vmm_map_range, step by step: wherever it stops, the books are right and *)
(* the mappings below its range are what they were.                        *)
Ranged(m, d, v, b, i) == IF ~m.ok THEN m ELSE Mapped(m, d, v + i - 1, SharedPage(b, i - 1))
Undisturbed(m, x, pr, lo, v) ==
  /\ Booked(x.free, x.pde, x.pte, pr, lo)
  /\ \A r \in LiveIn(pr), w \in VPage : w < v =>
       PhysIn(x.pde, x.pte, pr[r].pd, w) = PhysIn(m.pde, m.pte, pr[r].pd, w)
PlacedTo(x, d, v, b, i) == x.ok => \A j \in 0 .. (i - 1) :
  PhysIn(x.pde, x.pte, d, v + j) = SharedPage(b, j)

LEMMA RangeStep ==
  ASSUME NEW m, NEW x \in Memories, NEW pr, NEW lo, NEW v \in Nat, Undisturbed(m, x, pr, lo, v),
         NEW s \in LiveIn(pr), v >= TensorBase, v + BlobPages - 1 \in VPage,
         NEW b \in Nat, NEW i \in 1 .. BlobPages,
         NEW y, y = Ranged(x, pr[s].pd, v, b, i)
  PROVE  /\ y \in Memories /\ Undisturbed(m, y, pr, lo, v)
         /\ PlacedTo(x, pr[s].pd, v, b, i - 1) => PlacedTo(y, pr[s].pd, v, b, i)
<1>0. /\ BlobPages \in Nat /\ i \in Nat /\ i - 1 \in Nat /\ i <= BlobPages /\ TensorBase \in Nat
      /\ v + i - 1 \in VPage /\ v + i - 1 >= TensorBase /\ \A j \in 0 .. (i - 1) : v + j \in VPage
  <2>1. BlobPages \in Nat /\ PteCount * PdeCount \in Nat /\ TensorBase \in Nat
    BY PagesAre
  <2> QED BY <2>1 DEF VPage
<1>1. CASE ~x.ok
  BY <1>1 DEF Ranged, PlacedTo
<1>2. CASE x.ok
  <2> DEFINE w0 == v + i - 1
             p == SharedPage(b, i - 1)
  <2>1. y = Mapped(x, pr[s].pd, w0, SharedPage(b, i - 1)) /\ w0 \in VPage /\ w0 >= TensorBase
    BY <1>0, <1>2 DEF Ranged
  <2>2. w0 >= v /\ w0 \in Nat
    BY <1>0
  <2>3. Booked(x.free, x.pde, x.pte, pr, lo)
    BY DEF Undisturbed
  <2> HIDE DEF w0
  <2>4. /\ y \in Memories /\ Booked(y.free, y.pde, y.pte, pr, lo)
        /\ ~y.ok => MapsSame(x.pde, x.pte, y.pde, y.pte, pr)
        /\ y.ok => MapsTo(x.pde, x.pte, y.pde, y.pte, pr, s, w0, p)
    BY <1>0, <1>2, <2>1, <2>3, MapSharedPage
  <2> HIDE DEF p
  <2>5. ASSUME NEW r \in LiveIn(pr), NEW w \in VPage, ~(r = s /\ w = w0)
        PROVE  PhysIn(y.pde, y.pte, pr[r].pd, w) = PhysIn(x.pde, x.pte, pr[r].pd, w)
    BY <2>4, <2>5 DEF MapsSame, MapsTo
  <2>6. Undisturbed(m, y, pr, lo, v)
    <3> SUFFICES ASSUME NEW r \in LiveIn(pr), NEW w \in VPage, w < v
        PROVE  PhysIn(y.pde, y.pte, pr[r].pd, w) = PhysIn(m.pde, m.pte, pr[r].pd, w)
      BY <2>4 DEF Undisturbed
    <3>1. w # w0
      BY <2>2, PagesAre
    <3> QED BY <2>5, <3>1 DEF Undisturbed
  <2>7. ASSUME PlacedTo(x, pr[s].pd, v, b, i - 1), y.ok, NEW j \in 0 .. (i - 1)
        PROVE  PhysIn(y.pde, y.pte, pr[s].pd, v + j) = SharedPage(b, j)
    <3>0. v + j \in VPage /\ j \in Nat
      BY <1>0
    <3>1. CASE j = i - 1
      <4>1. v + j = w0
        BY <1>0, <3>1 DEF w0
      <4> QED BY <2>1, <2>4, <2>7, <3>0, <3>1, <4>1 DEF MapsTo, p
    <3>2. CASE j # i - 1
      <4>1. j \in 0 .. (i - 1 - 1) /\ v + j # w0
        BY <1>0, <3>0, <3>2 DEF w0
      <4>2. PhysIn(x.pde, x.pte, pr[s].pd, v + j) = SharedPage(b, j)
        BY <1>2, <2>7, <4>1 DEF PlacedTo
      <4> QED BY <2>5, <3>0, <4>1, <4>2
    <3> QED BY <3>1, <3>2
  <2> QED BY <2>4, <2>6, <2>7 DEF PlacedTo
<1> QED BY <1>1, <1>2

LEMMA MapRange ==
  ASSUME NEW m \in Memories, m.ok, NEW pr, NEW lo, Booked(m.free, m.pde, m.pte, pr, lo),
         NEW s \in LiveIn(pr), NEW v \in Nat, v >= TensorBase, v + BlobPages - 1 \in VPage,
         NEW b \in Nat, NEW n, n = MappedRange(m, pr[s].pd, v, b)
  PROVE  n \in Memories /\ Undisturbed(m, n, pr, lo, v) /\ PlacedTo(n, pr[s].pd, v, b, BlobPages)
<1> DEFINE d == pr[s].pd
           Is(u) == u = [i \in 0 .. BlobPages |-> IF i = 0 THEN m
                         ELSE IF ~u[i-1].ok THEN u[i-1]
                         ELSE Mapped(u[i-1], d, v + i - 1, SharedPage(b, i - 1))]
           w == CHOOSE u : Is(u)
           T == {x \in Memories : Undisturbed(m, x, pr, lo, v)}
           G == [i \in Nat |-> [x \in T |-> IF i \in 1 .. BlobPages THEN Ranged(x, d, v, b, i) ELSE x]]
<1>0. BlobPages \in Nat /\ BlobPages >= 1
  BY PagesAre
<1>1. m \in T
  BY DEF Undisturbed
<1>2. \A x \in T, i \in 1 .. BlobPages :
        /\ Ranged(x, d, v, b, i) \in T
        /\ PlacedTo(x, d, v, b, i - 1) => PlacedTo(Ranged(x, d, v, b, i), d, v, b, i)
  <2> SUFFICES ASSUME NEW x \in Memories, Undisturbed(m, x, pr, lo, v), NEW i \in 1 .. BlobPages
      PROVE  /\ Ranged(x, d, v, b, i) \in Memories /\ Undisturbed(m, Ranged(x, d, v, b, i), pr, lo, v)
             /\ PlacedTo(x, d, v, b, i - 1) => PlacedTo(Ranged(x, d, v, b, i), d, v, b, i)
    OBVIOUS
  <2> QED BY RangeStep
<1>3. PICK f : Iterated(f, T, m, G, BlobPages)
  <2>1. G \in [Nat -> [T -> T]]
    <3> HIDE DEF T, d
    <3> QED BY <1>2
  <2> HIDE DEF G, T
  <2> QED BY <1>0, <1>1, <2>1, Iterates
<1>4. f \in [0 .. BlobPages -> T] /\ f[0] = m
  BY <1>3 DEF Iterated
<1> HIDE DEF T
<1>5. \A i \in 1 .. BlobPages : f[i-1] \in T /\ f[i] = Ranged(f[i-1], d, v, b, i)
  <2> SUFFICES ASSUME NEW i \in 1 .. BlobPages
      PROVE  f[i-1] \in T /\ f[i] = Ranged(f[i-1], d, v, b, i)
    OBVIOUS
  <2>1. i \in Nat /\ i - 1 \in 0 .. BlobPages
    BY <1>0
  <2>2. f[i-1] \in T
    BY <1>4, <2>1
  <2>3. f[i] = G[i][f[i-1]]
    BY <1>3 DEF Iterated
  <2>4. G[i][f[i-1]] = Ranged(f[i-1], d, v, b, i)
    BY <2>1, <2>2
  <2> QED BY <2>2, <2>3, <2>4
<1> HIDE DEF G
<1>6. Is(f)
  <2>1. ASSUME NEW i \in 0 .. BlobPages
        PROVE  f[i] = IF i = 0 THEN m ELSE IF ~f[i-1].ok THEN f[i-1]
                      ELSE Mapped(f[i-1], d, v + i - 1, SharedPage(b, i - 1))
    <3>1. CASE i = 0
      BY <1>4, <3>1
    <3>2. CASE i # 0
      <4>1. i \in 1 .. BlobPages
        BY <1>0, <3>2
      <4> QED BY <1>5, <3>2, <4>1 DEF Ranged
    <3> QED BY <3>1, <3>2
  <2> QED BY <1>4, <2>1
<1>7. Is(w)
  <2> HIDE DEF Is
  <2> QED BY <1>6
<1>8. /\ w[0] = m
      /\ \A i \in 1 .. BlobPages : w[i] = Ranged(w[i-1], d, v, b, i)
  <2> DEFINE R(i) == IF i = 0 THEN m ELSE IF ~w[i-1].ok THEN w[i-1]
                     ELSE Mapped(w[i-1], d, v + i - 1, SharedPage(b, i - 1))
  <2>1. w = [i \in 0 .. BlobPages |-> R(i)]
    BY <1>7
  <2> HIDE DEF w
  <2>2. \A i \in 0 .. BlobPages : w[i] = R(i)
    <3> HIDE DEF R
    <3> QED BY <2>1
  <2>3. ASSUME NEW i \in 1 .. BlobPages PROVE w[i] = Ranged(w[i-1], d, v, b, i)
    <3>1. i \in 0 .. BlobPages /\ i # 0
      BY <1>0
    <3> QED BY <2>2, <3>1 DEF Ranged
  <2> QED BY <1>0, <2>2, <2>3
<1> HIDE DEF w, Is
<1>9. \A i \in 0 .. BlobPages : w[i] \in T /\ PlacedTo(w[i], d, v, b, i)
  <2> DEFINE S == {i \in 0 .. BlobPages : w[i] \in T /\ PlacedTo(w[i], d, v, b, i)}
  <2>1. 0 \in S
    <3>1. PlacedTo(m, d, v, b, 0)
      BY DEF PlacedTo
    <3> QED BY <1>0, <1>1, <1>8, <3>1
  <2>2. ASSUME NEW i \in 1 .. BlobPages, i - 1 \in S PROVE i \in S
    BY <1>0, <1>2, <1>8, <2>2
  <2> HIDE DEF S
  <2>3. \A i \in 0 .. BlobPages : i \in S
    BY <1>0, <2>1, <2>2, StepByStep
  <2> QED BY <2>3 DEF S
<1>10. n = w[BlobPages]
  BY DEF MappedRange, w, Is
<1>11. BlobPages \in 0 .. BlobPages
  BY <1>0
<1> QED BY <1>9, <1>10, <1>11 DEF T

-----------------------------------------------------------------------------

LEMMA LiveIs == Live = LiveIn(proc) /\ \A d, v : Phys(d, v) = PhysIn(pde, pte, d, v)
BY DEF Live, LiveIn, Phys, PhysIn

(* Reported tensors stay where they are when nothing above TensorBase is   *)
(* remapped in their slots.                                                *)
LEMMA TensorsStay ==
  ASSUME NEW D, NEW T, NEW pr, NEW nm, NEW ts, TensorsIn(D, T, pr, nm, ts),
         NEW D2, NEW T2, NEW pr2, NEW ts2, ts2 \subseteq ts,
         \A t \in ts2 : t.slot \in LiveIn(pr2) /\ pr2[t.slot] = pr[t.slot],
         \A r \in LiveIn(pr) \cap LiveIn(pr2), w \in VPage :
           w >= TensorBase /\ w < nm /\ pr2[r] = pr[r] =>
             PhysIn(D2, T2, pr2[r].pd, w) = PhysIn(D, T, pr[r].pd, w)
  PROVE  TensorsIn(D2, T2, pr2, nm, ts2)
<1> SUFFICES ASSUME NEW t \in ts2, NEW i \in 0 .. (BlobPages - 1)
             PROVE  PhysIn(D2, T2, pr2[t.slot].pd, t.at + i) = SharedPage(t.blob, i)
  BY DEF TensorsIn
<1>1. /\ t.slot \in LiveIn(pr) /\ t.at \in Nat /\ t.at >= TensorBase /\ t.at + BlobPages <= nm
      /\ t.at + BlobPages - 1 \in VPage /\ nm \in Nat
      /\ PhysIn(D, T, pr[t.slot].pd, t.at + i) = SharedPage(t.blob, i)
  BY DEF TensorsIn
<1>2. t.at + i \in VPage /\ t.at + i >= TensorBase /\ t.at + i < nm
  <2>1. BlobPages \in Nat /\ PteCount * PdeCount \in Nat /\ TensorBase \in Nat
    BY PagesAre
  <2> QED BY <1>1, <2>1 DEF VPage
<1>3. t.slot \in LiveIn(pr) \cap LiveIn(pr2) /\ pr2[t.slot] = pr[t.slot]
  BY <1>1
<1> HIDE DEF LiveIn
<1> QED BY <1>1, <1>2, <1>3

LEMMA SpaceInvInit == SpaceInit => SpaceInv
<1> SUFFICES ASSUME SpaceInit PROVE SpaceInv
  OBVIOUS
<1> DEFINE own == [f \in Frame |-> NoUse]
<1>0. LiveIn(proc) = {} /\ \A f \in Frame : own[f] = NoUse
  BY DEF SpaceInit, LiveIn
<1>1. Typed(free, pde, pte, proc, loose)
  <2>1. pde \in [Frame -> [Pde -> Nat]] /\ pte \in [Frame -> [Pte -> Nat]]
    BY DEF SpaceInit, JunkPd, JunkPt
  <2> QED BY <2>1 DEF SpaceInit, Typed, NoProc
<1> HIDE DEF own
<1>2. ProcsOwn(proc, own) /\ TablesOwn(pde, proc, own) /\ PagesOwn(pde, pte, proc, own)
  BY <1>0 DEF ProcsOwn, TablesOwn, PagesOwn
<1>3. RestOwn(free, loose, own) /\ AllOwned(free, pde, pte, proc, loose, own)
  BY <1>0 DEF SpaceInit, RestOwn, AllOwned, OwnedAs
<1>4. TensorsIn(pde, pte, proc, nextMap, tensors)
  BY PagesAre DEF SpaceInit, TensorsIn
<1> QED BY <1>1, <1>2, <1>3, <1>4 DEF SpaceInv, Books

(* A use stays good when the slot it belongs to is left alone.             *)
KeepsSlot(D, T, pr, D2, T2, pr2, r) ==
  /\ r \in LiveIn(pr2) /\ pr2[r] = pr[r]
  /\ \A j \in Pde : D2[pr2[r].pd][j] = D[pr[r].pd][j]
  /\ \A w \in VPage : PhysIn(D2, T2, pr2[r].pd, w) = PhysIn(D, T, pr[r].pd, w)
KeepsUser(D, T, pr, D2, T2, pr2, u) == \A r \in LiveIn(pr) :
  (u.as \notin {"free", "loose"} /\ u.of = r) => KeepsSlot(D, T, pr, D2, T2, pr2, r)

LEMMA OwnedStill ==
  ASSUME NEW fr, NEW D, NEW T, NEW pr, NEW lo, NEW f, NEW u, OwnedAs(fr, D, T, pr, lo, f, u),
         NEW fr2, NEW D2, NEW T2, NEW pr2, NEW lo2,
         f \in fr => f \in fr2, f \in lo => f \in lo2,
         KeepsUser(D, T, pr, D2, T2, pr2, u)
  PROVE  OwnedAs(fr2, D2, T2, pr2, lo2, f, u)
<1>1. CASE u = NoUse /\ f \in fr
  BY <1>1 DEF OwnedAs
<1>2. CASE u = LooseUse(f) /\ f \in lo
  BY <1>2 DEF OwnedAs
<1>3. CASE \E r \in LiveIn(pr) : u = PcbUse(r) /\ pr[r].pcb = f
  <2>1. PICK r \in LiveIn(pr) : u = PcbUse(r) /\ pr[r].pcb = f
    BY <1>3
  <2>2. KeepsSlot(D, T, pr, D2, T2, pr2, r)
    BY <2>1 DEF PcbUse, KeepsUser
  <2> QED BY <2>1, <2>2 DEF OwnedAs, KeepsSlot
<1>4. CASE \E r \in LiveIn(pr) : u = PdUse(r) /\ pr[r].pd = f
  <2>1. PICK r \in LiveIn(pr) : u = PdUse(r) /\ pr[r].pd = f
    BY <1>4
  <2>2. KeepsSlot(D, T, pr, D2, T2, pr2, r)
    BY <2>1 DEF PdUse, KeepsUser
  <2> QED BY <2>1, <2>2 DEF OwnedAs, KeepsSlot
<1>5. CASE \E r \in LiveIn(pr) : u = StackUse(r) /\ pr[r].kstack = f
  <2>1. PICK r \in LiveIn(pr) : u = StackUse(r) /\ pr[r].kstack = f
    BY <1>5
  <2>2. KeepsSlot(D, T, pr, D2, T2, pr2, r)
    BY <2>1 DEF StackUse, KeepsUser
  <2> QED BY <2>1, <2>2 DEF OwnedAs, KeepsSlot
<1>6. CASE \E r \in LiveIn(pr), j \in Pde : u = TableUse(r, j) /\ D[pr[r].pd][j] = f
  <2>1. PICK r \in LiveIn(pr), j \in Pde : u = TableUse(r, j) /\ D[pr[r].pd][j] = f
    BY <1>6
  <2>2. KeepsSlot(D, T, pr, D2, T2, pr2, r)
    BY <2>1 DEF TableUse, KeepsUser
  <2> QED BY <2>1, <2>2 DEF OwnedAs, KeepsSlot
<1>7. CASE \E r \in LiveIn(pr), w \in VPage : u = PageUse(r, w) /\ PhysIn(D, T, pr[r].pd, w) = f
  <2>1. PICK r \in LiveIn(pr), w \in VPage : u = PageUse(r, w) /\ PhysIn(D, T, pr[r].pd, w) = f
    BY <1>7
  <2>2. KeepsSlot(D, T, pr, D2, T2, pr2, r)
    BY <2>1 DEF PageUse, KeepsUser
  <2> QED BY <2>1, <2>2 DEF OwnedAs, KeepsSlot
<1> HIDE DEF KeepsSlot
<1> DEFINE Goal == OwnedAs(fr2, D2, T2, pr2, lo2, f, u)
<1>8. OwnedAs(fr, D, T, pr, lo, f, u)
  OBVIOUS
<1> HIDE DEF Goal
<1>9. Goal
  BY <1>1, <1>2, <1>3, <1>4, <1>5, <1>6, <1>7, <1>8 DEF OwnedAs, Goal
<1> QED BY <1>9 DEF Goal

(* sched_create_user_process: three free frames become a process.          *)
WithPd(D, b) == [D EXCEPT ![b] = EmptyPd]
WithProc(pr, s, a, b, c) == [pr EXCEPT ![s] = [pcb |-> a, pd |-> b, kstack |-> c]]
Joins(pr, pr2, s) ==
  LiveIn(pr2) = LiveIn(pr) \cup {s} /\ \A r \in LiveIn(pr) : pr2[r] = pr[r]

LEMMA Created ==
  ASSUME NEW fr, NEW D, NEW T, NEW pr, NEW lo, Booked(fr, D, T, pr, lo),
         NEW s \in Slots, pr[s] = NoProc, NEW a \in fr, NEW b \in fr, NEW c \in fr,
         a # b, a # c, b # c,
         NEW D2, D2 = WithPd(D, b), NEW pr2, pr2 = WithProc(pr, s, a, b, c)
  PROVE  /\ Booked(fr \ {a, b, c}, D2, T, pr2, lo)
         /\ Joins(pr, pr2, s) /\ MapsSame(D, T, D2, T, pr)
<1>1. PICK own : Books(fr, D, T, pr, lo, own)
  BY DEF Booked
<1> DEFINE own2 == [f \in Frame |-> IF f = a THEN PcbUse(s) ELSE IF f = b THEN PdUse(s)
                                    ELSE IF f = c THEN StackUse(s) ELSE own[f]]
<1>2. /\ fr \in SUBSET Frame /\ lo \in SUBSET Frame
      /\ D \in [Frame -> [Pde -> Nat]] /\ T \in [Frame -> [Pte -> Nat]]
      /\ pr \in [Slots -> [pcb : Nat, pd : Nat, kstack : Nat]]
  BY <1>1 DEF Books, Typed
<1>3. a \in Frame /\ b \in Frame /\ c \in Frame /\ a # 0 /\ a \in Nat /\ b \in Nat /\ c \in Nat
  BY <1>2, PagesAre
<1>4. \A f \in Frame : own2[f] = IF f = a THEN PcbUse(s) ELSE IF f = b THEN PdUse(s)
                                    ELSE IF f = c THEN StackUse(s) ELSE own[f]
  OBVIOUS
<1> HIDE DEF own2
<1>5. /\ pr2 \in [Slots -> [pcb : Nat, pd : Nat, kstack : Nat]]
      /\ pr2[s] = [pcb |-> a, pd |-> b, kstack |-> c]
      /\ \A r \in Slots : r # s => pr2[r] = pr[r]
  BY <1>2, <1>3 DEF WithProc
<1>6. s \notin LiveIn(pr) /\ LiveIn(pr2) = LiveIn(pr) \cup {s} /\ \A r \in LiveIn(pr) : pr2[r] = pr[r]
  BY <1>3, <1>5 DEF LiveIn, NoProc
<1>7. /\ D2 \in [Frame -> [Pde -> Nat]]
      /\ \A j \in Pde : D2[b][j] = 0
      /\ \A f \in Frame : f # b => D2[f] = D[f]
  BY <1>2, <1>3 DEF EmptyPd, WithPd
<1>8. own[a].as = "free" /\ own[b].as = "free" /\ own[c].as = "free"
  BY <1>1, KindsDiffer DEF Books, RestOwn
<1>9. \A r \in LiveIn(pr) : pr[r].pd \in Frame /\ pr[r].pd # b
  BY <1>1, DirectoriesDiffer
<1>10. ASSUME NEW r \in LiveIn(pr), NEW w PROVE PhysIn(D2, T, pr[r].pd, w) = PhysIn(D, T, pr[r].pd, w)
  BY <1>7, <1>9 DEF PhysIn
<1>11. ASSUME NEW w \in VPage PROVE PhysIn(D2, T, b, w) = 0
  BY <1>7, PagesAre DEF PhysIn
<1>12. Typed(fr \ {a, b, c}, D2, T, pr2, lo)
  BY <1>2, <1>5, <1>7 DEF Typed
<1>13. ProcsOwn(pr2, own2)
  <2> SUFFICES ASSUME NEW r \in LiveIn(pr2)
      PROVE  /\ pr2[r].pcb \in Frame /\ own2[pr2[r].pcb] = PcbUse(r)
             /\ pr2[r].pd \in Frame /\ own2[pr2[r].pd] = PdUse(r)
             /\ pr2[r].kstack \in Frame /\ own2[pr2[r].kstack] = StackUse(r)
    BY DEF ProcsOwn
  <2>1. CASE r = s
    BY <1>3, <1>4, <1>5, <2>1
  <2>2. CASE r # s
    <3>1. r \in LiveIn(pr) /\ pr2[r] = pr[r]
      BY <1>6, <2>2
    <3>2. /\ pr[r].pcb \in Frame /\ own[pr[r].pcb] = PcbUse(r)
          /\ pr[r].pd \in Frame /\ own[pr[r].pd] = PdUse(r)
          /\ pr[r].kstack \in Frame /\ own[pr[r].kstack] = StackUse(r)
      BY <1>1, <3>1 DEF Books, ProcsOwn
    <3>3. pr[r].pcb \notin {a, b, c} /\ pr[r].pd \notin {a, b, c} /\ pr[r].kstack \notin {a, b, c}
      BY <1>8, <3>2, KindsDiffer
    <3> QED BY <1>4, <3>1, <3>2, <3>3
  <2> QED BY <2>1, <2>2
<1>14. TablesOwn(D2, pr2, own2)
  <2> SUFFICES ASSUME NEW r \in LiveIn(pr2), NEW j \in Pde, D2[pr2[r].pd][j] # 0
      PROVE  D2[pr2[r].pd][j] \in Frame /\ own2[D2[pr2[r].pd][j]] = TableUse(r, j)
    BY DEF TablesOwn
  <2>1. r # s
    BY <1>5, <1>7
  <2>2. r \in LiveIn(pr) /\ pr2[r] = pr[r] /\ D2[pr2[r].pd][j] = D[pr[r].pd][j]
    BY <1>6, <1>7, <1>9, <2>1
  <2>3. D[pr[r].pd][j] \in Frame /\ own[D[pr[r].pd][j]] = TableUse(r, j)
    BY <1>1, <2>2 DEF Books, TablesOwn
  <2>4. D[pr[r].pd][j] \notin {a, b, c}
    BY <1>8, <2>3, KindsDiffer
  <2> QED BY <1>4, <2>2, <2>3, <2>4
<1>15. PagesOwn(D2, T, pr2, own2)
  <2> SUFFICES ASSUME NEW r \in LiveIn(pr2), NEW w \in VPage
      PROVE  LET x == PhysIn(D2, T, pr2[r].pd, w) IN
             /\ x \in Frame => w < TensorBase /\ own2[x] = PageUse(r, w)
             /\ w < TensorBase => x \in Frame \cup {0}
    BY DEF PagesOwn
  <2>1. CASE r = s
    <3>1. PhysIn(D2, T, pr2[r].pd, w) = 0
      BY <1>5, <1>11, <2>1
    <3> QED BY <3>1, PagesAre
  <2>2. CASE r # s
    <3> DEFINE y == PhysIn(D, T, pr[r].pd, w)
    <3>1. r \in LiveIn(pr) /\ PhysIn(D2, T, pr2[r].pd, w) = y
      BY <1>6, <1>10, <2>2
    <3>2. /\ y \in Frame => w < TensorBase /\ own[y] = PageUse(r, w)
          /\ w < TensorBase => y \in Frame \cup {0}
      BY <1>1, <3>1 DEF Books, PagesOwn
    <3> HIDE DEF y
    <3>3. y \in Frame => y \notin {a, b, c}
      BY <1>8, <3>2, KindsDiffer
    <3> QED BY <1>4, <3>1, <3>2, <3>3
  <2> QED BY <2>1, <2>2
<1>16. RestOwn(fr \ {a, b, c}, lo, own2)
  <2>1. \A f \in fr : f \in Frame /\ own[f] = NoUse
    BY <1>1, <1>2 DEF Books, RestOwn
  <2>2. \A f \in lo : f \in Frame /\ own[f] = LooseUse(f) /\ own[f].as = "loose"
    BY <1>1, <1>2, KindsDiffer DEF Books, RestOwn
  <2> QED BY <1>4, <1>8, <2>1, <2>2 DEF RestOwn
<1>17. AllOwned(fr \ {a, b, c}, D2, T, pr2, lo, own2)
  <2> SUFFICES ASSUME NEW f \in Frame PROVE OwnedAs(fr \ {a, b, c}, D2, T, pr2, lo, f, own2[f])
    BY DEF AllOwned
  <2>1. CASE f \in {a, b, c}
    <3>1. s \in LiveIn(pr2)
      BY <1>6
    <3>2. /\ f = a => own2[f] = PcbUse(s) /\ pr2[s].pcb = f
          /\ f = b => own2[f] = PdUse(s) /\ pr2[s].pd = f
          /\ f = c => own2[f] = StackUse(s) /\ pr2[s].kstack = f
      BY <1>4, <1>5
    <3> QED BY <2>1, <3>1, <3>2 DEF OwnedAs
  <2>2. CASE f \notin {a, b, c}
    <3>1. own2[f] = own[f] /\ OwnedAs(fr, D, T, pr, lo, f, own[f])
      BY <1>1, <1>4, <2>2 DEF Books, AllOwned
    <3>2. \A r \in LiveIn(pr) :
            /\ r \in LiveIn(pr2) /\ pr2[r] = pr[r]
            /\ \A j \in Pde : D2[pr2[r].pd][j] = D[pr[r].pd][j]
            /\ \A w \in VPage : PhysIn(D2, T, pr2[r].pd, w) = PhysIn(D, T, pr[r].pd, w)
      BY <1>6, <1>7, <1>9, <1>10
    <3>3. KeepsUser(D, T, pr, D2, T, pr2, own[f])
      BY <3>2 DEF KeepsSlot, KeepsUser
    <3>4. f \in fr => f \in fr \ {a, b, c}
      BY <2>2
    <3>5. OwnedAs(fr \ {a, b, c}, D2, T, pr2, lo, f, own[f])
      BY <3>1, <3>3, <3>4, OwnedStill
    <3> QED BY <3>1, <3>5
  <2> QED BY <2>1, <2>2
<1>18. Books(fr \ {a, b, c}, D2, T, pr2, lo, own2)
  BY <1>12, <1>13, <1>14, <1>15, <1>16, <1>17 DEF Books
<1> QED BY <1>6, <1>10, <1>18 DEF Booked, MapsSame, Joins

(* sched_destroy_process gives back exactly the frames that the process    *)
(* uses.                                                                   *)
UsedBy(u, s) == u.as \notin {"free", "loose"} /\ u.of = s
Freed(s) == PmmFree(DestroyedPd(free, proc[s].pd), {proc[s].kstack, proc[s].pcb})

LEMMA UsersAre ==
  /\ \A s, r : UsedBy(PcbUse(s), r) <=> s = r
  /\ \A s, r : UsedBy(PdUse(s), r) <=> s = r
  /\ \A s, r : UsedBy(StackUse(s), r) <=> s = r
  /\ \A s, r, i : UsedBy(TableUse(s, i), r) <=> s = r
  /\ \A s, r, v : UsedBy(PageUse(s, v), r) <=> s = r
  /\ \A r : ~UsedBy(NoUse, r)
  /\ \A f, r : ~UsedBy(LooseUse(f), r)
BY DEF UsedBy, NoUse, PcbUse, PdUse, StackUse, TableUse, PageUse, LooseUse

LEMMA FreedIs ==
  ASSUME NEW own, Books(free, pde, pte, proc, loose, own), NEW s \in LiveIn(proc)
  PROVE  /\ Freed(s) \in SUBSET Frame
         /\ \A f \in Frame : f \in Freed(s) <=> f \in free \/ UsedBy(own[f], s)
<1> DEFINE d == proc[s].pd
<1>1. free \in SUBSET Frame
  BY DEF Books, Typed
<1>2. Freed(s) = free \cup ((PagesOf(d) \cup TablesOf(d) \cup {d}) \cap Frame)
                  \cup ({proc[s].kstack, proc[s].pcb} \cap Frame)
  BY DEF Freed, PmmFree, DestroyedPd
<1>3. /\ proc[s].pcb \in Frame /\ UsedBy(own[proc[s].pcb], s)
      /\ d \in Frame /\ UsedBy(own[d], s)
      /\ proc[s].kstack \in Frame /\ UsedBy(own[proc[s].kstack], s)
  BY UsersAre DEF Books, ProcsOwn
<1>4. ASSUME NEW t \in TablesOf(d) PROVE t \in Frame /\ UsedBy(own[t], s)
  <2>1. PICK i \in Pde : t = pde[d][i] /\ t # 0
    BY DEF TablesOf
  <2>2. t \in Frame /\ own[t] = TableUse(s, i)
    BY <2>1 DEF Books, TablesOwn
  <2> QED BY <2>2, UsersAre
<1>5. ASSUME NEW f \in PagesOf(d), f \in Frame PROVE UsedBy(own[f], s)
  <2>1. PICK t \in TablesOf(d) : \E k \in Pte : f = pte[t][k]
    BY DEF PagesOf
  <2>2. PICK k \in Pte : f = pte[t][k]
    BY <2>1
  <2>3. PICK i \in Pde : t = pde[d][i] /\ t # 0
    BY DEF TablesOf
  <2> DEFINE v == i * PteCount + k
  <2>4. v \in VPage /\ v \div PteCount = i /\ v % PteCount = k
    BY PagesAre
  <2> HIDE DEF v
  <2>5. PhysIn(pde, pte, d, v) = f
    BY <2>2, <2>3, <2>4 DEF PhysIn
  <2>6. own[f] = PageUse(s, v)
    BY <1>5, <2>4, <2>5 DEF Books, PagesOwn
  <2> QED BY <2>6, UsersAre
<1>6. ASSUME NEW v \in VPage, NEW f \in Frame, PhysIn(pde, pte, d, v) = f PROVE f \in PagesOf(d)
  <2> DEFINE i == v \div PteCount
             k == v % PteCount
  <2>1. i \in Pde /\ k \in Pte /\ f # 0
    BY PagesAre
  <2>2. pde[d][i] # 0 /\ f = pte[pde[d][i]][k]
    BY <1>6, <2>1 DEF PhysIn
  <2> HIDE DEF i, k, d
  <2>3. pde[d][i] \in TablesOf(d)
    BY <2>1, <2>2 DEF TablesOf
  <2> DEFINE t == pde[d][i]
  <2>4. t \in TablesOf(d) /\ f = pte[t][k]
    BY <2>2, <2>3
  <2> HIDE DEF t
  <2>5. f \in {pte[t][h] : h \in Pte}
    BY <2>1, <2>4
  <2>6. f \in UNION {{pte[x][h] : h \in Pte} : x \in TablesOf(d)}
    BY <2>4, <2>5
  <2> QED BY <2>1, <2>6 DEF PagesOf
<1>7. ASSUME NEW f \in Frame, UsedBy(own[f], s) PROVE f \in Freed(s)
  <2> DEFINE u == own[f]
  <2>1. OwnedAs(free, pde, pte, proc, loose, f, u) /\ UsedBy(u, s)
    BY <1>7 DEF Books, AllOwned
  <2> HIDE DEF u
  <2>2. \A r \in LiveIn(proc) : u = PcbUse(r) \/ u = PdUse(r) \/ u = StackUse(r) => r = s
    BY <2>1, UsersAre
  <2>3. \A r, i : u = TableUse(r, i) \/ u = PageUse(r, i) => r = s
    BY <2>1, UsersAre
  <2>4. u # NoUse /\ u # LooseUse(f)
    BY <2>1, UsersAre
  <2>5. \/ proc[s].pcb = f \/ proc[s].pd = f \/ proc[s].kstack = f
        \/ \E i \in Pde : pde[proc[s].pd][i] = f
        \/ \E v \in VPage : PhysIn(pde, pte, proc[s].pd, v) = f
    BY <2>1, <2>2, <2>3, <2>4 DEF OwnedAs
  <2>6. ASSUME NEW i \in Pde, pde[d][i] = f PROVE f \in TablesOf(d)
    BY <2>6, PagesAre DEF TablesOf
  <2> QED BY <1>2, <1>6, <2>5, <2>6
<1>8. Freed(s) \in SUBSET Frame
  BY <1>1, <1>2
<1>9. ASSUME NEW f \in Frame, f \in Freed(s) PROVE f \in free \/ UsedBy(own[f], s)
  BY <1>2, <1>3, <1>4, <1>5, <1>9
<1> QED BY <1>2, <1>7, <1>8, <1>9

Wiped(D, F, junk) == [f \in Frame |-> IF f \in F THEN junk ELSE D[f]]
WithoutProc(pr, s) == [pr EXCEPT ![s] = NoProc]
FreesOnly(own, fr, s, F) == \A f \in Frame : f \in F <=> f \in fr \/ UsedBy(own[f], s)

LEMMA Destroyed ==
  ASSUME NEW fr, NEW D, NEW T, NEW pr, NEW lo, NEW own, Books(fr, D, T, pr, lo, own),
         NEW s \in LiveIn(pr), NEW F \in SUBSET Frame,
         FreesOnly(own, fr, s, F), NEW D2, D2 = Wiped(D, F, JunkPd),
         NEW T2, T2 = Wiped(T, F, JunkPt), NEW pr2, pr2 = WithoutProc(pr, s)
  PROVE  /\ Booked(F, D2, T2, pr2, lo) /\ LiveIn(pr2) = LiveIn(pr) \ {s}
         /\ \A r \in LiveIn(pr2) : KeepsSlot(D, T, pr, D2, T2, pr2, r)
<1> DEFINE own2 == [f \in Frame |-> IF f \in F THEN NoUse ELSE own[f]]
<1>1. \A f \in Frame : own2[f] = IF f \in F THEN NoUse ELSE own[f]
  OBVIOUS
<1> HIDE DEF own2
<1>a. \A f \in Frame : f \in F <=> f \in fr \/ UsedBy(own[f], s)
  BY DEF FreesOnly
<1>2. /\ fr \in SUBSET Frame /\ lo \in SUBSET Frame
      /\ D \in [Frame -> [Pde -> Nat]] /\ T \in [Frame -> [Pte -> Nat]]
      /\ pr \in [Slots -> [pcb : Nat, pd : Nat, kstack : Nat]]
  BY DEF Books, Typed
<1>3. /\ D2 \in [Frame -> [Pde -> Nat]] /\ T2 \in [Frame -> [Pte -> Nat]]
      /\ \A f \in Frame : f \notin F => D2[f] = D[f] /\ T2[f] = T[f]
  <2>1. JunkPd \in [Pde -> Nat] /\ JunkPt \in [Pte -> Nat]
    BY DEF JunkPd, JunkPt
  <2> QED BY <1>2, <2>1 DEF Wiped
<1>4. /\ pr2 \in [Slots -> [pcb : Nat, pd : Nat, kstack : Nat]]
      /\ LiveIn(pr2) = LiveIn(pr) \ {s}
      /\ \A r \in LiveIn(pr2) : r \in LiveIn(pr) /\ r # s /\ pr2[r] = pr[r]
  BY <1>2 DEF LiveIn, NoProc, WithoutProc
<1>5. \A f \in fr : own[f] = NoUse /\ f \in F
  BY <1>2, <1>a DEF Books, RestOwn
<1>51. \A f \in Frame : own[f] = NoUse => f \in fr
  <2> SUFFICES ASSUME NEW f \in Frame, own[f] = NoUse PROVE f \in fr
    OBVIOUS
  <2> DEFINE u == own[f]
  <2>1. OwnedAs(fr, D, T, pr, lo, f, u) /\ u.as = "free"
    BY KindsDiffer DEF Books, AllOwned
  <2> HIDE DEF u
  <2> QED BY <2>1, KindsDiffer DEF OwnedAs
<1>6. \A f \in Frame : \A r : UsedBy(own[f], r) /\ r # s => f \notin F /\ own2[f] = own[f]
  <2>1. \A u, r : UsedBy(u, r) /\ r # s => ~UsedBy(u, s) /\ u # NoUse
    BY UsersAre DEF UsedBy
  <2> QED BY <1>1, <1>5, <1>a, <2>1
<1>7. ASSUME NEW r \in LiveIn(pr2)
      PROVE  /\ pr[r].pcb \in Frame /\ own2[pr[r].pcb] = PcbUse(r)
             /\ pr[r].pd \in Frame /\ own2[pr[r].pd] = PdUse(r) /\ pr[r].pd \notin F
             /\ pr[r].kstack \in Frame /\ own2[pr[r].kstack] = StackUse(r)
  <2>1. r \in LiveIn(pr) /\ r # s
    BY <1>4
  <2>2. /\ pr[r].pcb \in Frame /\ own[pr[r].pcb] = PcbUse(r)
        /\ pr[r].pd \in Frame /\ own[pr[r].pd] = PdUse(r)
        /\ pr[r].kstack \in Frame /\ own[pr[r].kstack] = StackUse(r)
    BY <2>1 DEF Books, ProcsOwn
  <2>3. /\ UsedBy(own[pr[r].pcb], r) /\ UsedBy(own[pr[r].pd], r) /\ UsedBy(own[pr[r].kstack], r)
    BY <2>2, UsersAre
  <2> QED BY <1>6, <2>1, <2>2, <2>3
<1>8. ASSUME NEW r \in LiveIn(pr2), NEW j \in Pde, D[pr[r].pd][j] # 0
      PROVE  /\ D[pr[r].pd][j] \in Frame /\ own2[D[pr[r].pd][j]] = TableUse(r, j)
             /\ D[pr[r].pd][j] \notin F
  <2>1. r \in LiveIn(pr) /\ r # s
    BY <1>4
  <2>2. D[pr[r].pd][j] \in Frame /\ own[D[pr[r].pd][j]] = TableUse(r, j)
    BY <1>8, <2>1 DEF Books, TablesOwn
  <2>3. UsedBy(own[D[pr[r].pd][j]], r)
    BY <2>2, UsersAre
  <2> QED BY <1>6, <2>1, <2>2, <2>3
<1>9. ASSUME NEW r \in LiveIn(pr2) PROVE KeepsSlot(D, T, pr, D2, T2, pr2, r)
  <2>1. pr2[r] = pr[r] /\ D2[pr[r].pd] = D[pr[r].pd]
    BY <1>3, <1>4, <1>7
  <2>2. ASSUME NEW w \in VPage PROVE PhysIn(D2, T2, pr2[r].pd, w) = PhysIn(D, T, pr[r].pd, w)
    <3> DEFINE j == w \div PteCount
    <3>1. j \in Pde
      BY PagesAre
    <3>2. D[pr[r].pd][j] # 0 => T2[D[pr[r].pd][j]] = T[D[pr[r].pd][j]]
      <4> HIDE DEF j
      <4> QED BY <1>3, <1>8, <3>1
    <3> QED BY <2>1, <3>2 DEF PhysIn
  <2> QED BY <2>1, <2>2 DEF KeepsSlot
<1>10. Typed(F, D2, T2, pr2, lo)
  BY <1>2, <1>3, <1>4 DEF Typed
<1>11. ProcsOwn(pr2, own2)
  BY <1>4, <1>7 DEF ProcsOwn
<1>12. TablesOwn(D2, pr2, own2)
  <2> SUFFICES ASSUME NEW r \in LiveIn(pr2), NEW j \in Pde, D2[pr2[r].pd][j] # 0
      PROVE  D2[pr2[r].pd][j] \in Frame /\ own2[D2[pr2[r].pd][j]] = TableUse(r, j)
    BY DEF TablesOwn
  <2>1. D2[pr2[r].pd][j] = D[pr[r].pd][j]
    BY <1>9 DEF KeepsSlot
  <2>2. D[pr[r].pd][j] # 0
    BY <2>1
  <2>3. D[pr[r].pd][j] \in Frame /\ own2[D[pr[r].pd][j]] = TableUse(r, j)
    BY <1>8, <2>2
  <2> QED BY <2>1, <2>3
<1>13. PagesOwn(D2, T2, pr2, own2)
  <2> SUFFICES ASSUME NEW r \in LiveIn(pr2), NEW w \in VPage
      PROVE  LET x == PhysIn(D2, T2, pr2[r].pd, w) IN
             /\ x \in Frame => w < TensorBase /\ own2[x] = PageUse(r, w)
             /\ w < TensorBase => x \in Frame \cup {0}
    BY DEF PagesOwn
  <2> DEFINE y == PhysIn(D, T, pr[r].pd, w)
  <2>1. r \in LiveIn(pr) /\ r # s /\ PhysIn(D2, T2, pr2[r].pd, w) = y
    BY <1>4, <1>9 DEF KeepsSlot
  <2>2. /\ y \in Frame => w < TensorBase /\ own[y] = PageUse(r, w)
        /\ w < TensorBase => y \in Frame \cup {0}
    BY <2>1 DEF Books, PagesOwn
  <2> HIDE DEF y
  <2>21. y \in Frame => UsedBy(own[y], r)
    BY <2>2, UsersAre
  <2>3. y \in Frame => own2[y] = own[y]
    BY <1>6, <2>1, <2>21
  <2> QED BY <2>1, <2>2, <2>3
<1>14. RestOwn(F, lo, own2)
  <2>1. ASSUME NEW f \in lo PROVE own2[f] = LooseUse(f)
    <3>1. f \in Frame /\ own[f] = LooseUse(f) /\ own[f] # NoUse
      BY <1>2, KindsDiffer DEF Books, RestOwn
    <3>2. f \notin F
      BY <1>5, <1>a, <3>1, UsersAre
    <3> QED BY <1>1, <3>1, <3>2
  <2>2. \A f \in F : own2[f] = NoUse
    BY <1>1
  <2> QED BY <2>1, <2>2 DEF RestOwn
<1>15. AllOwned(F, D2, T2, pr2, lo, own2)
  <2> SUFFICES ASSUME NEW f \in Frame PROVE OwnedAs(F, D2, T2, pr2, lo, f, own2[f])
    BY DEF AllOwned
  <2>1. CASE f \in F
    BY <1>1, <2>1 DEF OwnedAs
  <2>2. CASE f \notin F
    <3>1. own2[f] = own[f] /\ OwnedAs(fr, D, T, pr, lo, f, own[f]) /\ ~UsedBy(own[f], s)
      BY <1>1, <1>a, <2>2 DEF Books, AllOwned
    <3>2. KeepsUser(D, T, pr, D2, T2, pr2, own[f])
      <4>1. \A r \in LiveIn(pr) : r # s => KeepsSlot(D, T, pr, D2, T2, pr2, r)
        BY <1>4, <1>9
      <4> QED BY <3>1, <4>1 DEF KeepsUser, UsedBy
    <3>3. f \in fr => f \in F
      BY <1>5
    <3>4. OwnedAs(F, D2, T2, pr2, lo, f, own[f])
      BY <3>1, <3>2, <3>3, OwnedStill
    <3> QED BY <3>1, <3>4
  <2> QED BY <2>1, <2>2
<1>16. Books(F, D2, T2, pr2, lo, own2)
  BY <1>10, <1>11, <1>12, <1>13, <1>14, <1>15 DEF Books
<1> QED BY <1>4, <1>9, <1>16 DEF Booked

LEMMA SpaceInvParts ==
  SpaceInv <=> /\ Booked(free, pde, pte, proc, loose)
               /\ TensorsIn(pde, pte, proc, nextMap, tensors)
BY DEF SpaceInv, Booked

LEMMA CreateKeeps ==
  ASSUME SpaceInv, NEW s \in Slots, CreateProcess(s)
  PROVE  SpaceInv'
<1> DEFINE pcb    == Lowest(free)
           pd     == Lowest(free \ {pcb})
           kstack == Lowest(free \ {pcb, pd})
           rest   == free \ {pcb, pd, kstack}
<1>0. Booked(free, pde, pte, proc, loose) /\ TensorsIn(pde, pte, proc, nextMap, tensors)
  BY SpaceInvParts
<1>1. free \in SUBSET Frame /\ 0 \notin free
  BY <1>0, PagesAre DEF Booked, Books, Typed
<1>2. /\ pcb = 0 <=> free = {}
      /\ free # {} => pcb \in free
  BY <1>1, LowestIs
<1>3. /\ pd = 0 <=> free \ {pcb} = {}
      /\ free \ {pcb} # {} => pd \in free \ {pcb}
  <2> HIDE DEF pcb
  <2> QED BY <1>1, LowestIs
<1>4. /\ kstack = 0 <=> free \ {pcb, pd} = {}
      /\ free \ {pcb, pd} # {} => kstack \in free \ {pcb, pd}
  <2> HIDE DEF pcb, pd
  <2> QED BY <1>1, LowestIs
<1>5. proc[s] = NoProc /\ UNCHANGED <<pte, curPd, nextMap, loose, tensors>>
  BY DEF CreateProcess
<1>6. \/ free' = free /\ UNCHANGED <<pde, proc>>
      \/ /\ pcb # 0 /\ pd # 0 /\ kstack # 0 /\ free' = rest
         /\ pde' = [pde EXCEPT ![pd] = EmptyPd]
         /\ proc' = [proc EXCEPT ![s] = [pcb |-> pcb, pd |-> pd, kstack |-> kstack]]
  <2>1. CASE pcb = 0
    <3>1. UNCHANGED <<free, pde, proc>>
      <4>1. pd = 0
        <5> HIDE DEF pcb, pd
        <5> QED BY <1>2, <1>3, <2>1
      <4> HIDE DEF pd, pcb, kstack
      <4> QED BY <2>1, <4>1 DEF CreateProcess, pcb, pd, kstack
    <3> QED BY <3>1
  <2>2. CASE pcb # 0 /\ pd = 0
    <3>1. free' = PmmFree(rest, {pcb}) /\ UNCHANGED <<pde, proc>>
      BY <2>2 DEF CreateProcess
    <3> HIDE DEF pcb, pd, kstack
    <3>2. free' = free
      BY <1>1, <1>2, <1>3, <1>4, <2>2, <3>1 DEF PmmFree
    <3> QED BY <3>1, <3>2
  <2>3. CASE pcb # 0 /\ pd # 0 /\ kstack = 0
    <3>1. free' = PmmFree(rest, {pcb, pd}) /\ UNCHANGED <<pde, proc>>
      BY <2>3 DEF CreateProcess
    <3> HIDE DEF pcb, pd, kstack
    <3>2. free' = free
      BY <1>1, <1>2, <1>3, <1>4, <2>3, <3>1 DEF PmmFree
    <3> QED BY <3>1, <3>2
  <2>4. CASE pcb # 0 /\ pd # 0 /\ kstack # 0
    BY <2>4 DEF CreateProcess
  <2> QED BY <2>1, <2>2, <2>3, <2>4
<1> HIDE DEF pcb, pd, kstack
<1>7. CASE free' = free /\ UNCHANGED <<pde, proc>>
  BY <1>5, <1>7 DEF SpaceInv
<1>8. CASE /\ pcb # 0 /\ pd # 0 /\ kstack # 0 /\ free' = rest
           /\ pde' = [pde EXCEPT ![pd] = EmptyPd]
           /\ proc' = [proc EXCEPT ![s] = [pcb |-> pcb, pd |-> pd, kstack |-> kstack]]
  <2>1. pcb \in free /\ pd \in free /\ kstack \in free /\ pcb # pd /\ pcb # kstack /\ pd # kstack
    BY <1>2, <1>3, <1>4, <1>8
  <2>2. /\ Booked(free \ {pcb, pd, kstack}, pde', pte, proc', loose)
        /\ Joins(proc, proc', s) /\ MapsSame(pde, pte, pde', pte, proc)
    <3>1. pde' = WithPd(pde, pd) /\ proc' = WithProc(proc, s, pcb, pd, kstack)
      BY <1>8 DEF WithPd, WithProc
    <3> QED BY <1>0, <1>5, <2>1, <3>1, Created
  <2>3. TensorsIn(pde', pte, proc', nextMap, tensors)
    <3>1. \A t \in tensors : t.slot \in LiveIn(proc)
      BY <1>0 DEF TensorsIn
    <3>2. \A t \in tensors : t.slot \in LiveIn(proc') /\ proc'[t.slot] = proc[t.slot]
      BY <2>2, <3>1 DEF Joins
    <3>3. \A r \in LiveIn(proc) \cap LiveIn(proc'), w \in VPage :
            w >= TensorBase /\ w < nextMap /\ proc'[r] = proc[r] =>
              PhysIn(pde', pte, proc'[r].pd, w) = PhysIn(pde, pte, proc[r].pd, w)
      BY <2>2 DEF MapsSame
    <3> QED BY <1>0, <3>2, <3>3, TensorsStay
  <2> QED BY <1>5, <1>8, <2>2, <2>3 DEF SpaceInv, Booked
<1> QED BY <1>6, <1>7, <1>8

LEMMA DestroyKeeps ==
  ASSUME SpaceInv, NEW s \in Slots, DestroyProcess(s)
  PROVE  SpaceInv'
<1>1. PICK own : Books(free, pde, pte, proc, loose, own)
  BY DEF SpaceInv
<1>2. s \in LiveIn(proc)
  BY LiveIs DEF DestroyProcess
<1>3. /\ free' = Freed(s) /\ proc' = [proc EXCEPT ![s] = NoProc]
      /\ tensors' = {t \in tensors : t.slot # s}
      /\ pde' = [f \in Frame |-> IF f \in Freed(s) THEN JunkPd ELSE pde[f]]
      /\ pte' = [f \in Frame |-> IF f \in Freed(s) THEN JunkPt ELSE pte[f]]
      /\ UNCHANGED <<nextMap, loose>>
  BY DEF DestroyProcess, Freed
<1>4. /\ Freed(s) \in SUBSET Frame
      /\ \A f \in Frame : f \in Freed(s) <=> f \in free \/ UsedBy(own[f], s)
  BY <1>1, <1>2, FreedIs
<1> DEFINE F == Freed(s)
<1> HIDE DEF F
<1>5. /\ Booked(F, pde', pte', proc', loose) /\ LiveIn(proc') = LiveIn(proc) \ {s}
      /\ \A r \in LiveIn(proc') : KeepsSlot(pde, pte, proc, pde', pte', proc', r)
  <2>1. /\ proc' = WithoutProc(proc, s)
        /\ pde' = Wiped(pde, F, JunkPd) /\ pte' = Wiped(pte, F, JunkPt)
        /\ F \in SUBSET Frame /\ FreesOnly(own, free, s, F)
    BY <1>3, <1>4 DEF F, WithoutProc, Wiped, FreesOnly
  <2> QED BY <1>1, <1>2, <2>1, Destroyed
<1>6. TensorsIn(pde', pte', proc', nextMap, tensors')
  <2>1. TensorsIn(pde, pte, proc, nextMap, tensors)
    BY DEF SpaceInv
  <2>2. tensors' \subseteq tensors /\ \A t \in tensors' : t.slot \in LiveIn(proc) \ {s}
    BY <1>3, <2>1 DEF TensorsIn
  <2>3. \A t \in tensors' : t.slot \in LiveIn(proc') /\ proc'[t.slot] = proc[t.slot]
    BY <1>5, <2>2 DEF KeepsSlot
  <2>4. \A r \in LiveIn(proc) \cap LiveIn(proc'), w \in VPage :
          w >= TensorBase /\ w < nextMap /\ proc'[r] = proc[r] =>
            PhysIn(pde', pte', proc'[r].pd, w) = PhysIn(pde, pte, proc[r].pd, w)
    BY <1>5 DEF KeepsSlot
  <2> QED BY <2>1, <2>2, <2>3, <2>4, TensorsStay
<1> QED BY <1>3, <1>5, <1>6 DEF SpaceInv, Booked, F

LEMMA MapCodeKeeps ==
  ASSUME SpaceInv, NEW s \in Slots, NEW v \in VPage, NEW p \in loose, MapCode(s, v, p)
  PROVE  SpaceInv'
<1> DEFINE m == Memory
           n == Mapped(m, proc[s].pd, v, p)
<1>0. Booked(free, pde, pte, proc, loose) /\ TensorsIn(pde, pte, proc, nextMap, tensors)
  BY SpaceInvParts
<1>1. /\ loose \in SUBSET Frame /\ p \in Frame /\ p \in Nat /\ free \in SUBSET Frame
      /\ pde \in [Frame -> [Pde -> Nat]] /\ pte \in [Frame -> [Pte -> Nat]]
  BY <1>0, PagesAre DEF Booked, Books, Typed
<1>2. m \in Memories /\ m.ok /\ m.free = free /\ m.pde = pde /\ m.pte = pte
  BY <1>1 DEF Memories, Memory
<1>3. /\ s \in LiveIn(proc) /\ v < TensorBase /\ PhysIn(pde, pte, proc[s].pd, v) = 0
      /\ free' = n.free /\ pde' = n.pde /\ pte' = n.pte
      /\ loose' = IF n.ok THEN loose \ {p} ELSE loose
      /\ UNCHANGED <<proc, nextMap, tensors>>
  BY LiveIs DEF MapCode, Store
<1> HIDE DEF m
<1>4. /\ n \in Memories
      /\ ~n.ok => n.free = m.free /\ n.pde = m.pde /\ n.pte = m.pte
      /\ n.ok => /\ Booked(n.free, n.pde, n.pte, proc, Loosened(m.pde, m.pte, proc, loose, s, v, p))
                 /\ MapsTo(m.pde, m.pte, n.pde, n.pte, proc, s, v, p)
  <2>1. Booked(m.free, m.pde, m.pte, proc, loose)
    BY <1>0, <1>2
  <2> HIDE DEF n
  <2> QED BY <1>1, <1>2, <1>3, <2>1, MapPage DEF n
<1> HIDE DEF n
<1>5. CASE ~n.ok
  <2>1. UNCHANGED <<free, pde, pte, proc, loose, nextMap, tensors>>
    BY <1>2, <1>3, <1>4, <1>5
  <2> QED BY <2>1 DEF SpaceInv
<1>6. CASE n.ok
  <2>1. Loosened(m.pde, m.pte, proc, loose, s, v, p) = loose'
    BY <1>2, <1>3, <1>6, PagesAre DEF Loosened
  <2>2. Booked(free', pde', pte', proc', loose')
    BY <1>3, <1>4, <1>6, <2>1
  <2>3. MapsTo(pde, pte, pde', pte', proc, s, v, p)
    BY <1>2, <1>3, <1>4, <1>6
  <2>4. \A r \in LiveIn(proc) \cap LiveIn(proc), w \in VPage :
          w >= TensorBase /\ w < nextMap /\ proc[r] = proc[r] =>
            PhysIn(pde', pte', proc[r].pd, w) = PhysIn(pde, pte, proc[r].pd, w)
    <3>1. \A w \in VPage : w >= TensorBase => w # v
      BY <1>3, PagesAre
    <3> QED BY <2>3, <3>1 DEF MapsTo
  <2>5. TensorsIn(pde', pte', proc, nextMap, tensors)
    <3>1. tensors \subseteq tensors
          /\ \A t \in tensors : t.slot \in LiveIn(proc) /\ proc[t.slot] = proc[t.slot]
      BY <1>0 DEF TensorsIn
    <3> QED BY <1>0, <2>4, <3>1, TensorsStay
  <2> QED BY <1>3, <2>2, <2>5 DEF SpaceInv, Booked
<1> QED BY <1>5, <1>6

LEMMA UnmapKeeps ==
  ASSUME SpaceInv, NEW s \in Slots, NEW v \in VPage, UnmapPage(s, v)
  PROVE  SpaceInv'
<1> DEFINE d == proc[s].pd
           i == v \div PteCount
           k == v % PteCount
           q == PhysIn(pde, pte, d, v)
<1>0. Booked(free, pde, pte, proc, loose) /\ TensorsIn(pde, pte, proc, nextMap, tensors)
  BY SpaceInvParts
<1>1. /\ pde \in [Frame -> [Pde -> Nat]] /\ pte \in [Frame -> [Pte -> Nat]] /\ loose \in SUBSET Frame
  BY <1>0 DEF Booked, Books, Typed
<1>2. /\ s \in LiveIn(proc) /\ v < TensorBase /\ q # 0
      /\ pte' = [pte EXCEPT ![pde[d][i]][k] = 0]
      /\ loose' = loose \cup {q}
      /\ UNCHANGED <<free, pde, proc, nextMap, tensors>>
  BY LiveIs DEF UnmapPage
<1>3. q \in Frame
  BY <1>0, <1>2 DEF Booked, Books, PagesOwn
<1>4. i \in Pde /\ k \in Pte /\ 0 \notin Frame
  BY PagesAre
<1>5. pde[d][i] # 0
  BY <1>2 DEF PhysIn
<1>6. pde[d][i] \in Frame
  <2> HIDE DEF i, k, q
  <2> QED BY <1>0, <1>2, <1>4, <1>5, DirectoriesDiffer DEF Booked
<1>7. pte' \in [Frame -> [Pte -> Nat]] /\ Written(pte, pte', Pte, pde[d][i], k, 0)
  <2> HIDE DEF i, k, d
  <2> QED BY <1>1, <1>2, <1>4, <1>6 DEF Written
<1>8. /\ Booked(free, pde, pte', proc, Loosened(pde, pte, proc, loose, s, v, 0))
      /\ MapsTo(pde, pte, pde, pte', proc, s, v, 0)
  <2> DEFINE z == 0
  <2>1. z \in Nat /\ z \notin Frame /\ z \in Frame \cup {0}
    BY <1>4
  <2>2. Written(pte, pte', Pte, pde[d][i], k, z)
    BY <1>7
  <2> HIDE DEF z
  <2>21. s \in LiveIn(proc) /\ pte' \in [Frame -> [Pte -> Nat]]
    BY <1>2, <1>7
  <2>3. /\ Booked(free, pde, pte', proc, Loosened(pde, pte, proc, loose, s, v, z))
        /\ MapsTo(pde, pte, pde, pte', proc, s, v, z)
    BY <1>0, <1>5, <2>1, <2>2, <2>21, SetEntry
  <2> QED BY <2>3 DEF z
<1>9. Loosened(pde, pte, proc, loose, s, v, 0) = loose'
  BY <1>1, <1>2, <1>3, <1>4 DEF Loosened
<1>10. TensorsIn(pde, pte', proc, nextMap, tensors)
  <2>1. \A w \in VPage : w >= TensorBase => w # v
    BY <1>2, PagesAre
  <2>2. \A r \in LiveIn(proc) \cap LiveIn(proc), w \in VPage :
          w >= TensorBase /\ w < nextMap /\ proc[r] = proc[r] =>
            PhysIn(pde, pte', proc[r].pd, w) = PhysIn(pde, pte, proc[r].pd, w)
    BY <1>8, <2>1 DEF MapsTo
  <2>3. tensors \subseteq tensors
        /\ \A t \in tensors : t.slot \in LiveIn(proc) /\ proc[t.slot] = proc[t.slot]
    BY <1>0 DEF TensorsIn
  <2> QED BY <1>0, <2>2, <2>3, TensorsStay
<1> QED BY <1>2, <1>8, <1>9, <1>10 DEF SpaceInv, Booked

LEMMA MapTensorKeeps ==
  ASSUME SpaceInv, NEW s \in Slots, NEW b \in Blobs, MapTensor(s, b)
  PROVE  SpaceInv'
<1> DEFINE m == Memory
           n == MappedRange(m, proc[s].pd, nextMap, b)
           new == [slot |-> s, at |-> nextMap, blob |-> b]
<1>0. Booked(free, pde, pte, proc, loose) /\ TensorsIn(pde, pte, proc, nextMap, tensors)
  BY SpaceInvParts
<1>1. /\ free \in SUBSET Frame /\ b \in Nat /\ BlobPages \in Nat
      /\ pde \in [Frame -> [Pde -> Nat]] /\ pte \in [Frame -> [Pte -> Nat]]
      /\ nextMap \in Nat /\ nextMap >= TensorBase /\ TensorBase \in Nat
  BY <1>0, SpacesAssumption, PagesAre DEF Booked, Books, Typed, TensorsIn
<1>2. m \in Memories /\ m.ok /\ m.free = free /\ m.pde = pde /\ m.pte = pte
  BY <1>1 DEF Memories, Memory
<1>3. /\ s \in LiveIn(proc) /\ nextMap + BlobPages - 1 \in VPage
      /\ free' = n.free /\ pde' = n.pde /\ pte' = n.pte
      /\ IF n.ok THEN nextMap' = nextMap + BlobPages /\ tensors' = tensors \cup {new}
                 ELSE UNCHANGED <<nextMap, tensors>>
      /\ UNCHANGED <<proc, loose>>
  BY LiveIs DEF MapTensor, Store
<1> HIDE DEF m, n, new
<1>4. /\ n \in Memories /\ Undisturbed(m, n, proc, loose, nextMap)
      /\ PlacedTo(n, proc[s].pd, nextMap, b, BlobPages)
  <2>1. Booked(m.free, m.pde, m.pte, proc, loose)
    BY <1>0, <1>2
  <2> QED BY <1>1, <1>2, <1>3, <2>1, MapRange DEF n
<1>5. Booked(free', pde', pte', proc, loose)
  BY <1>3, <1>4 DEF Undisturbed
<1>6. TensorsIn(pde', pte', proc, nextMap, tensors)
  <2>1. \A r \in LiveIn(proc) \cap LiveIn(proc), w \in VPage :
          w >= TensorBase /\ w < nextMap /\ proc[r] = proc[r] =>
            PhysIn(pde', pte', proc[r].pd, w) = PhysIn(pde, pte, proc[r].pd, w)
    BY <1>2, <1>3, <1>4 DEF Undisturbed
  <2>2. tensors \subseteq tensors
        /\ \A t \in tensors : t.slot \in LiveIn(proc) /\ proc[t.slot] = proc[t.slot]
    BY <1>0 DEF TensorsIn
  <2> QED BY <1>0, <2>1, <2>2, TensorsStay
<1>7. CASE ~n.ok
  BY <1>3, <1>5, <1>6, <1>7 DEF SpaceInv, Booked
<1>8. CASE n.ok
  <2>1. nextMap' \in Nat /\ nextMap' >= TensorBase /\ nextMap' >= nextMap
    BY <1>1, <1>3, <1>8
  <2>2. ASSUME NEW t \in tensors'
        PROVE  /\ t.slot \in LiveIn(proc) /\ t.at \in Nat /\ t.blob \in Nat
               /\ t.at >= TensorBase /\ t.at + BlobPages <= nextMap' /\ t.at + BlobPages - 1 \in VPage
               /\ \A i \in 0 .. (BlobPages - 1) :
                    PhysIn(pde', pte', proc[t.slot].pd, t.at + i) = SharedPage(t.blob, i)
    <3>1. CASE t \in tensors
      <4>1. /\ t.slot \in LiveIn(proc) /\ t.at \in Nat /\ t.blob \in Nat
            /\ t.at >= TensorBase /\ t.at + BlobPages <= nextMap /\ t.at + BlobPages - 1 \in VPage
            /\ \A i \in 0 .. (BlobPages - 1) :
                 PhysIn(pde', pte', proc[t.slot].pd, t.at + i) = SharedPage(t.blob, i)
        BY <1>6, <3>1 DEF TensorsIn
      <4>2. t.at + BlobPages <= nextMap'
        BY <1>1, <2>1, <4>1
      <4> QED BY <4>1, <4>2
    <3>2. CASE t = new
      <4>1. t.slot = s /\ t.at = nextMap /\ t.blob = b
        BY <3>2 DEF new
      <4>2. \A i \in 0 .. (BlobPages - 1) :
              PhysIn(pde', pte', proc[s].pd, nextMap + i) = SharedPage(b, i)
        BY <1>3, <1>4, <1>8 DEF PlacedTo
      <4>3. nextMap + BlobPages <= nextMap'
        BY <1>1, <1>3, <1>8
      <4> QED BY <1>1, <1>3, <4>1, <4>2, <4>3
    <3> QED BY <1>3, <1>8, <3>1, <3>2
  <2>3. TensorsIn(pde', pte', proc, nextMap', tensors')
    BY <2>1, <2>2 DEF TensorsIn
  <2> QED BY <1>3, <1>5, <2>3 DEF SpaceInv, Booked
<1> QED BY <1>7, <1>8

LEMMA LoadKeeps ==
  ASSUME SpaceInv, LoadPage
  PROVE  SpaceInv'
<1> DEFINE p == Lowest(free)
<1>1. PICK own : Books(free, pde, pte, proc, loose, own)
  BY DEF SpaceInv
<1>2. free \in SUBSET Frame /\ loose \in SUBSET Frame /\ Typed(free, pde, pte, proc, loose)
  BY <1>1 DEF Books, Typed
<1>3. free' = free \ {p} /\ loose' = loose \cup {p} /\ UNCHANGED <<pde, pte, proc, nextMap, tensors>>
  BY DEF LoadPage
<1>4. p \in free /\ p \in Frame
  BY <1>2, LowestIs DEF LoadPage
<1>5. own[p] = NoUse /\ own[p].as = "free"
  BY <1>1, <1>4, KindsDiffer DEF Books, RestOwn
<1> DEFINE own2 == [f \in Frame |-> IF f = p THEN LooseUse(f) ELSE own[f]]
<1>6. \A f \in Frame : own2[f] = IF f = p THEN LooseUse(f) ELSE own[f]
  OBVIOUS
<1> HIDE DEF own2, p
<1>7. Typed(free', pde, pte, proc, loose')
  BY <1>2, <1>3, <1>4 DEF Typed
<1>8. ProcsOwn(proc, own2)
  <2> SUFFICES ASSUME NEW r \in LiveIn(proc)
      PROVE  /\ proc[r].pcb \in Frame /\ own2[proc[r].pcb] = PcbUse(r)
             /\ proc[r].pd \in Frame /\ own2[proc[r].pd] = PdUse(r)
             /\ proc[r].kstack \in Frame /\ own2[proc[r].kstack] = StackUse(r)
    BY DEF ProcsOwn
  <2>1. /\ proc[r].pcb \in Frame /\ own[proc[r].pcb] = PcbUse(r)
        /\ proc[r].pd \in Frame /\ own[proc[r].pd] = PdUse(r)
        /\ proc[r].kstack \in Frame /\ own[proc[r].kstack] = StackUse(r)
    BY <1>1 DEF Books, ProcsOwn
  <2>2. proc[r].pcb # p /\ proc[r].pd # p /\ proc[r].kstack # p
    BY <1>5, <2>1, KindsDiffer
  <2> QED BY <1>6, <2>1, <2>2
<1>9. TablesOwn(pde, proc, own2)
  <2> SUFFICES ASSUME NEW r \in LiveIn(proc), NEW j \in Pde, pde[proc[r].pd][j] # 0
      PROVE  pde[proc[r].pd][j] \in Frame /\ own2[pde[proc[r].pd][j]] = TableUse(r, j)
    BY DEF TablesOwn
  <2>1. pde[proc[r].pd][j] \in Frame /\ own[pde[proc[r].pd][j]] = TableUse(r, j)
    BY <1>1 DEF Books, TablesOwn
  <2>2. pde[proc[r].pd][j] # p
    BY <1>5, <2>1, KindsDiffer
  <2> QED BY <1>6, <2>1, <2>2
<1>10. PagesOwn(pde, pte, proc, own2)
  <2> SUFFICES ASSUME NEW r \in LiveIn(proc), NEW w \in VPage
      PROVE  LET x == PhysIn(pde, pte, proc[r].pd, w) IN
             /\ x \in Frame => w < TensorBase /\ own2[x] = PageUse(r, w)
             /\ w < TensorBase => x \in Frame \cup {0}
    BY DEF PagesOwn
  <2> DEFINE x == PhysIn(pde, pte, proc[r].pd, w)
  <2>1. /\ x \in Frame => w < TensorBase /\ own[x] = PageUse(r, w)
        /\ w < TensorBase => x \in Frame \cup {0}
    BY <1>1 DEF Books, PagesOwn
  <2> HIDE DEF x
  <2>2. x \in Frame => x # p
    BY <1>5, <2>1, KindsDiffer
  <2>3. /\ x \in Frame => w < TensorBase /\ own2[x] = PageUse(r, w)
        /\ w < TensorBase => x \in Frame \cup {0}
    BY <1>6, <2>1, <2>2
  <2> QED BY <2>3 DEF x
<1>11. RestOwn(free', loose', own2)
  <2>1. \A f \in free : f \in Frame /\ own[f] = NoUse
    BY <1>1, <1>2 DEF Books, RestOwn
  <2>2. \A f \in loose : f \in Frame /\ own[f] = LooseUse(f)
    BY <1>1, <1>2 DEF Books, RestOwn
  <2> QED BY <1>3, <1>4, <1>6, <2>1, <2>2 DEF RestOwn
<1>12. AllOwned(free', pde, pte, proc, loose', own2)
  <2> SUFFICES ASSUME NEW f \in Frame PROVE OwnedAs(free', pde, pte, proc, loose', f, own2[f])
    BY DEF AllOwned
  <2>1. CASE f = p
    BY <1>3, <1>6, <2>1 DEF OwnedAs
  <2>2. CASE f # p
    <3>1. own2[f] = own[f] /\ OwnedAs(free, pde, pte, proc, loose, f, own[f])
      BY <1>1, <1>6, <2>2 DEF Books, AllOwned
    <3>2. (f \in free => f \in free') /\ (f \in loose => f \in loose')
      BY <1>3, <2>2
    <3> QED BY <3>1, <3>2 DEF OwnedAs
  <2> QED BY <2>1, <2>2
<1>13. Books(free', pde, pte, proc, loose', own2)
  BY <1>7, <1>8, <1>9, <1>10, <1>11, <1>12 DEF Books
<1> QED BY <1>3, <1>13 DEF SpaceInv

LEMMA SpaceInvNext == SpaceInv /\ [SpaceNext]_spaceVars => SpaceInv'
<1> SUFFICES ASSUME SpaceInv, [SpaceNext]_spaceVars PROVE SpaceInv'
  OBVIOUS
<1>1. CASE \E s \in Slots : CreateProcess(s)
  BY <1>1, CreateKeeps
<1>2. CASE \E s \in Slots : DestroyProcess(s)
  BY <1>2, DestroyKeeps
<1>3. CASE \E s \in Slots : ContextSwitch(s)
  BY <1>3 DEF ContextSwitch, SpaceInv
<1>4. CASE \E s \in Slots, v \in VPage : UnmapPage(s, v)
  BY <1>4, UnmapKeeps
<1>5. CASE \E s \in Slots, v \in VPage, f \in loose : MapCode(s, v, f)
  BY <1>5, MapCodeKeeps
<1>6. CASE \E s \in Slots, b \in Blobs : MapTensor(s, b)
  BY <1>6, MapTensorKeeps
<1>7. CASE LoadPage
  BY <1>7, LoadKeeps
<1>8. CASE BackToKernel
  BY <1>8 DEF BackToKernel, SpaceInv
<1>9. CASE UNCHANGED spaceVars
  BY <1>9 DEF spaceVars, SpaceInv
<1> QED BY <1>1, <1>2, <1>3, <1>4, <1>5, <1>6, <1>7, <1>8, <1>9 DEF SpaceNext

(* The ledger says what the property says of the places.                   *)
LEMMA LedgerAccounts == SpaceInv => SpacesSound
<1> SUFFICES ASSUME SpaceInv PROVE SpacesSound
  OBVIOUS
<1>1. PICK own : Books(free, pde, pte, proc, loose, own)
  BY DEF SpaceInv
<1>2. loose \in SUBSET Frame /\ free \in SUBSET Frame
  BY <1>1 DEF Books, Typed
<1>3. ASSUME NEW u \in Places, HeldAt(u) \in Frame
      PROVE  own[HeldAt(u)] = u /\ HeldAt(u) \notin free
  <2>1. own[HeldAt(u)] = u
    <3>1. ASSUME NEW s \in LiveIn(proc), u = PcbUse(s) PROVE own[HeldAt(u)] = u
      <4>1. HeldAt(u) = proc[s].pcb
        BY <3>1 DEF HeldAt, PcbUse
      <4> QED BY <1>1, <3>1, <4>1 DEF Books, ProcsOwn
    <3>2. ASSUME NEW s \in LiveIn(proc), u = PdUse(s) PROVE own[HeldAt(u)] = u
      <4>1. HeldAt(u) = proc[s].pd
        BY <3>2 DEF HeldAt, PdUse
      <4> QED BY <1>1, <3>2, <4>1 DEF Books, ProcsOwn
    <3>3. ASSUME NEW s \in LiveIn(proc), u = StackUse(s) PROVE own[HeldAt(u)] = u
      <4>1. HeldAt(u) = proc[s].kstack
        BY <3>3 DEF HeldAt, StackUse
      <4> QED BY <1>1, <3>3, <4>1 DEF Books, ProcsOwn
    <3>4. ASSUME NEW s \in LiveIn(proc), NEW i \in Pde, u = TableUse(s, i) PROVE own[HeldAt(u)] = u
      <4>1. HeldAt(u) = pde[proc[s].pd][i]
        BY <3>4 DEF HeldAt, TableUse
      <4> QED BY <1>1, <1>3, <3>4, <4>1, PagesAre DEF Books, TablesOwn
    <3>5. ASSUME NEW s \in LiveIn(proc), NEW v \in VPage, u = PageUse(s, v) PROVE own[HeldAt(u)] = u
      <4>1. HeldAt(u) = PhysIn(pde, pte, proc[s].pd, v)
        BY <3>5, LiveIs DEF HeldAt, PageUse
      <4> QED BY <1>1, <1>3, <3>5, <4>1 DEF Books, PagesOwn
    <3>6. ASSUME NEW f \in loose, u = LooseUse(f) PROVE own[HeldAt(u)] = u
      <4>1. HeldAt(u) = f
        BY <3>6 DEF HeldAt, LooseUse
      <4> QED BY <1>1, <3>6, <4>1 DEF Books, RestOwn
    <3>7. \/ \E s \in LiveIn(proc) : u = PcbUse(s) \/ u = PdUse(s) \/ u = StackUse(s)
          \/ \E s \in LiveIn(proc), i \in Pde : u = TableUse(s, i)
          \/ \E s \in LiveIn(proc), v \in VPage : u = PageUse(s, v)
          \/ \E f \in loose : u = LooseUse(f)
      <4>1. CASE u \in [as : {"pcb", "pd", "kstack"}, of : Live]
        BY <4>1, LiveIs DEF PcbUse, PdUse, StackUse
      <4>2. CASE u \in [as : {"table"}, of : Live, at : Pde]
        BY <4>2, LiveIs DEF TableUse
      <4>3. CASE u \in [as : {"page"}, of : Live, at : VPage]
        BY <4>3, LiveIs DEF PageUse
      <4>4. CASE u \in [as : {"loose"}, at : loose]
        BY <4>4 DEF LooseUse
      <4> QED BY <4>1, <4>2, <4>3, <4>4 DEF Places
    <3> QED BY <3>1, <3>2, <3>3, <3>4, <3>5, <3>6, <3>7
  <2>2. u.as # "free"
    BY DEF Places
  <2>3. \A f \in free : own[f].as = "free"
    BY <1>1, KindsDiffer DEF Books, RestOwn
  <2> QED BY <2>1, <2>2, <2>3
<1>4. ASSUME NEW f \in Frame, f \notin free PROVE \E u \in Used : HeldAt(u) = f
  <2> DEFINE u == own[f]
  <2>1. OwnedAs(free, pde, pte, proc, loose, f, u)
    BY <1>1 DEF Books, AllOwned
  <2> HIDE DEF u
  <2>2. CASE u = LooseUse(f) /\ f \in loose
    <3>1. u \in Places /\ HeldAt(u) = f
      BY <2>2 DEF Places, HeldAt, LooseUse
    <3> QED BY <3>1 DEF Used
  <2>3. CASE \E s \in LiveIn(proc) : u = PcbUse(s) /\ proc[s].pcb = f
    <3>1. u \in Places /\ HeldAt(u) = f
      BY <2>3, LiveIs DEF Places, HeldAt, PcbUse
    <3> QED BY <3>1 DEF Used
  <2>4. CASE \E s \in LiveIn(proc) : u = PdUse(s) /\ proc[s].pd = f
    <3>1. u \in Places /\ HeldAt(u) = f
      BY <2>4, LiveIs DEF Places, HeldAt, PdUse
    <3> QED BY <3>1 DEF Used
  <2>5. CASE \E s \in LiveIn(proc) : u = StackUse(s) /\ proc[s].kstack = f
    <3>1. u \in Places /\ HeldAt(u) = f
      BY <2>5, LiveIs DEF Places, HeldAt, StackUse
    <3> QED BY <3>1 DEF Used
  <2>6. CASE \E s \in LiveIn(proc), i \in Pde : u = TableUse(s, i) /\ pde[proc[s].pd][i] = f
    <3>1. u \in Places /\ HeldAt(u) = f
      BY <2>6, LiveIs DEF Places, HeldAt, TableUse
    <3> QED BY <3>1 DEF Used
  <2>7. CASE \E s \in LiveIn(proc), v \in VPage :
               u = PageUse(s, v) /\ PhysIn(pde, pte, proc[s].pd, v) = f
    <3>1. u \in Places /\ HeldAt(u) = f
      BY <2>7, LiveIs DEF Places, HeldAt, PageUse
    <3> QED BY <3>1 DEF Used
  <2> QED BY <1>4, <2>1, <2>2, <2>3, <2>4, <2>5, <2>6, <2>7 DEF OwnedAs
<1>5. FramesAccounted
  <2>1. \A u, w \in Used : HeldAt(u) = HeldAt(w) => u = w
    <3> SUFFICES ASSUME NEW u \in Used, NEW w \in Used, HeldAt(u) = HeldAt(w) PROVE u = w
      OBVIOUS
    <3>1. u \in Places /\ w \in Places /\ HeldAt(u) \in Frame /\ HeldAt(w) \in Frame
      BY DEF Used
    <3>2. own[HeldAt(u)] = u /\ own[HeldAt(w)] = w
      BY <1>3, <3>1
    <3> QED BY <3>2
  <2>2. ASSUME NEW u \in Used PROVE HeldAt(u) \in Frame \ free
    <3>1. u \in Places /\ HeldAt(u) \in Frame
      BY DEF Used
    <3> QED BY <1>3, <3>1
  <2>3. Frame \ free = {HeldAt(u) : u \in Used}
    BY <1>4, <2>2
  <2> QED BY <2>1, <2>3 DEF FramesAccounted
<1>6. TensorsIntact
  BY LiveIs DEF SpaceInv, TensorsIn, TensorsIntact
<1> QED BY <1>5, <1>6 DEF SpacesSound

(* Whatever sequence of creations, failed creations, mappings that stop    *)
(* half way, unmappings and destructions: every frame of pmm is free or    *)
(* held in exactly one place, and every tensor that sys_map_tensor         *)
(* reported is still mapped, page for page, in its process.                *)
THEOREM SpacesStaySound == SpaceSpec => []SpacesSound
<1>1. SpaceInit => SpaceInv
  BY SpaceInvInit
<1>2. SpaceInv /\ [SpaceNext]_spaceVars => SpaceInv'
  BY SpaceInvNext
<1>3. SpaceInv => SpacesSound
  BY LedgerAccounts
<1> QED BY <1>1, <1>2, <1>3, PTL DEF SpaceSpec
=============================================================================
