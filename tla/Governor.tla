------------------------------ MODULE Governor ------------------------------
(***************************************************************************)
(* Physical pages and the contracts they are charged to: pmm.c (one bitmap *)
(* over two NUMA nodes), the zenedge_alloc.c layer, and contracts.c (one   *)
(* budget, one usage and one state machine per job, and admission control).*)
(*                                                                         *)
(* Page frames are the usable ones, those above 1 MB: node 0 below         *)
(* Boundary, node 1 from there on.  Memory is counted in KB, a page being  *)
(* PageKb of them.  The kernel calls all of this from one context, so each *)
(* call is one step.                                                       *)
(***************************************************************************)
EXTENDS Integers, FiniteSets, FiniteSetsExt

CONSTANTS NPages,      \* usable page frames
          Boundary,    \* node_boundary_pfn
          Jobs,        \* contracts, one per job
          PageKb,      \* PAGE_SIZE / 1024
          MemBudget,   \* memory_kb of every contract
          CpuBudget,   \* cpu_budget_us of every contract
          Word,        \* 2^32: arithmetic on uint32_t is modulo Word
          MaxRun,      \* bound on the pages of one run
          MaxCharge,   \* bound on what one charge adds
          MaxUse,      \* bound on cpu_used_us and mem_used_kb
          MaxViol,     \* bound on the violation counters
          MaxDrift     \* bound on how wrong a node's free_pages may get

ASSUME GovernorAssumption ==
  /\ NPages \in Nat /\ Boundary \in 0 .. NPages
  /\ PageKb \in Nat \ {0} /\ MemBudget \in Nat /\ CpuBudget \in Nat
  /\ MaxCharge \in Nat /\ MaxUse \in Nat /\ MaxViol \in Nat
  /\ MaxDrift \in Nat /\ MaxRun \in Nat
  /\ Word \in Nat /\ MemBudget <= MaxUse /\ MaxUse < Word

Page == 0 .. (NPages - 1)
Node == {0, 1}
AnyNode == 2                      \* NUMA_NODE_ANY
Frames(n) == {p \in Page : (p >= Boundary) <=> (n = 1)}
NodeOf(p) == IF p < Boundary THEN 0 ELSE 1

VARIABLES used,        \* set bits of page_bitmap
          freePages,   \* free_pages
          nodeFree,    \* numa_nodes[n].free_pages
          hung,        \* pmm_alloc_pages recurses for ever
          raw,         \* page runs the kernel itself holds
          applied,     \* jobs whose contract has been applied
          pref,        \* preferred_node of each contract
          mem, cpu,    \* mem_used_kb, cpu_used_us
          memV, cpuV,  \* mem_violations, cpu_violations
          state,       \* CONTRACT_STATE_*
          owned,       \* history: pages allocated through the contract
          charged,     \* history: KB charged with contract_charge_memory
          overAdmitted \* history: a job larger than what was left got ADMIT_OK

pmm  == <<used, freePages, nodeFree, hung, raw>>
acct == <<mem, cpu, memV, cpuV, state>>
vars == <<used, freePages, nodeFree, hung, raw, applied, pref, mem, cpu, memV,
          cpuV, state, owned, charged, overAdmitted>>

Init ==
  /\ used = {} /\ freePages = NPages
  /\ nodeFree = [n \in Node |-> Cardinality(Frames(n))]
  /\ hung = FALSE /\ raw = {}
  /\ applied = {} /\ pref = [j \in Jobs |-> 0]
  /\ mem = [j \in Jobs |-> 0] /\ cpu = [j \in Jobs |-> 0]
  /\ memV = [j \in Jobs |-> 0] /\ cpuV = [j \in Jobs |-> 0]
  /\ state = [j \in Jobs |-> "OK"]
  /\ owned = [j \in Jobs |-> {}] /\ charged = [j \in Jobs |-> 0]
  /\ overAdmitted = FALSE

-----------------------------------------------------------------------------
(* pmm.c                                                                   *)

Take(ps, n) ==
  /\ used' = used \cup ps
  /\ freePages' = freePages - Cardinality(ps)
  /\ nodeFree' = [nodeFree EXCEPT ![n] = @ - Cardinality(ps)]

\* pmm_alloc_page: the preferred node's first free page, else the other's.
FreeIn(n) == Frames(n) \ used

\* Mutant: the other node's page taken without looking at the bitmap.
PageFor_NoTest(n) ==
  IF FreeIn(n) # {} THEN Min(FreeIn(n)) ELSE Min(Frames(1 - n))

PageFor(n) ==
  IF FreeIn(n) # {} THEN Min(FreeIn(n)) ELSE Min(FreeIn(1 - n))

\* Mutant: the node's counter forgotten.
GiveBack_NoNode(ps) ==
  /\ used' = used \ ps
  /\ freePages' = freePages + Cardinality(ps)
  /\ UNCHANGED nodeFree

\* pmm_free_page for each page: every one is credited to the node it is in.
GiveBack(ps) ==
  /\ used' = used \ ps
  /\ freePages' = freePages + Cardinality(ps)
  /\ nodeFree' = [n \in Node |-> nodeFree[n] + Cardinality(ps \cap Frames(n))]

Run(p, k) == p .. (p + k - 1)

\* Mutant: the run may leave the area at its end.
Runs_NoEnd(area, k) == {p \in area : Run(p, k) \cap used = {}}

Runs(area, k) == {p \in area : Run(p, k) \subseteq area \ used}

(* pmm_alloc_pages for two or more pages: within the node, within the      *)
(* other node, or anywhere; all pages are charged to the node the run      *)
(* starts in.                                                              *)
Candidates(k, node) ==
  IF node = AnyNode THEN Runs(Page, k)
  ELSE IF Runs(Frames(node), k) # {} THEN Runs(Frames(node), k)
  ELSE Runs(Frames(1 - node), k)

AllocPages(k, node) ==
  /\ ~hung
  /\ nodeFree[0] > Cardinality(Frames(0) \ used) - MaxDrift
  /\ Candidates(k, node) # {}
  /\ LET p == Min(Candidates(k, node))
     IN  Take(Run(p, k), NodeOf(p)) /\ raw' = raw \cup {Run(p, k)}
  /\ UNCHANGED <<hung, applied, pref, acct, owned, charged, overAdmitted>>

(* No node has the run: each node's search falls back on the other node's, *)
(* which falls back on the first.                                          *)
AllocPagesFails(k, node) ==
  /\ ~hung
  /\ Candidates(k, node) = {}
  /\ hung' = (node # AnyNode)
  /\ UNCHANGED <<used, freePages, nodeFree, raw, applied, pref, acct, owned,
                 charged, overAdmitted>>

FreePages(r) ==
  /\ ~hung
  /\ GiveBack(r) /\ raw' = raw \ {r}
  /\ UNCHANGED <<hung, applied, pref, acct, owned, charged, overAdmitted>>

-----------------------------------------------------------------------------
(* contracts.c                                                             *)

\* contract_apply, which initialises a contract: once for each job, before the
\* job runs (the code does not test that).  A realtime job prefers node 0,
\* every other job node 1.
Apply(j, realtime) ==
  /\ ~hung /\ j \notin applied
  /\ applied' = applied \cup {j}
  /\ pref' = [pref EXCEPT ![j] = IF realtime THEN 0 ELSE 1]
  /\ mem' = [mem EXCEPT ![j] = 0] /\ cpu' = [cpu EXCEPT ![j] = 0]
  /\ memV' = [memV EXCEPT ![j] = 0] /\ cpuV' = [cpuV EXCEPT ![j] = 0]
  /\ state' = [state EXCEPT ![j] = "OK"]
  /\ UNCHANGED <<pmm, owned, charged, overAdmitted>>

\* Mutant: a contract in safe mode warned once more.
Degraded_Back(s, v, limit) ==
  IF v >= limit /\ s = "WARNED" THEN "SAFE_MODE" ELSE "WARNED"

\* Mutant: the second violation is one too many.
Degraded_Early(s, v, limit) == IF s = "OK" THEN "WARNED" ELSE "SAFE_MODE"

\* The state machine on a violation, v being the counter with it counted.
Degraded(s, v, limit) ==
  IF s = "OK" THEN "WARNED"
  ELSE IF s = "WARNED" /\ v >= limit THEN "SAFE_MODE" ELSE s

ChargeCpu(j, us) ==
  /\ ~hung /\ j \in applied /\ cpu[j] + us <= MaxUse /\ cpuV[j] < MaxViol
  /\ cpu' = [cpu EXCEPT ![j] = @ + us]
  /\ LET over == cpu[j] + us > CpuBudget
     IN  /\ cpuV' = [cpuV EXCEPT ![j] = IF over THEN @ + 1 ELSE @]
         /\ state' = [state EXCEPT ![j] =
                        IF over THEN Degraded(@, cpuV[j] + 1, 3) ELSE @]
  /\ UNCHANGED <<pmm, applied, pref, mem, memV, owned, charged, overAdmitted>>

ChargeMemory(j, kb) ==
  /\ ~hung /\ j \in applied /\ mem[j] + kb <= MaxUse /\ memV[j] < MaxViol
  /\ mem' = [mem EXCEPT ![j] = @ + kb]
  /\ charged' = [charged EXCEPT ![j] = @ + kb]
  /\ LET over == mem[j] + kb > MemBudget
     IN  /\ memV' = [memV EXCEPT ![j] = IF over THEN @ + 1 ELSE @]
         /\ state' = [state EXCEPT ![j] =
                        IF over THEN Degraded(@, memV[j] + 1, 2) ELSE @]
  /\ UNCHANGED <<pmm, applied, pref, cpu, cpuV, owned, overAdmitted>>

\* contract_alloc_page beyond the budget: denied, and counted as a violation.
AllocDenied(j) ==
  /\ ~hung /\ j \in applied /\ state[j] # "SAFE_MODE"
  /\ mem[j] + PageKb > MemBudget /\ memV[j] < MaxViol
  /\ memV' = [memV EXCEPT ![j] = @ + 1]
  /\ state' = [state EXCEPT ![j] = Degraded(@, memV[j] + 1, 2)]
  /\ UNCHANGED <<pmm, applied, pref, mem, cpu, cpuV, owned, charged, overAdmitted>>

\* Mutant: the budget compared before the page is added.
AllocPage_LateCheck(j) ==
  /\ ~hung /\ j \in applied /\ state[j] # "SAFE_MODE"
  /\ mem[j] <= MemBudget
  /\ used # Page
  /\ LET p == PageFor(pref[j])
     IN  Take({p}, NodeOf(p)) /\ owned' = [owned EXCEPT ![j] = @ \cup {p}]
  /\ mem' = [mem EXCEPT ![j] = @ + PageKb]
  /\ UNCHANGED <<hung, raw, applied, pref, cpu, memV, cpuV, state, charged,
                 overAdmitted>>

\* contract_alloc_page; with no page left (or in safe mode) nothing changes.
AllocPage(j) ==
  /\ ~hung /\ j \in applied /\ state[j] # "SAFE_MODE"
  /\ mem[j] + PageKb <= MemBudget
  /\ used # Page
  /\ LET p == PageFor(pref[j])
     IN  Take({p}, NodeOf(p)) /\ owned' = [owned EXCEPT ![j] = @ \cup {p}]
  /\ mem' = [mem EXCEPT ![j] = @ + PageKb]
  /\ UNCHANGED <<hung, raw, applied, pref, cpu, memV, cpuV, state, charged,
                 overAdmitted>>

\* Mutant: the page freed, the contract not credited.
FreePage_NoCredit(j, p) ==
  /\ ~hung /\ p \in owned[j]
  /\ GiveBack({p})
  /\ owned' = [owned EXCEPT ![j] = @ \ {p}]
  /\ UNCHANGED <<hung, raw, applied, pref, acct, charged, overAdmitted>>

\* contract_free_page of a page the job holds.
FreePage(j, p) ==
  /\ ~hung /\ p \in owned[j]
  /\ GiveBack({p})
  /\ mem' = [mem EXCEPT ![j] = IF @ >= PageKb THEN @ - PageKb ELSE @]
  /\ owned' = [owned EXCEPT ![j] = @ \ {p}]
  /\ UNCHANGED <<hung, raw, applied, pref, cpu, memV, cpuV, state, charged,
                 overAdmitted>>

(* contract_admit_job says ADMIT_OK.  The memory still available is        *)
(* computed in uint32_t.  (A rejected job changes nothing, and the CPU     *)
(* estimate only logs; pinned memory is part of the peak.)                 *)
Admit(j, peak) ==
  /\ ~hung /\ j \in applied
  /\ peak <= MemBudget
  /\ peak <= (MemBudget - mem[j]) % Word
  /\ overAdmitted' = (overAdmitted \/ peak > MemBudget - mem[j])
  /\ UNCHANGED <<pmm, applied, pref, acct, owned, charged>>

-----------------------------------------------------------------------------
Pages ==
  \/ \E k \in 2 .. MaxRun, n \in Node \cup {AnyNode} :
       AllocPages(k, n) \/ AllocPagesFails(k, n)
  \/ \E r \in raw : FreePages(r)

Contract(j) ==
  \/ \E rt \in BOOLEAN : Apply(j, rt)
  \/ \E x \in 1 .. MaxCharge : ChargeCpu(j, x) \/ ChargeMemory(j, x)
  \/ AllocDenied(j) \/ AllocPage(j)
  \/ \E p \in owned[j] : FreePage(j, p)
  \/ \E peak \in 1 .. MemBudget : Admit(j, peak)

Next == Pages \/ \E j \in Jobs : Contract(j)

Spec == Init /\ [][Next]_vars

-----------------------------------------------------------------------------
(* Type invariant.                                                         *)
TypeOK ==
  /\ used \subseteq Page /\ freePages \in 0 .. NPages
  /\ nodeFree \in [Node -> Int] /\ hung \in BOOLEAN
  /\ \A r \in raw : r \subseteq Page
  /\ applied \subseteq Jobs /\ pref \in [Jobs -> Node]
  /\ mem \in [Jobs -> 0 .. MaxUse] /\ cpu \in [Jobs -> 0 .. MaxUse]
  /\ memV \in [Jobs -> 0 .. MaxViol] /\ cpuV \in [Jobs -> 0 .. MaxViol]
  /\ state \in [Jobs -> {"OK", "WARNED", "SAFE_MODE"}]
  /\ owned \in [Jobs -> SUBSET Page] /\ overAdmitted \in BOOLEAN

(* The three ways pmm.c counts free pages agree, for any mix of single     *)
(* pages and runs.  (Node by node they need not: a run that straddles the  *)
(* boundary is taken from one node and given back to two.)                 *)
PagesCounted ==
  /\ freePages = NPages - Cardinality(used)
  /\ nodeFree[0] + nodeFree[1] = freePages

(* No page is held twice, by two jobs or by a job and the kernel, and      *)
(* every page in use is held by somebody.                                  *)
PagesHeldOnce ==
  LET holders == {owned[j] : j \in Jobs} \cup raw
  IN  /\ used = UNION holders
      /\ \A j, k \in Jobs : j # k => owned[j] \cap owned[k] = {}
      /\ \A r \in raw, j \in Jobs : r \cap owned[j] = {}
      /\ \A r, s \in raw : r # s => r \cap s = {}

(* Bitmap, counters and holders agree on every page.                       *)
PagesSound == TypeOK /\ PagesCounted /\ PagesHeldOnce

(* mem_used_kb is what the job holds and what was charged to it, through   *)
(* denials, fallbacks to the other node and frees.                         *)
ChargesMatch ==
  \A j \in Jobs : mem[j] = PageKb * Cardinality(owned[j]) + charged[j]

(* A job is never given a page beyond its budget.                          *)
WithinBudget == \A j \in Jobs : PageKb * Cardinality(owned[j]) <= MemBudget

(* A job is charged what it holds and holds no more than its budget.       *)
ChargesSound == ChargesMatch /\ WithinBudget

(* The state tells what happened: no violation is OK, and safe mode takes  *)
(* three CPU or two memory violations.                                     *)
StateJustified ==
  \A j \in Jobs :
    /\ (state[j] = "OK") <=> (cpuV[j] = 0 /\ memV[j] = 0)
    /\ state[j] = "SAFE_MODE" => cpuV[j] >= 3 \/ memV[j] >= 2

(* A contract does not leave safe mode, and a job in safe mode gets no     *)
(* further page.                                                           *)
SafeModeHolds ==
  [][\A j \in Jobs : state[j] = "SAFE_MODE" =>
       state'[j] = "SAFE_MODE" /\ owned'[j] \subseteq owned[j]]_vars

(* contract_admit_job, "Check 3: Already at memory limits?": a job is only *)
(* admitted when its peak fits into what the contract has left.            *)
AdmitFits == ~overAdmitted
=============================================================================
