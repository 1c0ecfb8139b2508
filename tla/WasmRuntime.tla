----------------------------- MODULE WasmRuntime -----------------------------
(***************************************************************************)
(* The life of a WASM agent in the kernel: wasm_run_agent and              *)
(* wasm_run_bytes (kernel/wasm_loader.c) drive the wasm3 library           *)
(* (kernel/lib/wasm3: m3_env.c, m3_code.c, m3_bind.c, and the page          *)
(* handling of m3_compile.c).  Every run makes a runtime, parses and loads  *)
(* a module, links the host functions, compiles what is called, runs it and *)
(* frees the runtime; the environment lives on, with the code pages that    *)
(* earlier runtimes gave back.  An error ends the run at once, with one     *)
(* exception: wasm_run_bytes looks for "start" and, whatever kept it from   *)
(* that, for "_start" in the same runtime.                                  *)
(*                                                                          *)
(* The code pages are what this module is about.  A page is a bump          *)
(* allocator of code lines; it is in the list of released pages of the      *)
(* environment, in one of the two lists of a runtime, or in the hands of    *)
(* the one compilation that writes to it.  Compiling is a sequence of       *)
(* steps here, since it may take, bridge and give back pages many times,    *)
(* fail at each of them, and happen while other code of the same runtime    *)
(* is running (op_Compile).  What the code says is the module WasmCode's    *)
(* subject; here an operation is the number of lines that it takes.         *)
(***************************************************************************)
EXTENDS Integers, Sequences, SequencesExt, FiniteSets

CONSTANTS NPages,       \* pages the kernel heap has room for
          PageLines,    \* lines of a page
          Threshold,    \* d_m3CodePageFreeLinesThreshold
          OpWords,      \* lines of an operation with its operands
          Targets,      \* target counts of a br_table, without the default
          MaxOps,       \* bound: operations of a function
          MaxNest,      \* bound: nested else blocks
          MaxExprs      \* bound: initialiser expressions of a module

ASSUME WasmRuntimeAssumption ==
  /\ {NPages, PageLines, Threshold, MaxOps, MaxNest, MaxExprs} \subseteq Nat
  /\ \A n \in OpWords : n \in 1 .. Threshold
  /\ \A n \in Targets : n \in Nat /\ n + 6 <= PageLines
  /\ Threshold >= 3 /\ Threshold + 2 <= PageLines

Pages == 1 .. NPages
Funcs == {"init", "step", "aux", "host"}     \* start function, export, callee, import
Fresh == [open |-> <<>>, full |-> <<>>, num |-> 0, active |-> 0]
Unborn == [f \in Funcs |-> {}]

VARIABLES store,   \* code pages: the pages, how many exist, the released ones, the two
                   \* runtimes, and (a history) the pages that a throw left behind
          comp,    \* the compilation under way
          mod,     \* the module
          drv      \* where the driver is, the names it may still look for, and (a history)
                   \* how many pages its runtime has lost
runtimeVars == <<store, comp, mod, drv>>

(* ---- code pages ---- *)

NumFreeLines(s, p) == PageLines - s.page[p].line

\* Emit n words at the end of a page, for function f.
EmitWords(s, p, f, n) == [s EXCEPT !.page[p] = [line |-> @.line + n, code |-> @.code \cup {f}]]

\* The first page of a list with room for n lines, 0 if none.
OfCapacity(s, list, n) ==
  SelectInSeq(list, LAMBDA p : NumFreeLines(s, p) >= n)

\* NewCodePage, with malloc failing or not.
NewCodePage(s, ok) ==
  IF ok /\ s.made < NPages THEN s.made + 1 ELSE 0

Counted(s, r, p) == [s EXCEPT !.rt[r].num = @ + 1, !.rt[r].active = @ + 1]

\* AcquireCodePageWithCapacity: an open page of the runtime, a released page of the
\* environment, a new page.
Acquire(s, r, n, ok) ==
  LET i == OfCapacity(s, s.rt[r].open, n)
      j == OfCapacity(s, s.released, n)
      k == NewCodePage(s, ok)
  IN IF i > 0 THEN [p |-> s.rt[r].open[i],
                    s |-> [s EXCEPT !.rt[r].open = RemoveAt(@, i), !.rt[r].active = @ + 1]]
     ELSE IF j > 0 THEN [p |-> s.released[j],
                         s |-> [Counted(s, r, s.released[j]) EXCEPT !.released = RemoveAt(@, j)]]
     ELSE IF k > 0 THEN [p |-> k, s |-> [Counted(s, r, k) EXCEPT !.made = k]]
     ELSE [p |-> 0, s |-> s]

\* ReleaseCodePage: to the front of the full or of the open list.
Release(s, r, p) ==
  LET pushed == IF NumFreeLines(s, p) < Threshold
                THEN [s EXCEPT !.rt[r].full = <<p>> \o @]
                ELSE [s EXCEPT !.rt[r].open = <<p>> \o @]
  IN IF p = 0 THEN s ELSE [pushed EXCEPT !.rt[r].active = @ - 1]

\* Environment_ReleaseCodePages: reset the pages of a list and push the list to the front.
GiveBack(s, list) ==
  [s EXCEPT !.released = list \o @,
            !.page = [p \in Pages |-> IF p \in Range(list) THEN [line |-> 0, code |-> {}] ELSE @[p]]]

\* Runtime_Release: the open pages, then the full ones.
RuntimeRelease(s, r) ==
  [GiveBack(GiveBack(s, s.rt[r].open), s.rt[r].full) EXCEPT !.rt[r] = Fresh]

\* The bridge from the compilation's page to the page of a, which takes its place.
Bridged(a, o) ==
  IF a.p = 0 THEN a
  ELSE [p |-> a.p, s |-> Release(EmitWords(a.s, o.page, o.fn, 2), o.rt, o.page)]

\* Mutant: no lines are reserved for the bridge itself.
Ensure_NoReserve(s, o, n, ok) ==
  IF NumFreeLines(s, o.page) >= n THEN [p |-> o.page, s |-> s]
  ELSE Bridged(Acquire(s, o.rt, n, ok), o)

\* EnsureCodePageNumLines: bridge to another page when fewer than n + 2 lines are left.
Ensure(s, o, n, ok) ==
  IF NumFreeLines(s, o.page) >= n + 2 THEN [p |-> o.page, s |-> s]
  ELSE Bridged(Acquire(s, o.rt, n + 2, ok), o)

\* EmitOp and the operands that follow it, n lines in all.
OnPage(e, o, n) == IF e.p = 0 THEN e ELSE [p |-> e.p, s |-> EmitWords(e.s, e.p, o.fn, n)]
EmitOp(s, o, n, ok) == OnPage(Ensure(s, o, Threshold, ok), o, n)

(* ---- the driver's way out ---- *)

Idle == [at |-> "idle", run |-> "none", exprs |-> 0, names |-> 0, gone |-> 0]
NoModule == [start |-> "none", has |-> FALSE, inits |-> 0, code |-> Unborn]
NoComp == [fn |-> "none"]

\* m3_FreeRuntime frees the loaded modules and gives the pages back.
FreeRuntime(s) ==
  /\ store' = RuntimeRelease(s, "main")
  /\ mod' = NoModule
  /\ drv' = Idle
  /\ comp' = NoComp

\* wasm_run_bytes after an error in the lookup of "start": the same runtime, n pages poorer.
NextName(s, n) ==
  /\ store' = s
  /\ drv' = [drv EXCEPT !.names = @ - 1, !.gone = @ + n]
  /\ comp' = NoComp
  /\ UNCHANGED mod

\* What a failed step of the driver leads to: m3_RunStart restores the start function,
\* m3_LoadModule unlinks the module, and the runtime is freed unless there is a name left to
\* look for.  A module that did not load is not in the runtime: wasm_run_bytes frees it,
\* wasm_run_agent forgets it.
Failed(s, n) ==
  IF drv.at = "find" /\ drv.names > 1 THEN NextName(s, n) ELSE FreeRuntime(s)

(* ---- compiling ---- *)

\* CompileFunction / EvaluateExpression take their first page.
CompileBegin(f, r) ==
  \E ok \in BOOLEAN :
    LET a == Acquire(store, r, Threshold, ok)
    IN IF a.p = 0 THEN Failed(store, 0)
       ELSE /\ store' = a.s
            /\ comp' = [fn |-> f, rt |-> r, page |-> a.p, on |-> {}, outer |-> <<>>, ops |-> 0]
            /\ UNCHANGED <<mod, drv>>

Compiling == comp.fn # "none"
Top == Last(comp.outer)
InTarget == comp.outer # <<>> /\ Top.kind = "table" /\ Top.page # 0
InTable == comp.outer # <<>> /\ Top.kind = "table" /\ Top.page = 0

\* Mutant: a throw out of an else block leaves the block's page behind.
Outward_Keep(o, scope, u) == IF scope.kind = "else" THEN [s |-> u.s, p |-> scope.page] ELSE u

\* A throw on its way out of a scope: CompileElseBlock releases its page and goes back to the
\* saved one; Compile_BranchTable does neither.
Outward(o, scope, u) ==
  IF scope.kind = "else"
  THEN [s |-> IF u.p = scope.page THEN u.s ELSE Release(u.s, o.rt, u.p), p |-> scope.page]
  ELSE u

\* A throw on its way out of the compilation, from the innermost scope.
Unwound(s, o) ==
  LET n == Len(o.outer)
      u[i \in 0 .. n] == IF i = 0 THEN [s |-> s, p |-> o.page]
                         ELSE Outward(o, o.outer[n + 1 - i], u[i-1])
  IN u[n]

Forgotten(o) == {o.outer[i].page : i \in {j \in DOMAIN o.outer : o.outer[j].kind = "table"}} \ {0}

\* The end of CompileFunction or EvaluateExpression after an error.
Throw(s, o) ==
  LET u == Unwound(s, o)
      released == [Release(u.s, o.rt, u.p) EXCEPT !.lost = @ \cup Forgotten(o)]
  IN Failed(IF o.rt = "tmp" THEN RuntimeRelease(released, "tmp") ELSE released,
            Cardinality(Forgotten(o)))

Emitted(e) == comp' = [comp EXCEPT !.page = e.p, !.on = @ \cup {e.p}, !.ops = @ + 1]

\* One operation, in a function or in the code for one target of a br_table.
CompileOp ==
  /\ Compiling /\ ~InTable /\ comp.ops < MaxOps
  /\ \E n \in OpWords, ok \in BOOLEAN :
       LET e == EmitOp(store, comp, n, ok)
       IN IF e.p = 0 THEN Throw(e.s, comp)
          ELSE store' = e.s /\ Emitted(e) /\ UNCHANGED <<mod, drv>>

\* Anything else that is wrong with the function: types, indices, too many slots.
CompileError ==
  /\ Compiling
  /\ Throw(store, comp)

Entered(scope, p) ==
  comp' = [comp EXCEPT !.outer = Append(@, scope), !.page = p]

\* CompileElseBlock: the else part goes to a page of its own.
ElseOpen ==
  /\ Compiling /\ ~InTarget /\ ~InTable /\ comp.ops < MaxOps /\ Len(comp.outer) < MaxNest
  /\ \E ok \in BOOLEAN :
       LET a == Acquire(store, comp.rt, Threshold, ok)
       IN IF a.p = 0 THEN Throw(a.s, comp)
          ELSE /\ store' = a.s
               /\ Entered([kind |-> "else", page |-> comp.page, left |-> 0], a.p)
               /\ UNCHANGED <<mod, drv>>

Left(p) == [comp EXCEPT !.outer = Front(@), !.page = p]

\* The branch back from the else part, and the page given back.
ElseClose ==
  /\ Compiling /\ comp.outer # <<>> /\ Top.kind = "else"
  /\ \E ok \in BOOLEAN :
       LET e == EmitOp(store, comp, 2, ok)
       IN IF e.p = 0 THEN Throw(e.s, comp)
          ELSE /\ store' = Release(e.s, comp.rt, e.p)
               /\ comp' = [Left(Top.page) EXCEPT !.on = @ \cup {e.p}]
               /\ UNCHANGED <<mod, drv>>

\* Compile_BranchTable reserves the whole table before it emits its head.
TableOpen ==
  /\ Compiling /\ ~InTarget /\ ~InTable /\ comp.ops < MaxOps
  /\ \E n \in Targets, ok \in BOOLEAN :
       LET e == Ensure(store, comp, n + 4, ok)
           f == EmitOp(e.s, [comp EXCEPT !.page = e.p], 3, ok)
       IN IF e.p = 0 \/ f.p = 0 THEN Throw(IF e.p = 0 THEN e.s ELSE f.s,
                                           [comp EXCEPT !.page = IF e.p = 0 THEN @ ELSE e.p])
          ELSE /\ store' = f.s
               /\ comp' = [comp EXCEPT !.page = f.p, !.on = @ \cup {f.p}, !.ops = @ + 1,
                             !.outer = Append(@, [kind |-> "table", page |-> 0, left |-> n + 1])]
               /\ UNCHANGED <<mod, drv>>

\* One target: a page for the code that leads there ...
TargetOpen ==
  /\ Compiling /\ InTable /\ Top.left > 0
  /\ \E ok \in BOOLEAN :
       LET a == Acquire(store, comp.rt, Threshold, ok)
       IN IF a.p = 0 THEN Throw(a.s, comp)
          ELSE /\ store' = a.s
               /\ comp' = [comp EXCEPT !.outer[Len(comp.outer)].page = comp.page,
                             !.page = a.p]
               /\ UNCHANGED <<mod, drv>>

\* ... and its address in the table.
TargetClose ==
  /\ Compiling /\ InTarget
  /\ store' = EmitWords(Release(store, comp.rt, comp.page), Top.page, comp.fn, 1)
  /\ comp' = [comp EXCEPT !.page = Top.page, !.outer[Len(comp.outer)].page = 0,
                !.outer[Len(comp.outer)].left = @ - 1]
  /\ UNCHANGED <<mod, drv>>

TableClose ==
  /\ Compiling /\ InTable /\ Top.left = 0
  /\ comp' = Left(comp.page)
  /\ UNCHANGED <<store, mod, drv>>

\* The end of CompileFunction: the code is reachable from the function.  The copy of the
\* constants may still fail, with the function marked compiled: a lookup that fails so finds
\* the function compiled when the module exports it under the next name too.
CompileEnd ==
  /\ Compiling /\ comp.outer = <<>> /\ comp.rt = "main" /\ comp.ops > 0
  /\ \/ Throw(store, comp)
     \/ /\ store' = Release(store, "main", comp.page)
        /\ mod' = [mod EXCEPT !.code[comp.fn] = comp.on]
        /\ comp' = NoComp
        /\ \/ UNCHANGED drv
           \/ /\ drv.at = "find" /\ drv.names > 1
              /\ drv' = [drv EXCEPT !.names = @ - 1]

\* The end of EvaluateExpression: the expression has run and its pages go back at once.
ExprEnd ==
  /\ Compiling /\ comp.outer = <<>> /\ comp.rt = "tmp" /\ comp.ops > 0
  /\ store' = RuntimeRelease(Release(store, "tmp", comp.page), "tmp")
  /\ drv' = [drv EXCEPT !.exprs = @ - 1]
  /\ comp' = NoComp
  /\ UNCHANGED mod

(* ---- the driver ---- *)

At(a) == ~Compiling /\ drv.at = a

\* wasm_env_init_once, m3_NewRuntime and m3_ParseModule: any of them may fail, and then
\* nothing is left.  wasm_run_agent has one name to look for, wasm_run_bytes two.
Begin ==
  /\ At("idle")
  /\ \E start \in {"none", "due"}, n \in 0 .. MaxExprs, k \in 1 .. 2 :
       /\ drv' = [Idle EXCEPT !.at = "load", !.exprs = n, !.names = k]
       /\ mod' = [NoModule EXCEPT !.start = start, !.has = start = "due"]
  /\ UNCHANGED <<store, comp>>

\* m3_LoadModule: globals, data segments and elements evaluate their expressions in a
\* temporary runtime that shares the environment and the stack.
LoadExpr ==
  /\ At("load") /\ drv.exprs > 0
  /\ CompileBegin("expr", "tmp")

\* The memory cannot be had, a segment is out of bounds.
LoadFail ==
  /\ At("load")
  /\ Failed(store, 0)

Loaded ==
  /\ At("load") /\ drv.exprs = 0
  /\ drv' = [drv EXCEPT !.at = "link"]
  /\ UNCHANGED <<store, comp, mod>>

\* m3_LinkRawFunction compiles a four-line stub for the import; the loader ignores its
\* result, and a module without the import has nothing to link.
Link ==
  /\ At("link")
  /\ drv' = [drv EXCEPT !.at = "find"]
  /\ \/ \E ok \in BOOLEAN :
          LET a == Acquire(store, "main", 4, ok)
          IN IF a.p = 0 THEN UNCHANGED <<store, mod>>
             ELSE /\ store' = Release(EmitWords(a.s, a.p, "host", 4), "main", a.p)
                  /\ mod' = [mod EXCEPT !.code["host"] = {a.p}]
     \/ UNCHANGED <<store, mod>>
  /\ UNCHANGED comp

\* m3_FindFunction: not there, or there and compiled now.
Find ==
  /\ At("find")
  /\ \/ Failed(store, 0)
     \/ mod.code["step"] = {} /\ CompileBegin("step", "main")
     \/ /\ mod.code["step"] # {}
        /\ drv' = [drv EXCEPT !.at = "call"]
        /\ UNCHANGED <<store, comp, mod>>

\* m3_CallV runs the start function first (m3_RunStart) when it is still due.
Call ==
  /\ At("call") /\ drv.run = "none"
  /\ IF mod.start = "due"
     THEN \/ mod.code["init"] = {} /\ CompileBegin("init", "main")
          \/ /\ mod.code["init"] # {}
             /\ drv' = [drv EXCEPT !.run = "init"]
             /\ mod' = [mod EXCEPT !.start = "none"]
             /\ UNCHANGED <<store, comp>>
     ELSE /\ drv' = [drv EXCEPT !.run = "step"]
          /\ UNCHANGED <<store, comp, mod>>

\* op_Compile: a callee is compiled when it is first called, under the running code.  A call
\* of an import that was not linked ends here too: "function body is missing".
Callee ==
  /\ At("call") /\ drv.run # "none" /\ mod.code["aux"] = {}
  /\ CompileBegin("aux", "main")

RunEnd ==
  /\ At("call") /\ drv.run # "none"
  /\ IF drv.run = "init"
     THEN /\ drv' = [drv EXCEPT !.run = "none"]
          /\ mod' = [mod EXCEPT !.inits = @ + 1]
          /\ UNCHANGED <<store, comp>>
     ELSE FreeRuntime(store)

Trap ==
  /\ At("call")
  /\ Failed(store, 0)

RuntimeInit ==
  /\ store = [page |-> [p \in Pages |-> [line |-> 0, code |-> {}]], made |-> 0,
              lost |-> {}, released |-> <<>>, rt |-> [r \in {"main", "tmp"} |-> Fresh]]
  /\ comp = NoComp /\ mod = NoModule /\ drv = Idle
RuntimeNext ==
  \/ CompileOp \/ CompileError \/ ElseOpen \/ ElseClose \/ TableOpen \/ TargetOpen
  \/ TargetClose \/ TableClose \/ CompileEnd \/ ExprEnd
  \/ Begin \/ LoadExpr \/ LoadFail \/ Loaded \/ Link \/ Find \/ Call \/ Callee \/ RunEnd \/ Trap
RuntimeSpec == RuntimeInit /\ [][RuntimeNext]_runtimeVars

(* ---- properties ---- *)

\* The pages a compilation holds: the one it writes to and the ones it will come back to.
Saved == {i \in DOMAIN comp.outer : comp.outer[i].page # 0}
Held == IF ~Compiling THEN {} ELSE {comp.page} \cup {comp.outer[i].page : i \in Saved}
NumHeld == IF ~Compiling THEN 0 ELSE 1 + Cardinality(Saved)
Listed == store.released \o store.rt["main"].open \o store.rt["main"].full
            \o store.rt["tmp"].open \o store.rt["tmp"].full

\* A code page is in one place: released to the environment, open or full in one runtime, or
\* held by the compilation, whatever failed before.  The pages that are nowhere are the ones
\* that an error inside a br_table target left behind ("can get lost if thrown"), and the
\* counts of ReleaseCodePage's assertion (m3_env.c) agree with the lists, the pages lost since
\* the runtime was made counted as active for as long as it lives.
PagesPlaced ==
  /\ Len(Listed) + NumHeld = Cardinality(Range(Listed) \cup Held)
  /\ Range(Listed) \cup Held = 1 .. store.made \ store.lost
  /\ \A r \in DOMAIN store.rt :
       LET rt == store.rt[r]
       IN /\ rt.num = Len(rt.open) + Len(rt.full) + rt.active
          /\ rt.active = (IF Compiling /\ comp.rt = r THEN NumHeld ELSE 0)
                          + (IF r = "main" THEN drv.gone ELSE 0)

\* What Runtime_Release asserts of the runtime it frees (m3_env.c, numActiveCodePages == 0),
\* where no compilation fails in the same step.
ReleasedWhole ==
  [][~Compiling /\ drv.at # "idle" /\ drv'.at = "idle" => store.rt["main"].active = 0]_runtimeVars

\* Code that can be called stays where it was emitted until its runtime is freed: no page
\* under it is reset, written past its end or given to another runtime, also when the error
\* in the lookup of "start" left it behind; and the compilation can always bridge out of the
\* page it is in (the assertion of EnsureCodePageNumLines).
CodeKept ==
  /\ \A f \in Funcs : \A p \in mod.code[f] :
       /\ f \in store.page[p].code
       /\ p \in Range(store.rt["main"].open \o store.rt["main"].full) \cup Held \cup store.lost
  /\ \A p \in Pages : store.page[p].line <= PageLines
  /\ \A p \in Held : NumFreeLines(store, p) >= 2

\* The start function has run, once, when the exported function begins (m3_CallV); a module
\* without one runs none.
StartFirst ==
  /\ mod.inits <= 1
  /\ drv.run = "step" => mod.inits = IF mod.has THEN 1 ELSE 0

\* Whatever is called is there, whole, and called in the module's order.
CallsSound == CodeKept /\ StartFirst
=============================================================================
