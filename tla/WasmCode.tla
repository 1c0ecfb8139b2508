------------------------------ MODULE WasmCode ------------------------------
(***************************************************************************)
(* The WASM compiler that the kernel runs for every agent, from            *)
(* kernel/lib/wasm3/m3_compile.c, and the operations it emits, from        *)
(* m3_exec.h.  The compiler keeps no operand stack at run time: it decides *)
(* for every operand whether it lives in the register r0 or fp0, in a slot *)
(* of the frame, in the slot of a local, or in the constant table.  The    *)
(* question is whether every operation finds its operands.                 *)
(*                                                                         *)
(* Compilation is one pass, so the module follows one execution of the     *)
(* code while it is being emitted: an operation runs as it is emitted,     *)
(* next to a reference machine with the operand stack and the locals of    *)
(* the WASM specification.  A branch that the execution takes parks it     *)
(* until the code it jumps to is emitted; TLC tries every choice.  A jump  *)
(* back to a loop ends the execution: what must hold there is that every   *)
(* operand is where the loop's code expects it.  A behaviour ends with the *)
(* execution it follows: the code after that point is emitted all the same *)
(* in the behaviours whose execution was parked before.                    *)
(*                                                                         *)
(* The programs are valid: the actions offer an instruction only where its *)
(* operands are on the stack.  A value is a number, Junk when nobody knows *)
(* it.  A wide value fills an even slot and the one after it.              *)
(***************************************************************************)
EXTENDS Integers, Sequences, FiniteSets, FiniteSetsExt, SequencesExt

CONSTANTS NSlots,       \* d_m3MaxFunctionSlots, large enough for the bounds of Mixes
          Rets,         \* result types of the function
          Args,         \* types of its arguments
          Locals,       \* types of its locals
          NConst,       \* slots that ReserveConstants set aside
          Literals,     \* the constants that programs use
          Mixes         \* what programs are made of: the instructions they use, their
                        \* types, and bounds on the operand stack and on nesting

ASSUME WasmAssumption ==
  /\ NSlots \in Nat /\ NConst \in Nat /\ Literals \subseteq 50 .. 99
  /\ \A m \in Mixes : m.stack \in Nat /\ m.depth \in Nat

Slot  == 0 .. (NSlots - 1)
R0    == -1                     \* d_m3Reg0SlotAlias
FP0   == -2                     \* d_m3Fp0SlotAlias
Junk  == 0
Hi(v) == IF v = Junk THEN Junk ELSE v + 100   \* the second word of a wide value

IsReg(s)   == s < 0
IsFp(t)    == t = "f64"
IsInt(t)   == t \in {"i32", "i64"}
Width(t)   == IF t \in {"i64", "f64"} THEN 2 ELSE 1     \* GetTypeNumSlots
Align(s, t) == IF Width(t) = 2 /\ s % 2 = 1 THEN s + 1 ELSE s
RegOf(t)   == IF IsFp(t) THEN FP0 ELSE R0
Words(s, t) == s .. (s + Width(t) - 1)

VARIABLES c,      \* the compilation, and the frame and registers of the execution
          ref,    \* the operand stack of the reference machine
          loc,    \* its locals
          wait,   \* where the execution is parked when it is not at the end of the code
          mix     \* the mix that the program is made of

wasmVars == <<c, ref, loc, wait, mix>>

NStatic == Len(Args) + Len(Locals)      \* stackFirstDynamicIndex
Types   == Args \o Locals
Top(x)  == Last(x.stk)
Scope(x) == Last(x.blocks)

-----------------------------------------------------------------------------
(* Operations as they execute                                              *)

Get(x, s, t) ==
  IF IsReg(s) THEN x.reg[s]
  ELSE IF Width(t) = 2 /\ x.slot[s+1] # Hi(x.slot[s]) THEN Junk ELSE x.slot[s]

\* Emit the write of v to slot or register s; it runs when the execution is here.
Put(x, s, t, v) ==
  LET y == IF IsReg(s) THEN x ELSE [x EXCEPT !.reach = Max({@, s + Width(t)})] IN
  IF ~x.here THEN y
  ELSE IF IsReg(s) THEN [y EXCEPT !.reg[s] = v]
  ELSE [y EXCEPT !.slot = [w \in Slot |-> IF w = s THEN v
                                          ELSE IF w \in Words(s, t) THEN Hi(v) ELSE @[w]]]

\* CopySlot or SetSlot: the operand at stack index i goes to slot s.
CopyTo(x, s, i) == LET e == x.stk[i] IN Put(x, s, e.type, Get(x, e.slot, e.type))

\* Record when an operation reads something other than its operand.
Expect(x, s, t, v) == IF x.here /\ Get(x, s, t) # v THEN [x EXCEPT !.fault = TRUE] ELSE x

-----------------------------------------------------------------------------
(* Slots, registers and the compile-time stack                             *)

\* MarkSlotsAllocated sets the count, whatever it was.
Mark(x, s, t) ==
  [x EXCEPT !.cnt = [w \in Slot |-> IF w \in Words(s, t) THEN 1 ELSE @[w]],
            !.max = Max({@, s + Width(t)})]

\* AllocateSlots: the first free, aligned run from the first dynamic slot.
FreeSlot(x, t) ==
  Min({s \in Slot : /\ s >= x.dyn /\ s = Align(s, t) /\ s + Width(t) <= NSlots
                    /\ \A w \in Words(s, t) : x.cnt[w] = 0})

Release(x, e) ==
  IF IsReg(e.slot) THEN [x EXCEPT !.regAt[e.slot] = 0]
  ELSE IF e.slot < x.dyn THEN x
  ELSE [x EXCEPT !.cnt = [w \in Slot |-> IF w \in Words(e.slot, e.type) THEN (@[w] - 1) % 256 ELSE @[w]]]

Push(x, t, s) ==
  LET y == [x EXCEPT !.stk = Append(@, [slot |-> s, type |-> t])]
  IN IF IsReg(s) THEN [y EXCEPT !.regAt[s] = Len(y.stk)] ELSE y

PushAllocated(x, t) == LET s == FreeSlot(x, t) IN Push(Mark(x, s, t), t, s)
PushRegister(x, t) == Push(x, t, RegOf(t))
Pop(x) == Release([x EXCEPT !.stk = Front(@)], Top(x))
PopN(x, n) == FoldLeft(LAMBDA y, i : Pop(y), x, [i \in 1 .. n |-> i])

\* UnwindBlockStack
Unwind(x) == PopN(x, Len(x.stk) - Scope(x).base)
SetPolymorphic(x) == Unwind([x EXCEPT !.blocks[Len(x.blocks)].poly = TRUE])

\* PreserveRegisterIfOccupied: whoever is in the register moves to a slot.
MovedOut(x, r, i, s) ==
  LET t == x.stk[i].type
  IN Put([Mark(x, s, t) EXCEPT !.regAt[r] = 0, !.stk[i].slot = s], s, t, x.reg[r])
Preserve(x, t) ==
  LET r == RegOf(t)
      i == x.regAt[r]
  IN IF i = 0 THEN x ELSE MovedOut(x, r, i, FreeSlot(x, x.stk[i].type))

PreserveRegisters(x) == Preserve(Preserve(x, "f64"), "i64")
PreserveNonTop(x) ==
  LET p(y, t) == IF y.regAt[RegOf(t)] # Len(y.stk) THEN Preserve(y, t) ELSE y
  IN p(p(x, "i64"), "f64")

\* CopyStackTopToRegister without an update of the stack.
TopToRegister(x) ==
  LET e == Top(x) IN Put(x, RegOf(e.type), e.type, Get(x, e.slot, e.type))
CopyTopToRegister(x) ==
  IF IsReg(Top(x).slot) THEN x ELSE TopToRegister(Preserve(x, Top(x).type))

\* FindReferencedLocalWithinCurrentBlock: every operand of the scope that is an
\* alias of the local is redirected to one new slot.  IncrementSlotUsageCount
\* counts them in its first word only.
ScopeStart(x) ==
  LET outer == {b \in DOMAIN x.blocks : x.blocks[b].op # "block"} IN x.blocks[Max(outer)].base
Aliases(x, s) == {i \in (ScopeStart(x) + 1) .. Len(x.stk) : x.stk[i].slot = s}

\* Mutant: a slot that several operands share is counted once.
Redirected_Once(x, s, p) ==
  [Mark(x, p, x.stk[Min(Aliases(x, s))].type) EXCEPT
     !.stk = [i \in DOMAIN @ |-> IF i \in Aliases(x, s) THEN [@[i] EXCEPT !.slot = p] ELSE @[i]]]

Redirected(x, s, p) ==
  LET t == x.stk[Min(Aliases(x, s))].type
      y == Mark(x, p, t)
  IN [y EXCEPT !.cnt[p] = Cardinality(Aliases(x, s)),
               !.stk = [i \in DOMAIN @ |-> IF i \in Aliases(x, s)
                                           THEN [@[i] EXCEPT !.slot = p] ELSE @[i]]]

\* PreserveArgsAndLocals, before a block opens.
PreserveLocals(x) ==
  FoldLeft(LAMBDA y, i :
             LET s == y.stk[i].slot
                 p == FreeSlot(y, Types[i])
             IN IF Aliases(y, s) = {} THEN y
                ELSE Put(Redirected(y, s, p), p, Types[i], Get(y, s, Types[i])),
           x, [i \in 1 .. NStatic |-> i])

\* PushConst: an equal constant of the table, a new one, or an inline constant.
\* op_Entry filled the table, so a new constant is already in its slot unless
\* something has written there since.
SameConst(x, t, k) ==
  {s \in Slot : /\ s >= x.const /\ s + Width(t) <= x.cmax
                /\ s = IF Width(t) = 2 THEN Align(s, t) ELSE s
                /\ \A w \in Words(s, t) : x.cnt[w] # 0
                /\ x.table[s] = k /\ (Width(t) = 2 => x.table[s+1] = Hi(k))}
FreeConst(x, t) ==
  {s \in Slot : /\ s >= x.const /\ s + Width(t) <= x.dyn /\ s = Align(s, t)
                /\ \A w \in Words(s, t) : x.cnt[w] = 0}
Tabled(x, s, t, k) ==
  LET word(w) == IF w = s THEN k ELSE Hi(k)
      put(f, g) == [w \in Slot |-> IF w \in Words(s, t) /\ g[w] = Junk THEN word(w) ELSE f[w]]
  IN [x EXCEPT !.table = put(@, x.table), !.slot = put(@, x.slot),
               !.cmax = Max({@, s + Width(t)})]
PushConst(x, t, k) ==
  IF SameConst(x, t, k) # {} THEN Push(x, t, Min(SameConst(x, t, k)))
  ELSE IF FreeConst(x, t) # {}
       THEN LET s == Min(FreeConst(x, t)) IN Push(Tabled(Mark(x, s, t), s, t, k), t, s)
  ELSE LET y == PushAllocated(x, t) IN Put(y, Top(y).slot, t, k)

-----------------------------------------------------------------------------
(* Results of blocks and of the function                                   *)

\* CopyStackSlotsR: the operands from index i on go to the slots that the
\* records from index r on name.  An operand in the way of a copy is first
\* moved to a temporary slot; the stack is put back at the end.
Collides(x, i, j, r) ==
  LET t == x.stk[r].slot
      o == x.stk[j].slot
      w == Width(x.stk[i].type)
  IN t \in {o, o + Width(x.stk[j].type) - 1} \/ t + w - 1 = o

\* Mutant: the temporary slot is not counted into the frame.
CopyOne_NoFrame(x, i, r, tmp) ==
  LET target == x.stk[r].slot
      hit == {j \in (i + 1) .. Len(x.stk) : Collides(x, i, j, r)}
      y   == IF hit = {} THEN x ELSE [CopyTo(x, tmp, Min(hit)) EXCEPT !.stk[Min(hit)].slot = tmp]
  IN IF target = x.stk[i].slot THEN [x |-> x, tmp |-> tmp]
     ELSE [x |-> CopyTo(y, target, i), tmp |-> IF hit = {} THEN tmp ELSE tmp + 2]

CopyOne(x, i, r, tmp) ==
  LET target == x.stk[r].slot
      hit == {j \in (i + 1) .. Len(x.stk) : Collides(x, i, j, r)}
      j   == Min(hit)
      y   == IF hit = {} THEN x
             ELSE [CopyTo(x, tmp, j) EXCEPT !.stk[j].slot = tmp, !.max = Max({@, tmp + 2})]
  IN IF target = x.stk[i].slot THEN [x |-> x, tmp |-> tmp]
     ELSE [x |-> CopyTo(y, target, i), tmp |-> IF hit = {} THEN tmp ELSE tmp + 2]
CopySlots(x, r, first, n) ==
  LET end == FoldLeft(LAMBDA a, i : CopyOne(a.x, first + i, r + i, a.tmp),
                      [x |-> x, tmp |-> Align(x.max, "i64")], [i \in 1 .. n |-> i])
  IN [end.x EXCEPT !.stk = x.stk]

\* ResolveBlockResults for the scope b: an fp result on top goes to fp0.
Resolve(x, b, branch) ==
  LET isLoop == b.op = "loop" /\ branch
      n   == IF isLoop THEN Len(b.type.params) ELSE Len(b.type.results)
      r   == IF isLoop THEN b.exit ELSE b.exit + Len(b.type.params)
      fp  == ~isLoop /\ IsFp(Top(x).type)
      y   == IF fp THEN CopyTopToRegister(x) ELSE x
      m   == IF fp THEN n - 1 ELSE n
  IN IF n = 0 THEN x
     ELSE LET z == CopySlots([y EXCEPT !.stk = IF fp THEN Front(@) ELSE @],
                             r, Len(x.stk) - n, m)
          IN [z EXCEPT !.stk = y.stk]

\* ReturnValues: the results go to the first slots of the frame.
ReturnSlot(i) == (i - 1) * 2
Return(x) ==
  FoldLeft(LAMBDA y, i : CopyTo(y, ReturnSlot(i), Len(x.stk) - Len(Rets) + i),
           x, [i \in 1 .. Len(Rets) |-> i])

\* PushBlockResults
PushResults(x, bt) ==
  FoldLeft(LAMBDA y, i : IF i = Len(bt.results) /\ IsFp(bt.results[i])
                         THEN PushRegister(y, bt.results[i])
                         ELSE PushAllocated(y, bt.results[i]),
           x, [i \in DOMAIN bt.results |-> i])

\* The operands of the program are the dynamic entries that are no record of
\* an open block.
LiveIdx(x) == {i \in (NStatic + 1) .. Len(x.stk) :
                 \A b \in 2 .. Len(x.blocks) : ~(x.blocks[b].exit < i /\ i <= x.blocks[b].base)}

\* CompileBlock up to its statements.  The parameters are popped, kept as
\* records, the result slots are found and released, and the parameters are
\* pushed again; their slots are marked whatever their count.  An else block
\* starts with the parameters already released.
WithResults(x, y, bt) ==
  [PushResults([y EXCEPT !.stk = x.stk], bt) EXCEPT !.cnt = y.cnt, !.regAt = y.regAt]
PushAgain(x, exit, bt) ==
  FoldLeft(LAMBDA y, i : LET s == x.stk[exit + i].slot
                             t == bt.params[i]
                         IN IF s >= x.dyn THEN Mark(Push(y, t, s), s, t) ELSE Push(y, t, s),
           x, [i \in DOMAIN bt.params |-> i])
Scoped(x, y, scope) ==
  [PushAgain(y, scope.exit, scope.type) EXCEPT !.blocks =
     Append(@, [op |-> scope.op, exit |-> scope.exit, base |-> Len(y.stk), type |-> scope.type,
                poly |-> Scope(x).poly, h |-> Cardinality(LiveIdx(x)) - Len(scope.type.params),
                head |-> <<>>])]
Open(x, bt, op) ==
  LET n == Len(bt.params)
      y == IF op = "else" THEN [x EXCEPT !.stk = SubSeq(@, 1, Len(@) - n)] ELSE PopN(x, n)
  IN Scoped(x, WithResults(x, y, bt), [op |-> op, exit |-> Len(x.stk) - n, type |-> bt])

\* CompileBlock after its statements.  last is the opcode that ended them.
Closed(x, b, last) ==
  [(IF b.op = "if" \/ last = "else" THEN x
    ELSE PushResults([x EXCEPT !.stk = SubSeq(@, 1, b.exit)], b.type)) EXCEPT !.blocks = Front(@)]
Close(x, last) ==
  Closed(Unwind(IF Scope(x).poly THEN x ELSE Resolve(x, Scope(x), FALSE)), Scope(x), last)

-----------------------------------------------------------------------------
(* CompileFunction: the frame is results, arguments, locals, constants and *)
(* then the slots the compiler allocates.                                  *)

Blank == [stk |-> <<>>, cnt |-> [w \in Slot |-> 0], max |-> 0, reach |-> 0,
          dyn |-> 0, const |-> 0, cmax |-> 0, table |-> [w \in Slot |-> Junk],
          regAt |-> [r \in {R0, FP0} |-> 0], blocks |-> <<>>,
          slot |-> [w \in Slot |-> Junk], reg |-> [r \in {R0, FP0} |-> Junk],
          here |-> TRUE, fault |-> FALSE, done |-> FALSE]

Frame ==
  LET rets == [Blank EXCEPT !.cnt = [w \in Slot |-> IF w < 2 * Len(Rets) THEN 1 ELSE 0],
                            !.dyn = 2 * Len(Rets)]
      args == FoldLeft(LAMBDA y, t : [PushAllocated(y, t) EXCEPT !.dyn = @ + 2], rets, Args)
      locals == FoldLeft(PushAllocated, args, Locals)
      used  == {w \in Slot : locals.cnt[w] # 0}
      const == Max({args.dyn} \cup {w + 1 : w \in used})
      dyn   == const + NConst + (NConst % 2)
      scope == [op |-> "func", exit |-> NStatic, base |-> NStatic, poly |-> FALSE,
                type |-> [params |-> <<>>, results |-> Rets], h |-> 0, head |-> <<>>]
  IN [locals EXCEPT !.const = const, !.cmax = const, !.dyn = dyn,
                     !.max = dyn, !.blocks = <<scope>>]

\* op_Entry: arguments and locals are in their slots, the registers are clear.
\* Locals start with numbers of their own, to be told apart.
Entry(x) == FoldLeft(LAMBDA y, i : Put(y, y.stk[i].slot, Types[i], i), x,
                     [i \in 1 .. NStatic |-> i])

WasmInit ==
  /\ c = [Entry(Frame) EXCEPT !.reach = 0]
  /\ loc = [i \in 1 .. NStatic |-> i]
  /\ ref = <<>>
  /\ wait = [for |-> "nothing", at |-> 0]
  /\ mix \in Mixes

-----------------------------------------------------------------------------
(* Instructions                                                            *)

\* The highest slot that the last instruction wrote outside the frame.
Beyond(x) == IF x.reach > x.max THEN x.reach ELSE 0

\* What nobody holds is junk from here on.
Wiped(x) ==
  IF ~x.here THEN [x EXCEPT !.reach = Beyond(x)]
  ELSE [x EXCEPT !.reach = Beyond(x),
                 !.slot = [w \in Slot |-> IF w >= x.dyn /\ x.cnt[w] = 0 THEN Junk ELSE @[w]],
                 !.reg  = [r \in {R0, FP0} |-> IF x.regAt[r] = 0 THEN Junk ELSE @[r]]]

\* A value that is nowhere else.
New == Min((1 .. 49) \ (Range(ref) \cup Range(loc) \cup Range(c.slot) \cup Range(c.reg)))

Rest(n) == SubSeq(ref, 1, Len(ref) - n)
Operand(n, i) == ref[Len(ref) - n + i]        \* the i-th of the top n
Room == Cardinality(LiveIdx(c)) < mix.stack

Has(x, ts) ==
  /\ Len(x.stk) - Scope(x).base >= Len(ts)
  /\ \A i \in DOMAIN ts : x.stk[Len(x.stk) - Len(ts) + i].type = ts[i]

\* The reference machine pops n operands and pushes the values vs.
Advance(x, n, vs) ==
  /\ ~c.done
  /\ c' = Wiped(x)
  /\ ref' = IF c.here THEN Rest(n) \o vs ELSE ref
  /\ UNCHANGED <<loc, wait>>

\* The emitted operation reads the top n operands.
Reads(x, n) ==
  FoldLeft(LAMBDA y, i : LET e == x.stk[Len(x.stk) - n + i]
                         IN Expect(y, e.slot, e.type, Operand(n, i)),
           x, [i \in 1 .. n |-> i])
InRegister(x, n) == \E i \in (Len(x.stk) - n + 1) .. Len(x.stk) : IsReg(x.stk[i].slot)

Const(t, k) == Room /\ Advance(PushConst(c, t, k), 0, <<k>>)

GetLocal(i) == Room /\ Advance(Push(c, Types[i], c.stk[i].slot), 0, <<loc[i]>>)

\* Mutant: operands that are aliases of the local are left where they are.
Assigned_Shared(x, i) == CopyTo(x, x.stk[i].slot, Len(x.stk))

\* Compile_SetLocal, also for local.tee: operands that are aliases of the local
\* keep its old value in a slot of their own.
Assigned(x, i) ==
  LET s == x.stk[i].slot
      p == FreeSlot(x, Types[i])
      y == IF Aliases(x, s) = {} THEN x
           ELSE Put(Redirected(x, s, p), p, Types[i], Get(x, s, Types[i]))
  IN CopyTo(y, s, Len(y.stk))
SetLocal(i, tee) ==
  LET y == Assigned(c, i) IN
  /\ ~c.done /\ Has(c, <<Types[i]>>)
  /\ c' = Wiped(IF tee THEN y ELSE Pop(y))
  /\ loc' = IF c.here THEN [loc EXCEPT ![i] = Last(ref)] ELSE loc
  /\ ref' = IF c.here /\ ~tee THEN Rest(1) ELSE ref
  /\ UNCHANGED wait

\* op_GetGlobal and op_SetGlobal: a global's value goes to a slot and comes from
\* wherever the operand is.
ReadGlobal(x, t) == Put(x, Top(x).slot, t, New)
WriteGlobal(x) == Pop(Reads(x, 1))
GetGlobal(t) == Room /\ Advance(ReadGlobal(PushAllocated(c, t), t), 0, <<New>>)
SetGlobal == Len(c.stk) > Scope(c).base /\ Advance(WriteGlobal(c), 1, <<>>)

Drop == Len(c.stk) > Scope(c).base /\ Advance(Pop(c), 1, <<>>)

\* Compile_Operator: operands in a register are consumed there; otherwise
\* whoever is in the result's register moves out.
Readied(x, sig) ==
  LET y == IF IsFp(Top(x).type) /\ IsInt(sig.out) THEN Preserve(x, sig.out) ELSE x
  IN IF InRegister(y, Len(sig.in)) THEN y ELSE Preserve(y, sig.out)

\* The result of an arithmetic operation is in the register of its type.
Computed(x, t) == PushRegister(Put(x, RegOf(t), t, New), t)
Operated(x, sig) == Computed(PopN(Reads(x, Len(sig.in)), Len(sig.in)), sig.out)

Operator(sig) ==
  Has(c, sig.in) /\ Advance(Operated(Readied(c, sig), sig), Len(sig.in), <<New>>)

\* Compile_Load_Store.  An access out of bounds traps, which ends the execution
\* as unreachable does.
Loaded(x, t) == PushRegister(Put(Pop(Reads(x, 1)), RegOf(t), t, New), t)
Stored(x) == PopN(Reads(x, 2), 2)
LoadStore(sig) ==
  LET x == Readied(IF IsFp(sig.out) THEN Preserve(c, "f64") ELSE c, sig) IN
  /\ Has(c, sig.in)
  /\ IF sig.out = "none" THEN Advance(Stored(x), 2, <<>>)
                         ELSE Advance(Loaded(x, sig.out), 1, <<New>>)

\* Compile_Convert: the result goes to a slot when its register is taken.
Converted(x, t) == Put(x, Top(x).slot, t, New)
Convert(sig) ==
  LET taken == c.regAt[RegOf(sig.out)] # 0
      x == Pop(Reads(c, 1))
      y == IF taken THEN PushAllocated(x, sig.out) ELSE PushRegister(x, sig.out)
  IN Has(c, sig.in) /\ Advance(Converted(y, sig.out), 1, <<New>>)

\* Compile_Select: condition on top of the two values.
Selected(x, t) == PushRegister(Put(PopN(Reads(x, 3), 3), RegOf(t), t, New), t)
Select(t) ==
  LET held == IF IsFp(t) THEN InRegister([c EXCEPT !.stk = Front(@)], 2) ELSE InRegister(c, 3)
      x == IF held THEN c ELSE Preserve(c, t)
  IN Has(c, <<t, t, "i32">>) /\ Advance(Selected(x, t), 3, <<New>>)

MemorySize == LET x == Preserve(c, "i32") IN
  Room /\ Advance(PushRegister(Put(x, R0, "i32", New), "i32"), 0, <<New>>)

\* Compile_Memory_Grow and Compile_Memory_CopyFill read their last operand in r0.
Grown(x) == PushRegister(Put(Pop(Expect(x, R0, "i32", Last(ref))), R0, "i32", New), "i32")
MemoryGrow == Has(c, <<"i32">>) /\ Advance(Grown(CopyTopToRegister(c)), 1, <<New>>)
CopyFilled(x) == PopN(Reads(Expect(x, R0, "i32", Last(ref)), 3), 3)
MemoryCopyFill ==
  Has(c, <<"i32", "i32", "i32">>) /\ Advance(CopyFilled(CopyTopToRegister(c)), 3, <<>>)

-----------------------------------------------------------------------------
(* Calls                                                                   *)

\* Mutant: the callee's frame starts at the first dynamic slot.
CallFrame_Low(x) == Align(Max({1, x.dyn}), "i64")

\* CompileCallArgsAndReturn and op_Call: the callee's frame starts above every
\* slot in use, results first, then arguments.  It may write all of its frame;
\* the registers are the caller's own.
CallFrame(x) ==
  LET used == {w \in Slot : w >= x.dyn /\ x.cnt[w] # 0}
  IN Align(Max({1, x.dyn} \cup {w + 1 : w \in used}), "i64")
\* op_Call and op_CallIndirect: whoever is called may write everything from f on.
Ran(x, f) == IF ~x.here THEN x
             ELSE [x EXCEPT !.slot = [w \in Slot |-> IF w >= f THEN Junk ELSE @[w]]]
Called(x, f, n, sig) ==
  LET at(i) == f + 2 * (Len(sig.rets) + i - 1)
      copied == FoldLeft(LAMBDA y, i : [CopyTo(y, at(i), Len(x.stk) - Len(sig.args) + i)
                                          EXCEPT !.reach = y.reach],
                         x, [i \in DOMAIN sig.args |-> i])
      read == FoldLeft(LAMBDA y, i : Expect(y, at(i), sig.args[i], Operand(n, i)),
                       copied, [i \in DOMAIN sig.args |-> i])
      ret(y, i) == LET s == f + 2 * (i - 1)
                       t == sig.rets[i]
                   IN Mark(Put(Push(y, t, s), s, t, New), s, t)
  IN FoldLeft(ret, PopN(Ran(read, f), Len(sig.args)), [i \in DOMAIN sig.rets |-> i])
\* The compiler does not check that the frame of a call ends below NSlots, and a
\* call whose argument is a call's result starts higher each time: a bound.
FrameFits(x, sig) == CallFrame(x) + 2 * (Len(sig.args) + Len(sig.rets)) + 4 <= NSlots
\* The results, in the first slots of the callee's frame; a host function gets
\* there through op_CallRawFunction.
Returned(sig) == [i \in DOMAIN sig.rets |-> New]

Call(sig) ==
  /\ Has(c, sig.args) /\ FrameFits(c, sig) /\ (Room \/ Len(sig.args) >= Len(sig.rets))
  /\ Advance(Called(c, CallFrame(c), Len(sig.args), sig), Len(sig.args), Returned(sig))

\* Compile_CallIndirect: the table index is read from its slot after the
\* arguments were copied.
CallIndirect(sig) ==
  LET x == IF IsReg(Top(c).slot) THEN Preserve(c, "i32") ELSE c
      n == Len(sig.args) + 1
      index == Expect(x, Top(x).slot, "i32", Last(ref))
  IN /\ Has(c, Append(sig.args, "i32")) /\ FrameFits(x, sig)
     /\ Advance(Called(Pop(index), CallFrame(x), n, sig), n, Returned(sig))

-----------------------------------------------------------------------------
(* Control                                                                 *)

\* Every operand of the program and every local is where the stack x says.
LiveSeq(x) == SetToSortSeq(LiveIdx(x), LAMBDA i, j : i < j)
AgreesAt(x, stack, blocks, operands) ==
  LET idx == LiveSeq([x EXCEPT !.stk = stack, !.blocks = blocks]) IN
  /\ Len(operands) = Len(idx)
  /\ \A k \in DOMAIN idx : Get(x, stack[idx[k]].slot, stack[idx[k]].type) = operands[k]
  /\ \A i \in 1 .. NStatic : Get(x, stack[i].slot, Types[i]) = loc[i]

\* Compile_LoopOrBlock.  A loop's constant parameters get slots of their own, and
\* op_Loop clears the registers.
Instantiated(x, n) ==
  FoldLeft(LAMBDA y, i :
             LET e == y.stk[i]
                 s == FreeSlot(y, e.type)
             IN IF e.slot >= y.const /\ e.slot < y.cmax
                THEN [Mark(CopyTo(y, s, i), s, e.type) EXCEPT !.stk[i].slot = s] ELSE y,
           x, [k \in 1 .. n |-> Len(x.stk) - n + k])
LoopHead(x) == [x EXCEPT !.reg = [r \in {R0, FP0} |-> Junk]]
Begin(op, bt) ==
  LET x == PreserveLocals(PreserveRegisters(c))
      y == IF op = "loop"
           THEN LoopHead(Instantiated(x, Len(bt.params))) ELSE x
      z == Open(y, bt, op)
  IN /\ Len(c.blocks) <= mix.depth /\ Has(c, bt.params)
     /\ Advance([z EXCEPT !.blocks[Len(z.blocks)].head = z.stk], 0, <<>>)

\* The execution jumps forward to the end of the block at depth b, or on to
\* the else branch of the block at depth b.  Of its frame the code there can
\* find the operands below the block, its parameters and its results.
Keeps(x, b) == UNION {Words(e.slot, e.type) : e \in Range(SubSeq(x.stk, 1, x.blocks[b].base))}
Park(x, for, b) ==
  /\ wait' = [for |-> for, at |-> b]
  /\ c' = Wiped([x EXCEPT !.here = FALSE,
                          !.slot = [w \in Slot |-> IF w >= x.dyn /\ w \notin Keeps(x, b)
                                                   THEN Junk ELSE @[w]],
                          !.reg[R0] = Junk])

\* Compile_If: the execution enters the branch or waits for the else.
If(bt, taken) ==
  LET x == Pop(Reads(PreserveLocals(PreserveNonTop(c)), 1))
      y == Open(x, bt, "if")
  IN
  /\ Len(c.blocks) <= mix.depth
  /\ Has(c, Append(bt.params, "i32")) /\ (taken \/ c.here)
  /\ IF taken THEN Advance(y, 1, <<>>)
     ELSE ~c.done /\ Park(y, "else", Len(y.blocks)) /\ ref' = Rest(1) /\ UNCHANGED loc

\* The part before the else closes; what runs it waits for the end.
Resumes(for, x) == wait = [for |-> for, at |-> Len(x.blocks)]
ElseOpened(x, last) ==
  LET b == Scope(x)
      y == Close(x, last)
      z == [y EXCEPT !.stk = SubSeq(@, 1, b.exit + Len(b.type.params)),
                     !.here = Resumes("else", x)]
  IN Open(z, b.type, "else")
\* Where the execution is once the code before an else has ended.
AfterThen == IF c.here THEN [for |-> "end", at |-> Len(c.blocks)]
             ELSE IF Resumes("else", c) THEN [for |-> "nothing", at |-> 0] ELSE wait

BlockReady(x) == Scope(x).poly \/ (Has(x, Scope(x).type.results)
                                   /\ Len(x.stk) - Scope(x).base = Len(Scope(x).type.results))

Else ==
  /\ ~c.done /\ Scope(c).op = "if" /\ BlockReady(c)
  /\ c' = Wiped(ElseOpened(c, "else"))
  /\ wait' = AfterThen
  /\ UNCHANGED <<ref, loc>>

\* The end of a block: the branches to it are patched.  An if with results and
\* no else gets an empty else block.
End ==
  LET made == Scope(c).op = "if" /\ Scope(c).type.results # <<>>
      x == IF made THEN ElseOpened(c, "end") ELSE c
      w == IF made THEN AfterThen
           ELSE IF Scope(c).op = "if" /\ Resumes("else", c)
                THEN [for |-> "end", at |-> Len(c.blocks)] ELSE wait
      back == w = [for |-> "end", at |-> Len(c.blocks)]
  IN
  /\ ~c.done /\ Len(c.blocks) > 1 /\ BlockReady(c)
  /\ Scope(c).op = "if" => Scope(c).type.params = Scope(c).type.results
  /\ c' = Wiped([Close(x, "end") EXCEPT !.here = @ \/ back])
  /\ wait' = IF back THEN [for |-> "nothing", at |-> 0] ELSE w
  /\ UNCHANGED <<ref, loc>>

\* op_Return: the results are in the first slots; n operands above them are gone.
Checked(x, n) ==
  FoldLeft(LAMBDA y, i : Expect(y, ReturnSlot(i), Rets[i], Operand(Len(Rets) + n, i)),
           x, [i \in DOMAIN Rets |-> i])
Over(x) == [x EXCEPT !.here = FALSE, !.done = TRUE, !.reach = Beyond(x)]

\* Compile_End of the function.
FunctionEnd ==
  /\ ~c.done /\ Len(c.blocks) = 1 /\ BlockReady(c)
  /\ c' = Over(IF Scope(c).poly THEN c ELSE Checked(Return(c), 0))
  /\ UNCHANGED <<ref, loc, wait>>

\* The code of a branch to the block at depth b, as Compile_Branch and
\* Compile_BranchTable emit it; resolve tells whether operands are moved.
BranchCode(x, b, n, resolve) ==
  IF b = 1 THEN Checked(Return(x), n)
  ELSE IF resolve THEN Resolve(x, x.blocks[b], TRUE) ELSE x

\* What the execution finds at the target: the operands below the block and
\* the ones the branch carries.
Carried(b) == IF c.blocks[b].op = "loop" THEN Len(c.blocks[b].type.params)
              ELSE Len(c.blocks[b].type.results)
TargetTypes(b) == IF c.blocks[b].op = "loop" THEN c.blocks[b].type.params
                  ELSE c.blocks[b].type.results
RefAtTarget(b, n) ==
  SubSeq(ref, 1, c.blocks[b].h) \o SubSeq(ref, Len(ref) - n - Carried(b) + 1, Len(ref) - n)

\* The execution takes the branch that x has just emitted, with n operands of
\* the branch itself popped: back to a loop, out of the function, or parked.
Jump(x, b, n) ==
  LET s == x.blocks[b]
      home == AgreesAt(x, s.head, SubSeq(x.blocks, 1, b), RefAtTarget(b, n))
  IN
  /\ UNCHANGED loc
  /\ CASE b = 1 -> c' = Over(x) /\ UNCHANGED <<ref, wait>>
       [] b # 1 /\ s.op = "loop" ->
            c' = [Over(x) EXCEPT !.fault = @ \/ ~home] /\ UNCHANGED <<ref, wait>>
       [] OTHER -> Park(x, "end", b) /\ ref' = RefAtTarget(b, n)

\* Compile_Branch for br.  A branch to a loop moves no operand and leaves the
\* stack; the code after it is dead either way.
Branch(b) ==
  LET loop == b # 1 /\ c.blocks[b].op = "loop"
      x == IF Scope(c).poly THEN c ELSE BranchCode(c, b, 0, ~loop)
      y == IF loop THEN [x EXCEPT !.blocks[Len(x.blocks)].poly = TRUE]
           ELSE SetPolymorphic(x)
  IN
  /\ ~c.done /\ Has(c, TargetTypes(b))
  /\ IF c.here THEN Jump(y, b, 0) ELSE c' = Wiped(y) /\ UNCHANGED <<ref, loc, wait>>

\* Compile_Branch for br_if.  The code that moves operands runs only when the
\* branch is taken; what it does to the compiler's records stays.
BranchIf(b, taken) ==
  LET direct == b # 1 /\ c.blocks[b].op = "loop" /\ c.blocks[b].type.params = <<>>
      x == IF direct THEN LET y == CopyTopToRegister(c)
                          IN Pop(Expect(y, R0, "i32", Last(ref)))
           ELSE Pop(Reads(c, 1))
      goes == c.here /\ taken
      z == IF Scope(c).poly THEN x ELSE BranchCode([x EXCEPT !.here = goes], b, 1, TRUE)
  IN
  /\ ~c.done /\ Has(c, Append(TargetTypes(b), "i32")) /\ (taken => c.here)
  /\ IF goes THEN Jump(z, b, 1) ELSE Advance([z EXCEPT !.here = c.here], 1, <<>>)

\* Compile_BranchTable with one target and a default; every target has code of
\* its own.
BranchTable(b, d, default) ==
  LET x == Preserve(c, "i64")
      y == Pop(Reads(x, 1))
      code(z, t, goes) == IF Scope(c).poly THEN z
                          ELSE BranchCode([z EXCEPT !.here = goes], t, 1, TRUE)
      z1 == code(y, b, c.here /\ ~default)
      z2 == code(z1, d, c.here /\ default)
      w  == SetPolymorphic([z2 EXCEPT !.here = c.here])
  IN
  /\ ~c.done /\ Has(c, Append(TargetTypes(b), "i32")) /\ Has(c, Append(TargetTypes(d), "i32"))
  /\ IF c.here THEN Jump(w, IF default THEN d ELSE b, 1)
     ELSE ~default /\ c' = Wiped(w) /\ UNCHANGED <<ref, loc, wait>>

\* Compile_Return and Compile_Unreachable
ReturnOp ==
  /\ ~c.done /\ Has(c, Rets)
  /\ c' = IF c.here THEN Over(Checked(Return(c), 0))
          ELSE IF Scope(c).poly THEN c ELSE Wiped(SetPolymorphic(Return(c)))
  /\ UNCHANGED <<ref, loc, wait>>
Unreachable ==
  /\ ~c.done
  /\ c' = IF c.here THEN Over(c) ELSE SetPolymorphic(c)
  /\ UNCHANGED <<ref, loc, wait>>

Simple ==
  \/ \E t \in mix.consts, k \in Literals : Const(t, k)
  \/ \E i \in 1 .. NStatic : GetLocal(i) \/ SetLocal(i, TRUE) \/ SetLocal(i, FALSE)
  \/ \E t \in mix.globals : GetGlobal(t)
  \/ \E sig \in mix.operators : Operator(sig)
  \/ \E sig \in mix.memory : LoadStore(sig)
  \/ \E sig \in mix.converts : Convert(sig)
  \/ \E t \in mix.selects : Select(t)
  \/ Drop
  \/ "global.set" \in mix.uses /\ SetGlobal
  \/ "memory" \in mix.uses /\ (MemorySize \/ MemoryGrow \/ MemoryCopyFill)
  \/ \E sig \in mix.calls : Call(sig) \/ CallIndirect(sig)

Control ==
  \/ \E bt \in mix.blocks :
       \/ \E op \in mix.uses \cap {"block", "loop"} : Begin(op, bt)
       \/ "if" \in mix.uses /\ \E taken \in BOOLEAN : If(bt, taken)
  \/ Else \/ End \/ FunctionEnd
  \/ \E b \in DOMAIN c.blocks : Branch(b) \/ \E taken \in BOOLEAN : BranchIf(b, taken)
  \/ "br_table" \in mix.uses
       /\ \E b, d \in DOMAIN c.blocks, default \in BOOLEAN : BranchTable(b, d, default)
  \/ "return" \in mix.uses /\ (ReturnOp \/ Unreachable)

\* Every move of two results out of each other's way takes two slots more, for
\* good: a bound.
WasmNext == c.max + 6 <= NSlots /\ (Simple \/ Control) /\ UNCHANGED mix

WasmSpec == WasmInit /\ [][WasmNext]_wasmVars

-----------------------------------------------------------------------------
(* What compilation promises                                               *)

\* No operation, call, branch or return reads anything but its operands, and a
\* jump back to a loop leaves every operand where the loop's code expects it.
OperandsRight == ~c.fault

\* Wherever the execution is, every operand on the stack and every local has
\* the value the WASM specification gives it, at the place the compiler
\* recorded for it.
StackAgrees == c.here => AgreesAt(c, c.stk, c.blocks, ref)

\* The frame that op_Entry checks for contains every slot that is written.
FrameChecked == c.reach = 0

\* A slot is counted once for every operand that lives in it: the comment on
\* m3Slots says "contains allocation usage counts".
CountsRight ==
  \A w \in Slot : w >= c.dyn =>
    c.cnt[w] = Cardinality({i \in LiveIdx(c) : w \in Words(c.stk[i].slot, c.stk[i].type)})

=============================================================================
