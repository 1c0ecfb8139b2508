# ZENEDGE in TLA+

ZENEDGE is a small x86 kernel that runs a control loop against an environment on
a Linux host.  Kernel and host share one memory file (ivshmem): rings for
commands, responses, observations and actions, and a heap of blobs.  On the host
a bridge process (Python, or the older C one) answers commands; the gym agent is
the Python bridge with an environment in it.  Inside the kernel, jobs run under
contracts that ration pages and CPU time, and compute steps of a job graph are
offloaded to the bridge.  The policy that chooses the actions is a WASM agent,
compiled and run in the kernel by a copy of wasm3.

The modules here model the parts of that system which share state across
processes, are cut into by interrupts, or carry invariants across many calls.  TLC checks them on small
instances; for all but the compiler of the WASM agent, the IFR records and the pure algorithms
TLAPS proves the safety properties for every size (section 5).

All paths below are relative to the repository.

## 1. The parts of the system

| part | code | state | operations | what makes it correct |
|---|---|---|---|---|
| shared-memory rings | `kernel/ipc/ipc.c`, `bridge/stream.py`, `bridge/zenedge_bridge.py`, `tools/bridge/bridge.c` | `head`, `tail`, slots; each side's locals | push, pop | a FIFO queue without locks; no torn entry; survives a crash of either side |
| proxy driver and bridges | same files | both rings, the bridge's current command | `ipc_send`, `ipc_poll_response`, `ipc_irq_handler`, bridge main loops | no command executed twice (Python) or missed (C), every response accounted for (until the interrupt cuts into a poll) |
| shared blob heap | `kernel/ipc/heap.c`, `bridge/heap.py` | bitmap, `free_blocks`, `next_blob_id`, headers in the blocks, two private position caches | allocate, free, look up, on both sides | blobs disjoint, counter right, an id finds its blob; a blob can be given back (which the code does not guarantee when the kernel's table is full, section 6) |
| control loop, kernel | `kernel/kmain64.cpp` | position in the loop, current blob, stashed response, telemetry age, episode reward | observe, act, end of episode, poll telemetry | every action belongs to the latest observation; the loop goes on |
| control loop, host | `bridge/zenedge_gym_agent.py`, `bridge/handlers.py` | environment, pool of observation blobs, streaming flag | reset, step, streaming step, telemetry, persist, arbitrate | the pool stays whole; each command is answered |
| page allocator | `kernel/mm/pmm.c`, `kernel/zenedge_alloc.c` | bitmap, three free counters, NUMA boundary | allocate and free pages and runs | no page held twice, counters agree |
| contracts, admission | `kernel/contracts.c` | usage, violations and state per job | apply, charge, allocate, free, admit | charges match holdings; budgets and safe mode hold |
| job graph and its scheduler | `kernel/job/job_graph.c`, `kernel/sched/sched_core.c` | steps, dependencies, flags, ring contents | build, pick, run, offload, wait, complete | dependency order, each step once, the run ends |
| process scheduler | `kernel/sched/sched_core.c`, `arch/switch.s`, `arch/syscall.c` | ring of processes, quanta, `current_process`, saved contexts, page directory | `schedule` by call and by timer, yield, exit, link | a context is saved for the process that ran; everyone gets a turn |
| flight recorder | `kernel/trace/flightrec.c` | event ring, open spans | log, begin, end, last duration, statistics | the ring is the last events in order; a duration is that of the caller's own span |
| episode engine, mock GPU | `kernel/engine/episode.c`, `drivers/mock_gpu.c` | episode state, device | propose, tick | no clock that broke a guardrail stays in force; every episode ends |
| IFR records | `kernel/trace/ifr.c`, `kmain64.cpp` | head of the hash chain | build, verify, persist, arbitrate | what was built verifies |
| kernel heap | `kernel/mm/kheap.c` | list of headers in the heap | `kmalloc`, `kfree`, `krealloc` | blocks tile the heap, no neighbours both free, clients' data intact |
| address spaces | `kernel/mm/vmm.c`, `sched/process.c`, `arch/syscall.c` | directories, tables, frames, processes | create, destroy, map, unmap, `sys_map_tensor` | every frame has one owner; mapped tensors stay mapped |
| interrupts and timer | `kernel/arch/pic.c`, `pit.c` | masks, handlers, ticks | dispatch, EOI, mask, sleep | no line blocked by an earlier interrupt; a sleep lasts and ends |
| keyboard, console, shell | `kernel/arch/keyboard.c`, `console.c`, `shell.c` | key ring, screen, command line | key interrupt, poll, edit, print | keys in order, what was typed since the last output stands before the cursor |
| WASM agent: life cycle | `kernel/wasm_loader.c`, `lib/wasm3/m3_env.c`, `m3_code.c` | runtime, code pages, compiled functions | load, link, find, compile, call, free | every code page in one list; the start function first |
| WASM agent: parser | `lib/wasm3/m3_parse.c`, `m3_module.c`, `m3_function.c`, `m3_bind.c` | types, functions, globals, names | one section at a time, release | every string owned once; types unique |
| WASM agent: compiler | `lib/wasm3/m3_compile.c`, `m3_exec.h` | operand stack, slots, usage counts, registers, blocks | one per kind of instruction | emitted code finds its operands |
| decoding, division, hashing | `m3_core.c`, `lib/divdi3.c`, `lib/sha256.c` | none | LEB128, quotients, padding, signatures | equal to their references |
| kernel mesh, device discovery, boot, libc, host libraries | the rest | | | not modelled, see section 8 |

How they interact:

* The kernel calls `ipc_send` and polls `ipc_poll_response`; the host polls the
  command ring, dispatches one command at a time and pushes one response.
  A response carries the code of its command (`orig_cmd`), no number.
* Observations and actions go through two more rings when both sides find them
  initialised, and otherwise through heap blobs whose ids travel in responses
  and come back as acknowledgements in `CMD_ENV_STEP`.
* The kernel frees blobs the bridge allocated (telemetry) and the other way
  round, so both allocators work on one bitmap.
* `contract_alloc_page` calls the allocation layer, which calls `pmm`; denied
  requests feed the contract's own state machine.
* `sched_run_job` offloads a compute step with `CMD_RUN_MODEL` over the same
  rings and waits a bounded time, and brackets each step with a span of the
  flight recorder.
* The timer interrupt counts ticks, wakes the shell and sleepers, and calls
  `schedule`; the gate of system calls leaves interrupts on, so this may happen
  inside a `schedule` that a process has called.
* The end of an episode builds an IFR record, chained to the last, and asks the
  arbiter for the next model.
* wasm3 takes its memory from the kernel heap; an operation of running code may
  compile the function it is about to call (`op_Compile`).

What is hard in it: two processes and an interrupt work on shared words without
locks; either process may die between any two of them; responses are matched
loosely or not at all; a wait may give up just before its answer arrives; a
mutable resource (blob, page, pool entry) changes hands between programs that
each keep a private idea of where it is; an operation of many steps (a mapping, a
parse, a compilation) may fail at each of them with half of its resources taken.  `PROJECT.json` lists these hazards line
by line, with the properties that cover each.

## 2. Modules

| module | models | relation to others |
|---|---|---|
| `Fifo` | what a ring promises: an atomic bounded queue | abstract specification |
| `SpscRing` | push and pop, one memory access per step, with crashes | implements `Fifo` |
| `IpcChannel` | command and response rings with kernel, interrupt and bridge | uses the queue for the command ring; the response ring is word by word |
| `SharedHeap` | the two allocators over one heap | |
| `ControlLoop` | `kernel_main64` and the gym agent | uses queues for all four rings and the finding on headers of `SharedHeap` |
| `Governor`, `MCGovernor` | `pmm.c`, the allocation layer, `contracts.c` | `MCGovernor` adds the symmetry set for TLC |
| `Jobs` | `job_graph.c`, `sched_run_job` and the bridge's side of it | in `MCMainLoop`; rings as queues |
| `KHeap` | `kheap.c` | in `MCServices` |
| `AddressSpaces` | `vmm.c`, `process.c`, `sys_map_tensor` | in `MCServices` |
| `FlightRec` | `flightrec.c` | in `MCServices` |
| `WasmRuntime` | `wasm_loader.c`, the code pages and the life cycle of wasm3 | in `MCMainLoop` |
| `WasmParse` | `m3_ParseModule` and what it builds | in `MCServices` |
| `Inputs` | pure algorithms and their references | in `MCServices` |
| `Episode` | `episode.c` on `mock_gpu.c` | in `MCMainLoop` |
| `Interrupts` | `pic.c`, `pit.c`; the controllers are external | in `MCInterrupted` |
| `Terminal` | `keyboard.c`, `console.c`, `shell.c` | in `MCInterrupted`; of the two IPC rings it has the numbers of entries |
| `Processes` | `schedule`, `switch_to`, the system calls, the ring | in `MCInterrupted` |
| `WasmCode`, `MCWasm` | `m3_compile.c` and the operations of `m3_exec.h` | `MCWasm` holds the mixes of instructions |
| `Ifr` | `ifr.c` version 3 and its use in `kmain64.cpp` | refines the choice `IfrOk` of `ControlLoop` |
| `CommonLemmas` | facts about least elements, cardinalities, sequences, rings and iterated steps | extended by all proof modules |
| `IpcChannelProofs`, `ControlLoopProofs` | proofs about one module | each extends the module of its name |
| `SharedMemoryProofs` | proofs about what kernel and bridge share | extends `SpscRing`, `SharedHeap` |
| `MemoryProofs` | proofs about physical pages and who has them | extends `Governor`, `AddressSpaces` |
| `ServicesProofs` | proofs about services that run in one context | extends `Jobs`, `FlightRec`, `KHeap` |
| `WasmProofs` | proofs about parsing and running agents | extends `WasmParse`, `WasmRuntime` |
| `InterruptedProofs` | proofs about what interrupts cut into | extends `Episode`, `Interrupts`, `Processes`, `Terminal` |

`MCServices`, `MCMainLoop` and `MCInterrupted` put components that share no state side by
side: the variable `part` chooses the one a behaviour is about and the others keep their
initial state.  The first holds services that run in one context at a time, the second what
the kernel's main path runs to its end, the third what interrupts drive or cut into, the
last two with the fairness of each part.

Definitions keep the names of the code where possible, and `map` in
`PROJECT.json` gives the lines each stands for.  Definitions whose names contain
an underscore (`PushCheck_NoFullCheck`) are not part of any specification: each is
a plausible mistake in the definition that follows it, and `mutants` records which
property finds it.

### SpscRing
`head`, `tail` and `slots` are the ring's words.  The producer is `idle`, writes an
entry word by word (`write`), and then publishes; the consumer is `idle`, copies
word by word (`copy`), and then advances.  `PushFull` and `PopEmpty` are the early
returns.  `ProducerRestart` and `ConsumerRestart` lose a side's locals and keep the
ring, as a restarted process does.  The code has compiler barriers between entry
and index and no fences; the model's program order is what x86 gives (TSO, loads
and stores each in order).

### IpcChannel
`Send` is `ipc_send`.  `ipc_poll_response` is one step for each access it makes to the ring
(`ipc.c:352-381`): `PollHead`, `PollTail` or `PollEmpty` (the test compares the head in a local
with a tail read later), `PollFirst`, `PollSecond`, and `PollAdvance`, which stores the tail
after the local one.  Two words stand for the four of a response.  The interrupt and the bridge come
between any two of these; `IrqEnter`, `IrqDrain`, `IrqReturn` are `ipc_irq_handler`, and the
main context stands still meanwhile, which is why a poll inside the interrupt can be one
step.  `irqOn` says whether `ipc_init` found a usable interrupt.  `BridgePoll` to
`BridgeAdvance` are one turn of either bridge: the Python one advances the command tail as
it polls, the C one as its last statement; the check for a free slot, the two words and the
new head are steps of their own.  `BridgeRestart` kills and restarts it anywhere in between.

A response on the wire has no number; the model's words carry the number of the command they
answer, and 0 where there is none: a word nobody wrote, or words of two responses in one copy
(`Joined`).  `handled`, `taken` (what was consumed, by either context), `dropped` and `lost` are
histories, and `raced` says that the interrupt has consumed a response while the main context
was inside a poll.  From then on the poll may return a slot nobody wrote and put the tail
back (section 6), so `ResponsesKept` is about the time before.

### SharedHeap
Each kernel operation is one step (it updates the shared words in place).  A bridge
operation is several, one for each group of accesses to shared memory: control
block, bitmap, header, bitmap store, control store.  `Concurrent` says whether the
kernel runs in between.  `Concurrent = FALSE` is the common case, where the kernel
waits for the response of the command during which the bridge allocates.  It is not
the only case: `kmain64.cpp` sends a telemetry poll and in the same iteration may
free the previous telemetry blob, while the host handles the poll.  `hdr` holds the
headers that lie in the blocks, whether or not their blob is still in use: `heap_free`
leaves them there and `free_blob` wipes them, `FillData` overwrites what lay inside a
blob.  Searches go through `Stops`, the blocks a scan visits when it jumps over what
headers claim.

Three histories: `live` are the blobs handed out and not given back, `leaked` those their owner
has given back in vain, `entered` those the kernel has written into `blob_table`.  `heap_free`
of a blob that the table does not know returns without a word (`KFreeUnknown`), and
`free_blob` of one that it cannot find returns False, after which its caller may try again or
give up (`BFreeLost`).  So a set bit belongs to a blob in use or to a leaked one
(`BitsExplained`), and `FreeFinds` says for which blobs the search cannot fail: what the
kernel has entered it finds, and the bridge what it has allocated.

### ControlLoop
The kernel's position `kpc` names the place in `kernel_main64` it is at: waiting for
the reset (`reset`), for an observation (`obs`), in the done branch (`done`,
`persist`, `arb`), at the telemetry poll (`poll`), at the response check and the
freshness gate (`gate`), sending an action (`act`), and waiting for the step's
response (`step`).  `pend` is the response stashed by the telemetry check.  The host
handles a command (`Handle...`) and sends the response in a second step, so the
kernel can run in between; `StreamStep` is `process_stream_step`.  Observations are
numbered modulo `Span`.  In blob mode the kernel really reads the header of the
blob (section 6, the offset field), so it never sees `done` there; the model does the same.  The
kernel is the polling one: the interrupt's effect on responses is the subject of
`IpcChannel`.
`calm` selects behaviours in which no telemetry is polled and no handler fails; the
ordering properties are about those, because telemetry breaks them (section 6).
`PoolSound` and the types hold in all behaviours.

### Governor
`used`, `freePages` and `nodeFree` are the bitmap and the counters of `pmm.c`; `PageFor`
and `AllocPages` choose pages as the code's first-fit scans with NUMA fallback do.
When a run is asked for from one node and neither node has it, each node's search
falls back on the other's without end: `hung`.  `Apply`, `ChargeCpu`, `ChargeMemory`, `AllocPage`,
`AllocDenied`, `FreePage`, `Admit` are the functions of `contracts.c`.  A run across the
node boundary is subtracted from one node's counter and added back to two, so a
node's counter can drift; `MaxDrift` bounds that.

### Jobs
`AddStep` and `AddDep` build any graph, circular and repeated dependencies
included.  `Pick` to `Finish` are the loop of `sched_run_job` with `execute_step`;
`Timeout` is the wait that gave up.  The bridge takes commands and answers them at
any time, or never.

### KHeap
A unit of 16 bytes holds a header, a client's data or junk.  `Kmalloc` is the first-fit
scan with `Split`, `Kfree` marks and coalesces, the four `Krealloc...` actions are the
branches of `krealloc`.  Headers merged away stay in memory, and `KfreeAgain` frees a
pointer a client has freed before, which the code recognises by `magic` and `free` in
whatever lies there now.

### AddressSpaces
`pde` and `pte` are the directories and tables as they lie in frames; a frame just
allocated holds junk until it is cleared.  `Mapped` is `vmm_map_page`, with the table it
may have to make; `MappedRange` stops at the first page that fails and keeps the rest,
as the code does.  `CreateProcess` has each of its failures and what it gives back
there.  `curPd` is `current_pd_phys`, kept apart from the register `cr3`.

### FlightRec
`BeginSpan` takes the first free slot or returns the invalid handle 0; `EndSpan` does
nothing for a handle that is not active.  `logged` is the history of all events, against
which the ring is compared.

### WasmRuntime
A behaviour is any number of agents one after the other over one environment.  Compiling
is a sequence of steps on the page it writes to: `CompileOp` emits, bridging to another
page when the rest is too short, `ElseOpen` and `TargetOpen` switch to a page of their
own, `Throw` unwinds all of them.  `op_Compile` starts a compilation while the code of
the caller runs.  The driver's positions are those of `wasm_run_agent` and
`wasm_run_bytes`.  An error ends the run and frees the runtime (`FreeRuntime`), except in
`wasm_run_bytes` while it looks for "start": it then looks for "_start" in the same runtime
(`NextName`; `drv.names` counts the names that are left).  An error inside a target of a branch
table loses the page that was saved there, and that runtime goes on with a count of active
pages that is too high: `drv.gone` counts them, until the release of the runtime resets the
count.  A function that failed after its code was complete (the copy of its constants,
`m3_compile.c:2922`) is marked compiled, and the second lookup may find it.  It then runs:
`op_Entry` copies constants only when there are some (`m3_exec.h:825`).

### WasmParse
One step per item of a section; any read may fail.  Strings are counted: owned by the
module, by the parser's local, leaked.  `FuncStrings` is what `Function_Release` frees,
`ModuleStrings` what `m3_FreeModule` does, the export names of memory and table included.

### Inputs
Every state is one input: LEB128 groups, a division, a message cut into two updates, a
host function's signature.  The properties compare the code's algorithm with a
definition by arithmetic or by the padded message.

### Episode
`Propose` is `episode_propose`, the others are the states of `episode_tick`.  The collector
may fail to answer or report ECC errors, which the mock does not do and the engine
handles.

### Interrupts
`irr`, `isr`, `imr` are the registers of the two 8259; `Interrupt(q)` is a delivery and the
whole of `irq_handler`, since the gates disable interrupts, and `Spurious(q)` a delivery of
line 7 or 15 with nothing in service.  The sleep is a loop of a test and a `hlt`; `Ticks` is
the conversion from milliseconds (`pit.c:78`), whose product is cut to a word and whose division
rounds down, with a tick at least.

### Terminal
One turn of the shell's loop (`shell.c:99-142`) is `ConsumeOne`, `PollResponse` until the
response ring is empty, `Poll`, with a key in the ring `Read`, `TakeKey` and `Edit`, and `Halt`.
The key interrupt, the response interrupt and other interrupts come between any two of them;
one that comes between the test for input and the `hlt` does not end the `hlt`.  The screen is rows
and columns of characters with the scrolling of `console.c`.

The mock consumer `ipc_consume_one`, `ipc_poll_response` and the response interrupt print whole lines
on the same screen, behind the prompt and between the keys of a line, as
`shell_test_3.log:63` shows ("ZE> [ipc-sim] ..."): all of them are `Output`, and `rings` holds the numbers of
entries they take.  A bridge may run besides (`BridgeTakes`); the comment at `shell.c:103-109`
says the two conflict.  The prompt is not printed again, so from then on only what was typed
after the output stands before the cursor, while Enter runs the whole buffer.  The history `above`
is how much of the line was there at the last output.  A backspace that goes on beyond it takes
characters off the buffer and erases what the output left on the screen, and a control
character goes into the buffer only; `apart` says that one of these has happened since.

An interrupt in the middle of a `console_putc` or of a prompt is modelled as one right after it.  For
the property this is the weaker position, as all of the line counts as printed over then.
`shell_start` itself has no caller at this commit; the module is about the function.

### Processes
`TimerTick` is the timer's `schedule`, one step.  A process's own is three: `SysYield` or `SysExit`
test the quantum, `Choose` resets it and chooses, `FinishSwitch` switches.  The timer may hit it
in between, and take the process off the CPU after the test (`entered`); between choice and switch it comes at
most `MaxNested` times, which the quantum has to exceed.  The decrement of the quantum is one
step: the code is built with `-O2` and loads the counter once, so a tick may be lost and nothing else.  `LinkNew`, `LinkList`, `MarkReady` are the three stores of
`sched_test_rr`.  `pdbr` is the loaded directory: switching back to the idle process loads
the 0 in its `cr3`, after which the machine executes nothing more (`Alive`).

### WasmCode
The module follows one execution of the code while it is emitted.  The compiler's state
is the operand stack with the place of each operand, the usage counts of slots, the
registers' owners and the blocks; next to it a machine with slots and registers runs
what was emitted, and a reference machine runs the instruction itself on an operand
stack.  Values are fresh numbers, so that a wrong operand is always seen.  A branch
that is taken parks the execution until its target is emitted.

### Ifr
A hash is its argument under a constructor, so hashes are equal exactly when the bytes
are.  The actions are the done branch of `kernel_main64`.

## 3. Runs

| run | bounds | states | checks |
|---|---|---|---|
| `SpscRing` | 3 slots, 2 words, 2 values, 1 crash | 99 thousand | `RingInv`, `ImplementsFifo`, `Drains` |
| `Channel` | rings of 3, 3 commands, 1 crash, both bridges, with and without interrupt | 285 thousand | `CommandsKept` (executed at most once by the Python bridge, at least once by the C bridge), `ResponsesKept` (each genuine, whole and accounted for, until the interrupt cuts into a poll), `Answered` |
| `HeapTurns` | 4 blocks, blobs of up to 2, 4 allocations, table of 2 | 1.6 million | `BlocksAccounted` (counter and bitmap agree, taken blocks are in use or were given back in vain, what a side recorded it finds), `LiveApart` |
| `Loop` | pool of 3, episodes of up to 3 steps, 3 telemetry polls | 169 thousand | `Fresh`, `EpisodeExact`, `PoolSound`, `KeepsStepping` |
| `Governor` | 3 pages over 2 nodes, 2 jobs, runs of up to 3 | 1.3 million | `PagesSound`, `ChargesSound`, `StateJustified`, `SafeModeHolds` |
| `MainLoop` | 3 steps, 2 dependencies each, rings of 1; 4 episodes; 3 code pages of 11 lines, 2 operations, one nested block, 1 expression | 584 thousand | `DepsFirst`, `StepsDone` (all, once, each with its own answer or none), `RunEnds`, `DeviceSafe`, `EveryEpisodeEnds`, `PagesPlaced`, `CallsSound` |
| `Services` | heap of 12 units and 3 clients; 8 frames, 2 processes, tensors of 2 pages; ring of 4 events, 2 span slots, 3 callers; 2 functions, 1 global, 2 names; LEB groups of 2 bits, words of 6, hash blocks of 4 | 527 thousand | `HeapSound`, `SpacesSound`, `RecorderTrue`, `DurationIsOwn`, `ModuleWhole`, `InputsRight` |
| `Interrupted` | lines 0, 7, 9, 15, ticks modulo 4, sleeps of 0 to 31 ms at 100 Hz; screen of 2 by 2, key ring of 3, 1 command and 2 responses under way, prompt of 1, lines of 2; 3 processes, quantum 2 | 132 thousand | `InterruptsServed`, `SleepFull`, `SleepEnds`, `TerminalTrue`, `KeyTaken`, `ProcessesSound`, `TurnComes` |
| `WasmCode` | seven mixes of instructions, stacks of up to 3, blocks up to 2 deep, 18 slots | 458 thousand | `OperandsRight`, `StackAgrees`, `FrameChecked`, `CountsRight` |
| `IfrRecord`, `WasmWide`, `LoopStale` | | | one violated property each, section 6 |

Why the bounds are enough for the cases of interest:

* Rings of three slots hold two entries, wrap, get full and empty, and have a free
  slot next to both indices.  Two words are the least that can be torn.
* Three commands against rings that hold two make both rings full while the bridge
  is busy and let the indices go round; one crash at any point exercises each
  step of the recovery.  After a race the interrupt may see responses again: `MaxTaken` bounds that.
* Four blocks with blobs of one or two give fragmentation, a failing allocation
  with enough blocks free, reuse of a block with a leftover header in its middle,
  and a kernel table of two that is full, with the blob it has no room for given back.  Ids do
  not wrap at this bound (`IdSpan` 6, 4 allocations).
* A pool of three blobs is more than the loop has in flight and `Span` 5 more
  observation numbers than exist at once.
* Three pages with the boundary inside give a run that straddles it, a node that
  is empty while the other is not, and the recursion.  The memory budget is two
  pages, so a third is denied.  `Word` 16 stands
  for 2^32: larger than any usage or budget, so that only a negative difference
  wraps.
* Three steps with two dependencies each give chains, joins, forks, self loops and
  cycles; rings of one make the command and the response ring full.
* Twelve units with headers of two hold four blocks at most: splits that leave a
  remainder or none, merges to both sides, a reallocation that stays, grows into its
  neighbour, moves or fails.
* Eight frames are enough for one process with a table and too few for two with
  all they may map, so that creation and mapping fail at every point.
* Six events overwrite half of a ring of four; three callers and two span
  slots leave one without.
* Three code pages of eleven lines and operations of six make a compilation take a
  second page, bridge, and run out.  One else or table inside another function's
  compilation is what nesting needs, and a lost page and a second lookup leave two pages to
  go on with.
* Two functions and one global give an import next to a function of the module,
  and a function with more names than it may keep.
* A quantum of two and at most two timer interrupts in one switch is the largest
  number the code tolerates (it relies on the window being shorter than a quantum).
* Lines 7 and 15 are the spurious ones, 9 is on the second controller and 0 the
  timer.  Ticks modulo 4 wrap within a sleep of two.  At 100 ticks a second 0 ms take a tick, 25
  ms are rounded down to two, and the product for 31 ms does not fit a word of 3000.
* A screen of two rows and columns scrolls under a command line that fills three
  cells, and under every output.  A response more than the mock consumer makes, and a full response ring,
  need room for two.
* The mixes of `MCWasm` bring together what interferes: registers with memory and
  `select`, constants, calls among live operands, moves between register classes, branches with
  and without results, nested blocks, and two results that change places.  They
  leave out parameters of blocks, floating-point results of blocks, and locals of two
  slots, of which section 6 says what the code does.  18 slots are never used up.

The deadlock check is on for `SpscRing`, whose two sides can always take another
step.  It is off elsewhere, where a behaviour may really end: the bounds use up
commands, allocations, charges and episodes, a finished job has nothing left to do, an
input is only looked at, compiled code ends with its execution, the machine dies when
it switches to the idle process, and the control loop stops at an invalid blob or in
the wait of finding 3.

## 4. Fairness

* `SpscRing`: weak fairness of the consumer only, which polls in an endless loop.
  Nothing obliges the producer to push.
* `Channel`: the bridge's main loop (`BridgeRun`) and the kernel's poll (`PollRun`) are endless
  loops, and each takes another step while it can; no fairness for sending, for crashing or for the interrupt.
* `Loop`: each of the two programs takes another step while it can.  Neither waits
  on a lock and neither can be blocked by the other except by an empty ring.
* `MainLoop`, each part on its own: the kernel goes on with the job it was given
  (`RunEnds` holds although the bridge may never answer), and the main loop ticks the episode
  engine for ever; nobody has to submit or propose, and nothing is asked of the WASM agents.
* `Interrupted`, each part on its own: the timer keeps raising its line and the CPU keeps
  taking it and running the sleeper; the shell runs and the timer wakes it (the wake is what
  `hlt` needs when a key came just before it), and nobody has to type, respond or send; the
  timer calls `schedule` and a switch that was chosen is made, no process has to yield or exit.
* `HeapTurns`, `Governor`, `Services`, `WasmCode` check safety only, and state no
  fairness.

## 5. Proofs

Every theorem holds for all values of the constants that satisfy the assumptions
named below, which TLC evaluates in the runs.  The bounds of a run (numbers of
commands, crashes, allocations, charges) are constants too, so no theorem depends on
how small they are.  `PROJECT.json` lists each theorem with the property it states.

| module | theorem | states | inductive invariant |
|---|---|---|---|
| `SharedMemoryProofs` | `TypeCorrect`, `RingSafe` | `TypeOK`, `RingInv` | `TypeOK /\ RingInv` |
| | `RingImplementsFifo` | `ImplementsFifo` (refinement) | the same |
| | `BlocksStayAccounted`, `LiveStayApart` | `BlocksAccounted`, `LiveApart` | `HeapInv` |
| `IpcChannelProofs` | `CommandsAreKept` | `CommandsKept` | `CommandsInv` |
| | `ResponsesAreKept` | `ResponsesKept` | `ResponsesInv` |
| `ControlLoopProofs` | `PoolStaysSound` | `PoolSound` | `TypeOK /\ PoolIs` |
| | `ActionsStayFresh`, `EpisodesAreExact` | `Fresh`, `EpisodeExact` | `TypeOK /\ CalmInv` |
| `MemoryProofs` | `PagesAreSound` | `PagesSound` | itself |
| | `StatesJustified` | `StateJustified` | `StateInv` |
| | `SafeModeKept` | `SafeModeHolds` (action property) | `PagesSound /\ StateInv` |
| | `ChargesAreSound` | `ChargesSound` | `PagesSound /\ ChargesInv` |
| | `SpacesStaySound` | `SpacesSound` | `SpaceInv` |
| `ServicesProofs` | `DependenciesFirst`, `StepsAreDone` | `DepsFirst`, `StepsDone` | `JobsInv` |
| | `RecorderStaysTrue` | `RecorderTrue` | `RecInv` |
| | `DurationStaysOwn` | `DurationIsOwn` (action property) | `RecInv` |
| | `KHeapStaysSound` | `HeapSound` | `KHeapInv` |
| | `KfreeTwiceIsHarmless` | `KfreeAgain` leaves `mem` (action property) | `KHeapInv` |
| `WasmProofs` | `ModuleStaysWhole` | `ModuleWhole` | `ParseInv` |
| | `PagesStayPlaced`, `CallsStaySound` | `PagesPlaced`, `CallsSound` | `RtInv` |
| `InterruptedProofs` | `DeviceStaysSafe` | `DeviceSafe` | `EpisodeInv` |
| | `LinesServed` | `InterruptsServed` | itself |
| | `SleepIsFull` | `SleepFull` (action property) | `SleepCounts` |
| | `ProcessesStaySound` | `ProcessesSound` | `ContextsInv /\ RingIs` |
| | `TerminalStaysTrue` | `TerminalTrue` | `KeysInv /\ LineInv` |

### The rings
Neither side ever re-reads the other's index after its check, so what has to be shown
is that a stale index is safe: `PushStillFits` says that a producer past its check still
has a free slot (the consumer only frees more), `PopStillThere` that a consumer past its
check still has its entry (the producer only adds more).  From these two, slot `head` and
slot `tail` are different whenever both sides are at work, which keeps `WordsWritten` and
`WordsCopied`: an entry is written completely before it is visible and is copied as it was
written.  Without the last two the implementation cannot be shown, since `PopAdvance`
returns the copy and `Fifo` demands the head of the queue.

The refinement maps the ring to the sequence of slots from `tail` up to `head` (`Queue`).
`PushPublish` maps to the abstract push, `PopAdvance` to the abstract pop, the early returns
to the failing push and pop, and every other step stutters.  The arithmetic modulo the
size is in `CommonLemmas` once (`RingNextIs` to `RingRemoves`), for this ring, the response
ring of `IpcChannel` and the key ring of `Terminal`.

### Commands and responses
`CmdsInOrder` says that the command ring holds the accepted commands after the `Consumed`
ones.  The two bridges differ in where they stand relative to that number: the Python one
works on the last command that left the ring (`PyOrder`), the C one on the first that is
still in it (`COrder`), which is why one never repeats and the other never misses.  For the
responses `PollOwn` says what the locals of a poll are worth: as long as the interrupt has
consumed nothing in the middle of it (`~raced`), the tail it read is still the ring's, there is
still an entry behind it, and the words it has copied are the ones that lie there.
`WriteOwn` says the same of the bridge: past its check it has a free slot, and its words lie there.
`AnswersPlaced` carries where each response is.  Nothing of this survives a race, and
`ResponsesKept` claims nothing after one but the types.

### Control loop
The pool needs no more than what it says itself (`PoolIs`), because the host puts a blob back
only if it is in flight (`Released`), whatever the kernel acknowledges.  The ordering properties need to know what is
under way at each position of the kernel: `Phase` is one clause for each wait of
`kernel_main64`, each saying which of command, reply in preparation, response,
observation and action exists.  Both theorems are implications from `calm`; with telemetry
the properties are false (section 6).

### Pages and contracts
Bitmap, `free_pages` and the sum of the nodes' counters change together in `Take` and
`GiveBack`; the counters of single nodes may drift and are not claimed.  That an allocation
returns pages nobody holds rests on what the first-fit scans find (`PageForFree`, `RunFree`).
The charge of a job is its explicit charges plus its pages; `WithinBudget` then follows from
the test in `contract_alloc_page`, which is on the charge and not on the pages.
Applying a contract resets its usage and its state.  The model does it once for each job,
as the initialisation it is; the code does not test that.  Then it does no harm: a contract that was never applied has no violations (`FreshContracts`), holds no
page and has no charge (`ChargesInv`).

### Jobs
The flags are a function of the graph and of what is completed (`FlagsRight`), also with
repeated and circular dependencies; without that a step could be ready too early or
never.  `StartedRight` ties the history to the step in hand.  `OneCommand` describes the
rings as long as no wait timed out: the command of the step in hand is at exactly one of
its three places.

### Flight recorder
The ring holds, at each index, the event that the number of laps says (`RingHolds`), and
the readers' walk back from the head is shown to give the last events in order
(`RingRecent`).  The statistics are a count over indices of the ring, and the count over
the history is the same set shifted (`CountShifted`).  Spans: an active slot belongs to the
one caller that has its handle (`SpansOwn`).

### Shared heap
The hypothesis `TakeTurns` is `~Concurrent /\ MaxAllocs < IdSpan`: the kernel does not run
during an operation of the bridge, and fewer blobs are allocated than there are ids.
Both parts are what the code needs and does not enforce; without the first `UsedBitsSet` is
false (section 6), and after 65535 allocations `heap_alloc` hands out an id that the lookups
take for none.  Under it, stale headers are harmless: an id names one place (`Placed`), so
that wherever a header, the kernel's table or the bridge's cache has it they have the same
block, also when the blob is long gone; and all of them only mention ids given out before
(`IdsIssued`).  Whichever way a search comes to a block with the right id, it is the right
block.  `Owned` and `Bits` say who holds which block, with the part that the bridge has in
work (`InWork`, `Uncounted`); between operations they are `LiveApart` and `BlocksAccounted`.  A leaked
blob keeps its header and its bits like one in use, so the invariant holds them together
(`Held`).  `FreeFinds` follows from `Placed`: an entry of the table leaves it only by the
`heap_free` of its own id, and an entry of the cache names the block where a scan finds the id.

### Kernel heap
`HeapSound` speaks of the blocks that a walk along `next` meets.  The proof names that set:
`Whole(mem, B)` says that the headers at `B` tile the heap, are linked both ways and leave no two
free neighbours, and `Keeps` that the blocks of `B` in use are exactly the ones the clients hold, with
what they stored.  The walk then gives `B` back (a set that grows by one header at each step and
cannot leave `B`), and the two walks of `coalesce` end at the ends of a run of free
blocks that is at most the block, its predecessor and its successor.  `split_block`, the
merge and the client's writes are each one lemma from a whole heap to a whole heap with
another `B`.  For the repeated free `Whole` also says that a header which is left in memory and is not
one of `B` is marked free (`OldFree`), and `StaleGone` that nobody holds the stale pointer: so the header
in front of it, if there is one, is free, and the free does nothing.

### Address spaces
`FramesAccounted` says that the frames that are not free are those some place holds, and
each only one.  The proof carries the inverse, a ledger from frames to their uses (`Books`): a
step that fails half way changes the ledger at exactly the frames it took.  It also has to
know what junk may be read: a directory or a table just allocated is cleared before its first
entry is used, and no directory of a process has an entry at a frame that is not a table
of its own.  `TensorsIn` keeps reported tensors above `TensorBase` and below `next_map_addr`,
where later mappings do not come; the mapping of a range is an iteration of the mapping of
a page, and what it leaves when it stops is what the iteration has kept so far.

### Parser
`ParseInv` says that every string in the heap is counted in the module or known to be lost,
after every item; that the environment's types are all different and include the module's;
that a function with a body or code has its module, and none has code while the module is
being parsed; and which section may be open.  The number of strings is a sum over two
tables, as `m3_FreeModule` walks them; lemmas say how the sum changes when an entry is added
or changed.  The exception is a module whose array was lost (`Wild`, section 6): of its
strings nothing is claimed.

### Code pages
`RtInv` carries a ledger `home` that says where each page is: released, open or full in one of the
two runtimes, in the hands of the compilation, or lost.  `Placed` says that every list is a
list of exactly its pages.  For the compilation (`Work`): the page it writes to and the pages
its open scopes saved are different and are all it holds, the count `numActiveCodePages` is their
number plus the pages the runtime has lost (`drv.gone`), and each of them has two free lines left (`Roomy`), which is what a bridge takes.  Inside a
branch table there must be room for the rest of the table (`TableRoom`), since its pointers are emitted
without a test; `EnsureCodePageNumLines` asserts only the first.  A throw leaves one scope after the other (`Outward`), each from a
smaller `Work` to a smaller one; the pages of branch tables end up lost, all others in a list.
`Coded` says that the pages which a compiled function is on belong to its runtime, or were lost by it, and still have its
code; a page is only reset when its runtime is freed, and then no function is compiled any
more (`Steering`).  `StartRule` has the three situations of the start function: due, running,
or has run.

### Episodes and interrupts
An episode owns the device in exactly the active states, its original clock is the
baseline, and no state in which a clock may still be promoted has seen a broken guardrail
(`OwnedByState`).  `InterruptsServed` is
inductive as it is, since the gates let nothing in between delivery and EOI: with nothing
in service one line is, and the EOI clears that one.  `SleepCounts` relates the difference
of two tick readings modulo 2^w to the ticks that really passed, which is exact as long as
a sleep is shorter than the counter's span; `TicksAre` says how long the sleep asked for is in ticks:
less than a tick short of the milliseconds, unless their product with the rate wraps.

### Processes
`QuantaKept` says that a process without the CPU keeps a whole quantum and that in the window
of a system call only the timer interrupts that hit it count the chosen one's down; as
`MaxNested <= Quantum`, no second switch gets into the window.  A process that was switched away
after its test finds itself current again when it goes on, and what it chooses has a whole quantum.  The
ring is described by the sequence of its tasks: `RingIs` says that some sequence without
repetition has the links of the list, that the process being linked is not in it before
the second store and in it afterwards, and that one task is running.  `RingClosed`, which
the run checks, says that following `next` from the idle process never meets NULL and
comes back; `ReachIs` shows that it goes round the sequence.

### Terminal
`KeysInv` is the ring argument with one consumer and the interrupt as producer, which drops
a key when the ring is full.  `LineInv` says that the screen shows up to the cursor what
prompt and buffer have since the last output (`Shows`, `Since`).  It has to say more than the run checks: that the line starts in
column 0 of a row.  Otherwise a line that is nearly as long as the screen could lose its
beginning to one scroll.  `PutcShows` and `PutcErases` are the two lemmas about the console,
a character written and a character taken back, over the wrap to the next row, the scroll
and the step back to the row above.

### Recursive definitions
`Reach` (`Processes`), `Write` (`Terminal`), the walks of `KHeap`, the mapping of a range in
`AddressSpaces`, the sums of `WasmParse` and `Unwound` of `WasmRuntime` are recursive functions over
the naturals.
That such a function satisfies its defining equation is shown by giving the function
explicitly as a witness and excluding a least argument at which it differs
(`LeastElement` of `CommonLemmas`); no induction rule is used.  `Iterates` and `StepByStep` do this
once for a step that is applied again and again and for what each of its applications
keeps, `Settles` for a walk that stops.

### Assumptions on the constants
Ring sizes are at least two (a ring of one is always full); counts, sizes and limits are
naturals.  Beyond that: the zero word is a value and "nothing there" is not an entry
(`SpscRing`); `MemBudget <= MaxUse < Word` (`Governor`: a budget is representable, and usage
does not wrap); a job graph and rings of at least one (`Jobs`); a sleep is shorter than the tick counter's span (`Interrupts`); finitely many
processes, NULL is not one of them, and `MaxNested <= Quantum` (`Processes`); the screen has
two rows and a command line fits on it (`Terminal`: 80 by 25 against a prompt and 127 characters);
the heap has room for a header and more than a unit (`KHeap`, the test of `kheap_init`); a table
has an entry, a tensor a page, and tensors are mapped inside the address space
(`AddressSpaces`); a function keeps at least one name (`WasmParse`).  `WasmRuntime`: the threshold
at which a page counts as full is at least three and every operation fits within it (in the code it
is six, `m3_core.h:158`, the largest operation and a bridge), a page has room for the threshold and
a bridge, and the targets of a branch table fit on a page with its operations and a bridge (in the
code a page of its own size is made for a table that does not).

### Only model-checked
* Liveness (`Drains`, `Answered`, `KeepsStepping`, `RunEnds`, `EveryEpisodeEnds`, `SleepEnds`,
  `KeyTaken`, `TurnComes`): fairness and ENABLED are beyond the prover.
* `InputsRight`: what recursive algorithms compute for every input would need induction
  over data.
* `OperandsRight`, `StackAgrees`, `FrameChecked`, `CountsRight` of `WasmCode`: the compiler's
  invariant relates two machines over the whole instruction set, and it does not hold for every
  program (section 6: wide locals, parameters of blocks) nor beyond the bound on slots, where the
  compiler gives up and the model stops.  A theorem would have to name the programs
  it is about; TLC's mixes do that.

## 6. Findings

With a run that shows them:

1. **No record of an episode verifies** (`IfrRecord`).  `ifr_build_v3` sets a flag after it
   hashed the bytes the flag is in; nothing is ever persisted or arbitrated.
2. **The second slot of a wide local is not counted** (`WasmWide`).
   `IncrementSlotUsageCount` raises one count and `Pop` lowers two.
3. **Stale telemetry stops the loop** (`LoopStale`).  The freshness gate drops an
   observation that was already popped; then both sides wait for each other.

Stated in the modules, false of the code, and found by TLC when the property is put in
the run's configuration with the constants named:

* A poll may return what nobody sent (`OnlyGenuine`, `Channel` with `Irqs = {TRUE}`).  The
  interrupt consumes a response between the reads of head and tail in `ipc_poll_response`
  (`ipc.c:352-353`): the two differ, the ring counts as not empty, and the slot behind the last
  response is returned.
* A blob can be impossible to free (`NoLeak`, `HeapTurns`).  `heap_alloc` succeeds with a full
  `blob_table` (`heap.c:148`), and `heap_free` knows only what is in the table.
* An error in a branch table leaves a page behind (`ReleasedWhole`, `MainLoop`).  The runtime
  is used again for the second lookup of `wasm_run_bytes`, and is freed with a count of active
  pages that its release asserts to be zero (`m3_env.c:232`; the comment at
  `m3_compile.c:1599` knows of the page).
* A response can be delivered twice (`ConsumedOnce`, `Channel` with `Irqs = {TRUE}`):
  `ipc_poll_response` writes back a `tail` it read before the interrupt consumed from the
  same ring (`ipc.c:381`).
* The bridge undoes the kernel's heap updates (`UsedBitsSet`, `HeapTurns` with
  `Concurrent = TRUE`): `allocate_blob` and `free_blob` write the whole bitmap back
  (`heap.py:378`).
* Blobs of the bridge carry the wrong offset (`OffsetToData`, `HeapTurns`): `heap.py:369`
  stores the header's offset in the field through which `heap_get_data` finds the data.
* Telemetry is taken for an observation (`CurIsObs`, `Loop`): the wait after
  `CMD_ENV_STEP` does not look at `orig_cmd` (`kmain64.cpp:443`).
* A contract over its budget admits jobs (`AdmitFits`, `Governor`): what is left is
  computed in unsigned arithmetic and wraps (`contracts.c:305`).

Met while modelling and kept in the models as the code has them:

* `pmm_alloc_pages` can recurse without end (`hung` in `Governor`).
* The idle process has `cr3 = 0` (`sched_core.c:255`): the first switch back to it loads
  page directory 0.  `sys_yield` only uses up a tick, and `sys_exit` leaves the process in
  the ring, where it is given the CPU again.
* `sched_create_user_process` goes back to `current_pd_phys`, not to the directory in CR3
  (`process.c:48-54`).  Mapping over a mapped page loses the old one.
* A control character enters the shell's buffer but not the screen.
* A second memory import, and a custom section that is cut off, leak their strings.
  When `Module_AddGlobal` or `Module_PreallocFunctions` cannot grow its array, the array
  is gone and its count is not (`Wild` in `WasmParse`).
* `wasm_run_agent` does not free the module when `m3_LoadModule` fails.

Met while reading, outside what the models cover:

* The shared heap's bitmap reaches past the start of the mesh table; `next_blob_id` is 32
  bits wide and ids are 16; `ipc_init` resets the rings on a reboot.  With a bridge running,
  `ipc_consume_one` is a second consumer of the command ring (`shell.c:104-106`); `Terminal` has it as far as
  the shell sees it.
* Two steps with the same id keep `sched_run_job` from ending (`Jobs` takes ids to be
  distinct).
* `vmm_map_page` takes an entry of a large page for a table; `next_map_addr` has no upper
  bound (`syscall.c:40`); vector 50 of the MSI setup has no gate (`ivshmem.c:151-156`).
* The head of the flight recorder counts modulo 2^32 and `ALIGN_UP` of `kheap.c` may wrap;
  neither is reached at realistic sizes.
* The weight cache is keyed by a model id cut to 16 bits and is never invalidated
  (`wasm_loader.c:28-59`).  The observation is copied before the start function runs.
* wasm3: `Read_utf8` without memory returns success with no
  string; `ParseSection_Name` of an empty section returns an uninitialised result;
  a branch
  to a loop with parameters does not move its operands (`m3_compile.c:1467-1472`), blocks
  with parameters mark their slots twice (`:2739-2740`).

## 7. Plan

Done: the components of section 2 and the theorems of section 5.  Left, in this order:

1. `IpcChannel`: `ipc_init` of a rebooting kernel, doorbell counters.
2. The mesh with `heap_init`, and the overlap of the bitmap with the node table.
3. `WasmCode`: parameters of blocks, and an error when the slots are used up; then `FrameChecked`
   is a candidate for a proof.
4. `Jobs`: tensors and `job_graph_compute_memory`, feeding `Admit` of `Governor`.

## 8. Not modelled

* SHA-256's compression function, the arithmetic of WASM operations and of the host
  functions: pure functions of words, on which no property here depends.  The older
  IFR format is not built by the modelled kernel.
* The WASI, libc and tracer bindings of wasm3: not compiled into the kernel.
* Data and element segments of a WASM module, linear memory contents: pointers into
  the image and bytes.
* The weight cache and which action an agent chooses: it does not matter to the loop.
* Descriptor tables, PCI, ivshmem discovery, PIT programming, boot code and the x86-64
  page tables: register-level programming.  What they decide (interrupt or polling,
  rings present or not) is a constant of the models.
* The kernel mesh: an announcement table that no operation acts on.
* Libc, math, time, the C++ runtime: no protocol state.
* Model cache, arbiter client, protocol encodings on the host: their outcomes,
  success or failure, are choices in `ControlLoop` and `Jobs`.
* Tensor headers, checksums, statistics, log output and sizes below one block or
  page in the modelled components.
