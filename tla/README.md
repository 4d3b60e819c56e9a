# Models of the DSVita core

DSVita is a Nintendo DS emulator: it translates the code of the console's two
CPUs, the ARM9 and the ARM7, and emulates the devices around them. These TLA+
modules model the parts of it whose correctness depends on *order*: the event
scheduler, interrupt delivery, the message fifos between the CPUs, the geometry
command fifo and its DMA channel, the register banks, the memory of translated
code, the host stack that translated code runs on, and the way four host threads
hand frames to each other. TLC checks small instances; TLAPS proves the central
invariants for every value of the constants.

All paths below are relative to the repository; `PROJECT.json` maps every
definition to the lines it models.

## 1. The system

### Threads and what they share

| thread | runs | waits for |
|---|---|---|
| CPU | guest code in slices, then `cm_check_events` (`src/lib.rs`, `src/core/cycle_manager.rs`) | a condition variable until the last frame is drawn, its park token while paused or ahead of the sound |
| main | menu, drawing of a frame (`render_loop`) | a handed-over frame; the 3D thread; threads to join |
| 3D | prepares polygons and textures of a frame (`process_3d_loop`) | a frame with 3D; `vram_ready` by spinning; until the frame is drawn |
| audio | takes samples, wakes the CPU thread | samples |
| save | writes a dirty save buffer every few seconds | a timer |

Everything the guest sees (both CPUs, timers, DMA, fifos, scanlines) runs on the
CPU thread, so its interleavings come from *when* a check of events falls
between guest instructions, not from host threads. The host threads share flags,
two mutexes with condition variables, and the CPU thread's one park token.

### Components

| component | state | operations | hard about it | what makes it correct |
|---|---|---|---|---|
| Cycle manager | `cycle_count`, due cycles, masks of active events, `next_event_cycle` | schedule (from now, from due, immediate), check, jump, rebase | handlers reschedule inside the dispatch loop; slices overshoot; the clock is 32 bits wide | no event overlooked, late by a slice, lost or put off; periodic events keep their phase |
| Fixed fifos | `start`, `len`, `end`, slots | push at either end, vector push, pop, clear, save, load | unsigned wrap at index 0; vector stores overrun | behaves as a bounded queue |
| CPU register file | running registers, store per mode | mode switch (long, short), exception entry and return, user-bank transfer | the short switch leaves stores stale on purpose | behaves as the guest's banked registers |
| Interrupts and halting | `ime`, `ie`, `irf`, `cpsr.irq_disable`, `halt`, BIOS wait flags | register writes, raise, deliver, return, halt, IntrWait | delivery is deferred to the next check; handlers nest; a sleeper must be woken | nothing masked is taken, nothing deliverable forgotten, no wait oversleeps or ends early |
| IPC fifos | two queues, two control registers | send, receive, clear, write control | four status bits mirror one queue; edge-triggered interrupts; HLE answers inside a send | bits tell the queue; order; no lost wakeup |
| Frame handover | `rendering`, `processed_3d`, `sample_2d`, `ready_2d`, `vram_busy`, `vram_ready`, pause, quit, token | scanline end, frame end, draw, process, pause, savestate, quit | four threads, unlocked reads, parking with a mutex held, a timeout | one user per buffer; frames flow; a pause holds; quit always gets out |
| Geometry fifo | packed command words, flush state, test status | push (packed, unpacked), run within a budget, swap | commands cut anywhere by budget, chunk or swap; full fifo halts the CPU that fills it | commands and parameters stay together; bounded; resumes |
| DMA | per channel control, current count | enable, rewrite, disable, event | triggered on an edge; event comes later than the trigger | transfers complete; a waiting channel has its event |
| Timers | reload, control, due cycle | control and reload writes, overflow, count-up chain, read | the counter is computed from the clock, across rebases | a read never runs ahead; chains advance with the right timer |
| Sound sampler | two sample queues, `waiting` | push, consume, park | park token shared with pausing; size counts beyond the buffer | samples in order; no stale wake; no stall |
| CPU loop and branch handlers | return stack, host stack, `in_interrupt`, `interrupt_sp` | call, return, branch, breakout, misprediction, interrupt inside a branch | guest calls are host calls; a ring of limited size; nested interrupts; thread switches | the host goes on where the guest does |
| Cartridge and save thread | save buffer, dirty mark | guest writes, periodic flush | a write during a flush; the end of the emulator | every write reaches the file |
| SPI, RTC, input | serial protocol state | byte transfers | – | replies follow the protocol |
| IPC sync, HLE services, HLE sound | sync nibbles, service state | writes, requests | requests answered within the send | one answer per request |
| Memory map, video memory banks | mapping tables | remap, read, write | overlapping banks; invalidation of translated code | the right bank answers |
| 2D and 3D graphics, shaders | registers, GL objects | drawing | numeric | – |
| JIT, assemblers, interpreter | code blocks | translate, patch | instruction semantics; self-modifying code | equivalence to the guest instruction |
| JIT memory | allocation window and block queue per CPU, entries, live bits, write permissions | insert, sweep, store, invalidate, reset | memory is reused while entries lead to it; stores from either CPU | entries lead to blocks that are there; no stale block is entered |
| Savestates | request slot, progress | request, save, load | served only at a frame boundary | restores what was saved |
| Wireless, maths unit, presenter, settings, logging, Android | – | – | – | I/O, configuration or straight-line code |

How they meet: every device raises interrupts through `cpu_send_interrupt`,
which schedules an immediate event of the cycle manager; timers, DMA, sound and
scanlines are its events too. The geometry fifo halts the ARM9 with bit 1 of the
`halt` field of which interrupts use bit 0. The scanline handlers at lines 192
and 262 are where the CPU thread meets the main thread. The sound sampler and
pausing share the park token.

Hazards that follow from this are listed in `PROJECT.json` at their lines, with
the properties that cover them.

## 2. Modules

| module | models | checked by |
|---|---|---|
| `CycleManager` | event scheduler | `MCCycleManager`, `CycleManagerProofs` |
| `Queue` | abstract: a bounded double-ended queue | refined by `FixedFifo` |
| `FixedFifo` | both ring buffers | `MCFixedFifo`, `IpcProofs` |
| `BankedRegisters` | abstract: a guest's view of its registers | refined by `ThreadRegs` |
| `ThreadRegs` | register file and mode switches | `MCThreadRegs`, `ThreadRegsProofs` |
| `CpuRegs` | interrupts, halting, BIOS entry and exit, IntrWait | `MCCpuRegs`, `CpuRegsProofs` |
| `Ipc` | message fifos, three ways to run the ARM7 | `MCIpc`, `IpcProofs` |
| `RenderHandshake` | CPU, main, 3D and audio thread | `MCRenderHandshake`, `RenderHandshakeProofs` |
| `GxFifo` | geometry fifo composed with its DMA channel | `MCGxFifo`, `GxFifoProofs` |
| `JitMemory` | memory of translated blocks, entries, invalidation, write permissions | `MCJitMemory`, `JitMemoryProofs` |
| `GuestContext` | the ARM9's calls, returns and interrupts on the host stack | `MCGuestContext`, `GuestContextProofs` |

Definitions named `...Not...`, `...Never` and the like, introduced by a comment
"Mutant of", are wrong variants of the definition that follows. They are used
nowhere; substituted for it, they must break the property `PROJECT.json` names
beside them.

### CycleManager

Variables are the fields of `CycleManager`; `stamp` stands for the clock
readings others keep (`last_total_cycles` of the 3D registers, the microphone's
`mic_sample_cycle`), which the rebase moves as well. `cm_check_events` is not
atomic here: `pc` and `todo` are the loop it is in and that loop's snapshot of
the active mask, and each handler is a step, because handlers schedule events
while the loop runs. `Tick` is a slice of guest code followed by the gate of
`cm_check_events`, or the jump to the next event when both CPUs are halted.
`GuestSchedule` and `HandlerStartsTimer` are what register writes and handlers
do to timers. The clock has `MaxCycle + 1` values instead of 2^32 and is rebased
past `Half`; additions saturate and the rebase subtracts exactly where the code
does. What a handler does besides scheduling is left out.

### FixedFifo and Queue

`FixedFifo` has one action per method. `PushBackMultipleFast` stores whole
vectors, so it overwrites up to `Vector - 1` slots behind its values; `Garbage`
is what it brings along. Index decrements happen in a type of `Word` values.
`Queue` says what the buffers promise; the mapping reads `len` slots from
`start` on. Overfull pushes are excluded by the callers' checks, which are the
guards. `Dimensions` is what `FifoAssumption` assumes of the constants; it is a
definition of its own because a theorem about an instance states it as its
hypothesis. `Filled` is the inductive invariant of the refinement.

### ThreadRegs and BankedRegisters

`regs` holds the running registers and the stores, and each switch is a function
of it, like `thread_set_cpsr_mode_slow` and its short forms. r8–r12 are one
value, sp and lr are one value and a status is the mode it selects, since the
code moves each group together. `BankedRegisters` lets nothing but a write
change a register of any mode. It leaves the saved status of interrupt mode open
where the short switch does; `IrqStatusKept` states separately how far a guest
may rely on it.

### CpuRegs

One CPU; `arm7`, chosen initially, says which, as the code does for waking up
and for wait for interrupt. `imm` is its immediate event, so raising and
delivering are separate steps. `frames` is the stack of interrupted contexts. The guest's main program
writes registers, halts and waits freely; its handlers serve, acknowledge,
record flags for IntrWait, may re-enable interrupts, and return through
`Uninterrupt`, where the BIOS looks at the wait flags and may go back to sleep.
IntrWait is called with interrupts on, as SDK programs do. `waiting` and
`forced` are history variables. The pushed register contents are left out.

### Ipc

`cnt[c]` is the set of those of the eight bits of `c`'s `IpcFifoCnt` that are 1,
`queue[c]` what `c` sent. `ipcType`, chosen initially, selects `IpcLle`, `IpcLle` with sound messages
taken out, or `IpcHle`, in which the services answer inside the send or later
(`SendHle`). A guest's driver acknowledges its interrupt and reads until empty;
polls, clears and control writes come at any time. Messages carry their number,
modulo `Numbers`, so that loss, duplication and reordering show.

### RenderHandshake

Each thread is at a place in its code (`cpu`, `main`, `t3d`), and each access to
a flag outside its mutex is a step of its own. Waits on condition variables are
loops in the code and therefore guards here; parks are not in loops, so the
token is modelled and may be left over from the audio thread. `Consume` is the
audio thread. The main thread's choices are the menu's: resume, savestate, quit.
`late` records that the main thread has once given up waiting for the 3D thread
after a second (`gpu_renderer.rs:717`). `Patient` says whether a menu is only
left after the CPU thread has parked: a user is slower than a frame, but the
code does not wait.

### GxFifo

The guest's command list is a stream of words; a header packs commands whose
parameters follow. `PushBack` pushes word by word for a store burst or for the
DMA event (`pc` tells which), `QueueUnpackedCommand` and `QueueUnpackedParam`
are the command ports. `RunCmds`, `Fetch`, `Execute`, `Incomplete` and `RunDone`
are `regs_3d_run_cmds`, stopped by the budget, an incomplete command or a swap.
The DMA channel is in geometry-fifo mode; the other modes are not modelled.
`pending` is the history of commands sent.

### JitMemory

Each CPU's part of the code memory has a window, `start` up to `end`, and a queue
of blocks, oldest first. `Allocated` is `allocate_block` with `reset_blocks`: when
the window is used up, the oldest blocks behind it are dropped until a quarter of
the part is free or the region ends (`StopsAfter`), and the newest block is
stretched over a tail no block fits into. `entries` is the one table both CPUs
use; a slot is the guest code one entry stands for. `live` is what
`jit_set_live_range` leaves, 256 bytes a page. What guest memory holds is
abstracted to `stale`, the entries older than the last store into their page. A
store is one access.

The permission to store directly is kept twice, and the two need not agree:
`writable` is each CPU's table of 4 KB pages, which calls look at (`mem_write`), and
`fastmem` the host's protection of the ARM9's fast memory in pages of 16 KB, which its
translated code relies on (`fast_write`). `jit_protect_region` takes both
away, but `remove_mmu_write_entry` returns before the fast memory for a page the
table already protects (`FastProtected`). A CP15 write that moves a TCM runs
`update_tcm_arm9`, which maps a range of pages anew over blocks that stay, and asks
only for the live bit of the first 256 bytes of each page of either size. `remapped`
is a history: the pages last mapped while they had live bits. The permissions are
those of the aarch64 build.

### GuestContext

The guest is a set of threads with open calls and interrupts; `host` is the host
stack above `call_jit_entry`, a sequence of frames. A branch takes two steps: it
reaches its handler (`bl`, `b`, `b_local`, `bx_lr`, `ldm_pc`), where the depth is
checked, and then either the scheduler has interrupted the guest
(`handle_interrupt`) or the branch is done (`branch_reg`, `loop`, `branch_lr`,
`hle_post_function`). Whether the scheduler runs is open, so cycles are left out.
`call_jit_fun` enters what is there or translates; a translation may flush any
set of blocks (`JitMemory` says which) and then has a frame that leaves the guest
context. Frames that only return to their caller are left out: they do not
change where the host goes on. `ideal` is the return stack without a limit,
`resumed` the frame the host has just returned into.

A branch to the address in a register may be anything the guest does with one: a
jump, a return to its caller or from a handler, or a switch to another thread
(`GuestBranches`). What tells the branches apart is what the host makes of them. `bx_lr`
takes the return-shaped ones, which pop the ring; `b` (`bx` of another
register) and `ldm_pc` (other writes of pc) do not pop, so that `pop {r3}; bx r3`, with
which a function the emulator itself recognises ends
(`inst_nitrosdk_handler.rs:79-81`), returns and leaves its entry behind. `leftover`
is a history of that within an interrupt handler (section 6).

The guest is assumed to keep its threads' calls and interrupts well nested and to
switch threads outside its interrupt handlers or when the outermost one returns,
as an SDK's scheduler does. A guest that switches inside a nested handler, to a
thread interrupted at the same address, makes `hle_bios_uninterrupt` match an
entry that a call has pushed; the code has no defence against that.

## 3. Runs

| run | instance | what it shows |
|---|---|---|
| `scheduler` | clock of 18 values, rebased past 7; two scanline events, two on a grid, one timer; slices of at most 2, the shortest period | no event is hidden behind the gate (`NextCoversActive`), dispatched a slice late (`DispatchWithinSlice`); scanlines neither stop nor double; the grid stays aligned; kept readings stay behind the clock |
| `rebase_past_due` | slices of 3, a timer period of less | *violation* of `EventsInReach`: section 6 |
| `fifo_refines_queue` | 4 slots, vectors of 2, an index type of 16 values | the ring buffers implement `Queue` |
| `banked_registers` | two register values, symmetric; svc for svc, abt and und | the stores implement `BankedRegisters`; a user-bank transfer reads fresh registers; the interrupt mode's status survives a trip to system mode |
| `interrupts` | either CPU, chosen initially; two flags, nesting of two; wait for interrupt and geometry stalls on the ARM9 | nothing deliverable is forgotten, no wait oversleeps or ends early, sleepers wake, a wait for the vertical blank completes |
| `ipc_fifos` | the ARM7 emulated with its sound messages taken out, which does everything plain emulation does, or in HLE; capacity 2, three numbers, control writes that turn everything on, clear, and turn everything off | status bits, order, no lost wakeup in either direction; a message is taken while its receiver listens |
| `frame_handover` | all threads, patient menus | one user per shared buffer, a pause holds, frames flow, savestates complete, quitting ends the CPU thread |
| `savestate_one_frame` | the same | *violation* of `OneFrame`: section 6 |
| `geometry_fifo` | full at 5 words, half at 3, chunks and bursts of 2, transfers of 1 and 3 words, budgets of 0 to 2 commands | commands intact, fifo bounded, busy bit fresh, the ARM9 resumes, transfers complete |
| `jit_memory` | 20 host pages and blocks of 4 for the ARM9, 5 and a block of 4 for the ARM7; five pages of main memory in three MMU pages and two pages of the fast memory, one page of VRAM, one slot each; remaps of any pages of the fast memory | entries lead to live blocks, blocks are apart, allocations fit, and stores into code of the ARM9 are seen but where a remap has overlooked blocks (`StoresSeen`) |
| `guest_context` | two symmetric threads, one return address, a ring of 2, a host stack of 3 frames, two calls per thread, two interrupts, three entries on the unlimited ring, one flush | the ring makes no return up (`ReturnStackSound`), an interrupt returns to the newest live interrupt frame, the host goes on at the guest's pc |
| `flushed_frames` | the same | *violation* of `FlushedFramesUnwound`: section 6 |

### Bounds

The bounds keep every *relation* of the real constants that the code depends
on. In the scheduler, the clock has room for a scanline, a slice and a grid period
behind the point of the rebase, as in the code (`SlicesFit`, `GridFits`); the short clock is rebased after every few events,
at every phase of the grid, which a run of the emulator meets once in 64
seconds. The proofs remove the bound. Four slots and vectors of two reach an
empty, a wrapped, a nearly full and a full buffer. Two interrupt flags are
enough for one to be served while the other is raised; a nesting of two has an
outer and an inner handler. Two entries per fifo give the empty, the middle and
the full state, and one number more than entries tells neighbours apart. The
geometry instance has a command without parameters, one with two, a test and a
swap with one, headers that mix them, and a full mark a chunk can step across. In the
frame handover nothing is bounded but `frames`, a history that stops at 2. Five
blocks fill the ARM9's part of the code memory and a quarter takes two, so a
sweep frees two, two and one and ends at the end of the region; the ARM7's part
ends in a page no block fits into, and the CPUs' blocks overlap. One kind of block of
the ARM9 spans the border of an MMU page and of a page of the fast memory, and the last
page of the fast memory is cut short by the end of main memory. One MMU page has
code in the 256 bytes that both loops of a remap ask about, another only in those
that the loop over the table asks about, and behind them. Pages keep part of their
code when stores take the rest back. A ring of two wraps on the
third call. Three frames hold a call, an interrupt and a nested interrupt, or one
interrupt and a replayed return, and every handler also meets the limit; the unlimited
ring is cut at three entries, one more than the ring has. One return
address makes all calls return to the same place, which is the harder case: the ring
tells frames apart by their addresses only. Interrupts may come there too. The run
of `guest_context` leaves out of its states whether a frame's block is gone (the view
`WithoutFreed`): that changes no step, and only `FlushedFramesUnwound` asks for it.

Deadlock is checked everywhere but in `frame_handover` and its companion, where
the threads end after quitting.

### Fairness

* Scheduler: `Tick` and `Check` are weakly fair. The CPU thread runs until it is
  stopped, and a check once begun runs on.
* Interrupts: the event is dispatched at the next check, vertical blanks come
  as long as scanlines do (`ScanlinesKeepComing`), the geometry fifo drains
  (`Resumes`), all weakly fair; a handler serves a flag that stays raised and
  returns, strongly fair because nested interrupts and stalls disable it for a
  while. The last two are an assumption on the guest.
* IPC: a guest's driver whose interrupt is requested goes on (weak fairness), an
  assumption on the guest; sending, clearing and listening have none.
* Frame handover: every thread is scheduled (weak fairness). The events at lines
  192 and 262 are strongly fair since the CPU thread may be in the sound sampler
  each time one looks; it leaves it because the audio thread consumes. The user
  has no fairness: nobody has to leave a menu.
* Geometry: the scheduler is visited again and again, also while the ARM9 is
  halted; swaps are strongly fair because the vertical blank keeps coming but
  finds a swap pending only at times.

## 4. Proofs

| theorem | states | needs |
|---|---|---|
| `CycleManagerProofs!TypeCorrect` | all cycles stay in the clock's range | `ConstantsAssumption` |
| `CycleManagerProofs!GateCoversEvents` | `NextCoversActive`, as long as no event is past due at a rebase | no relation of slices and periods |
| `CycleManagerProofs!PunctualScheduler` | `NextCoversActive`, `DispatchWithinSlice`, `OneScanlineEvent`, `ClockNeverWraps`, `SchedulerInv` (its inductive invariant), and the premise of the previous theorem | `SlicesFit`: slices no longer than the shortest period, and a scanline and a slice fit behind `Half` |
| `CycleManagerProofs!ScanlineChain` | `OneScanlineEvent` | no relation of slices and periods |
| `CycleManagerProofs!ReadingsStayBehind` | `StampNotAhead` | `SlicesFit` |
| `CycleManagerProofs!GridsStayAligned` | `GridAligned` | `SlicesFit` and `GridFits`: one grid period more fits behind every due cycle |
| `IpcProofs!BuffersAreQueues` | `ActsAsQueue`: `FixedFifo` implements `Queue` | `Ring!Dimensions`, the assumption of `FixedFifo` |
| `ThreadRegsProofs!UserBank`, `InterruptStatus` | `UserBankFresh`, `IrqStatusKept` | any values, any further exception modes |
| `ThreadRegsProofs!Refinement` | `ActsAsBanked`: `ThreadRegs` implements `BankedRegisters` | the same |
| `CpuRegsProofs!DeliverySafe`, `InterruptsScheduled`, `NoOversleeping`, `WaitSound` | `DeliveryInv`, `DeliverableScheduled`, `NeverSleepOnSetFlag`, `WaitEndsWithFlag` | any flags, nesting, either CPU |
| `IpcProofs!StatusBits`, `MessagesInOrder`, `WakeupKept`, `EmptinessTold` | `StatusAgrees`, `InOrder`, `NoLostWakeup`, `EmptySignalled` | a capacity of at least 2 and more numbers than entries, any control writes, all three ways to run the ARM7 |
| `RenderHandshakeProofs!HandshakeSafe`, `SnapshotSafe`, `PolygonsSafe`, `TexturesSafe` | `HandshakeInv`, `SnapshotStable`, `PolygonsStable`, `TexturesStable` | patient or hasty users |
| `RenderHandshakeProofs!PauseSafe` | `PauseHolds` | patient users |
| `GxFifoProofs!GxFifoSafe`, `FifoFitsBuffer` | `GxInv`; at most `Full - 1 + Burst + Chunk` words | half below full, no command with as many parameters as half the fifo, bursts of at least 2 |
| `GxFifoProofs!CommandsKept`, `TestStatusRight` | `CommandsIntact`, `TestStatusFresh` | the same; any commands, headers and packets |
| `JitMemoryProofs!JitTypes`, `EntriesLead`, `BlocksDisjoint`, `StoresTakeEntriesBack` | `TypeOK`, `EntriesLive`, `BlocksApart`, `StoresSeen` | `JitAssumption`: parts of at least four pages, blocks no longer than their part and in one kind of memory; any page sizes, any remaps |
| `JitMemoryProofs!AllocationsFit` | `AllocationFits` | `SmallBlocks`: no block takes more than a fortieth of its CPU's part, which is cut in four exactly |
| `GuestContextProofs!InterruptReturnsLive`, `ReturnsNeverMadeUp`, `HostFollows` | `InterruptFrameLive`, `ReturnStackSound`, `HostFollowsGuest` | any threads, return addresses, ring of at least 2, depth and nesting, any register branches |

**Scheduler.** `NextCoversActive` alone is not inductive: the timed loop
recomputes the gate while events wait in its snapshot, and the rebase subtracts
from gate and due cycles alike but in modular arithmetic. `GateCoversEvents`
therefore takes the absence of past-due events at a rebase as a premise, and
`PunctualScheduler` discharges it: `SchedulerInv` says that between checks all
events are ahead of the clock, that during a check only unvisited ones lag, by
less than a slice, and that the pending scanline event leaves room for one more
slice before the clock ends. That last part is what bounds the clock: only a
timed event can cause a rebase. `ScanlineChain` needs none of this, only that an
event in the loop's snapshot is still scheduled. `ReadingsStayBehind` follows from
the clock not wrapping. `GridsStayAligned` would fail where a saturating addition
clamps a due cycle, so its invariant `GridInv` keeps the clock and the scanline's
due cycle a grid period away from the clock's end, and grid events scheduled, so
that every rebase moves them all.

**Ring buffers.** The queue is read from `start` on, so the mapping does not look
at `end`, while both pushes at the back store there. `Filled` adds to the types
that `end` is `start + len` modulo the size and that the slots from `start` on
hold values; the rest of the buffer may be garbage. Each method is then shown to
change the queue as its abstract counterpart does. The vector push is the
interesting one: the words it writes behind its values fall into slots that are
free, because the caller left room for a whole vector. The theorem is in
`IpcProofs` because the messages of `Ipc` are kept in these buffers.

**Banked registers.** Short switches leave a store stale on purpose, so no
invariant may speak of a store alone. `StatusInPlace` says in which of two places
the interrupt mode's status is, by mode, unless another exception mode came
between. The refinement is proved action by action: each switch is shown to leave
what every mode sees as it was, with one lemma for the registers each kind of
switch moves.

**Interrupts.** `DeliverableScheduled` needs to know who else could have cleared
the event; `NeverSleepOnSetFlag` needs that a waiting main program is asleep or
below a handler. `DeliveryInv` adds that handlers run with `ime` set, that only
the ARM9 has unseen deliveries (wait for interrupt clears the mask without
looking), and that a waiting program without handlers is halted with interrupts
on.

**IPC.** A send or a receive changes four bits of two registers, one queue and up
to two interrupts. `Channels` states, per channel, what the bits are for each
length of the queue, that its messages are consecutive numbers up to the next one
to be sent, and who has been told of what. The three ways to run the ARM7 are
compositions of the same few operations, so the lemmas are about those; a channel
that an action does not touch is dismissed by one lemma.

**Frame handover.** The exclusion of CPU and main thread does not come from the
mutex (the main thread reads after it has released it) but from a chain:
a frame being drawn is `rendering`, an unread one is `busy`, and busy memory is
neither sampled nor ready. `HandshakeInv` is that chain and the 3D thread's part
of it, which holds until the main thread first times out. One lemma per thread,
one step per action. `PauseInv` is about the park token, which the audio and the
main thread both hand out: while nobody quits, a token is the answer to the wait
the CPU thread is in.

**Geometry fifo.** The bound `FifoBounded` needs three facts about *when* words
are pushed: a guest pushes only while it is not halted and nothing is enabled
that pushes too; an event scheduled below half is dispatched before the guest
can push past the full mark by more than a burst; and a transfer takes at most a
chunk. `GxInv` also carries the waiting channel's event through a run. With the
code's numbers the bound is 259 + 112 + `Burst`, so the unchecked pushes stay
within the buffer's 4096 slots as long as no burst exceeds 3725 words. A store
instruction or one of the SDK's fixed sends is far below that; the length of
`hle_mi_cpu_send32` and of a start-immediately transfer is the guest's.

`CommandsIntact` is about whole packets, and the actions move single words: the
guest, the channel and the command loop each stop in the middle of a packet. Its
invariant therefore speaks of the stream, the words in the fifo followed by those
still to be pushed. `Framed` says that the stream is the parameters of the header
in hand followed by whole packets, and `StreamInv` adds that the commands sent and
not yet executed are those of that header and of the headers in the fifo. Every
action appends a packet to
the stream, moves a word within it, takes a header from it or puts one back, or drops
the parameters of the header in hand; there is one lemma for each of these. For
`TestStatusFresh`, `QueueHoldsTest` walks the fifo from header to header; `Walks`
says that this walk finds a test command exactly if one of the remaining packets
begins with one. `StatusInv` says this of the status bit between runs, and during
the scheduler's visit too.

Both arguments need induction over sequences, and the library's induction
theorems cannot be instantiated here. It is carried out by hand on sets of
naturals instead: `Least` says that a set of naturals that is not empty has a
least element, and `Inductive` follows from it. That the recursive functions inside
`FlattenSeq` and of the walk exist is shown in the same way, before anything is
said about what they compute.

**JIT memory.** `BlocksApart` is not inductive: what makes a sweep safe is the
*order* of the queue. `Swept` says that the queue is in two parts, the blocks
behind the window and the ones allocated since the last wrap before it, each in
the order of their addresses; popping from the front therefore frees a contiguous
stretch that starts where the window ends. `EntriesLive` follows from it, since a
freed block's whole range is reset, and a block that overwrote an entry earlier
is later in the queue. `StoresSeen` says that a store into code of the ARM9 is
missed at most in a page that `update_tcm_arm9` last mapped with blocks in it, and
never in the 256 bytes that both of its loops ask about. It needs `LiveBitCovers` (a
page with entries has its bit, else an invalidation would pass over it) and `Watched`:
no CPU stores directly where ARM9 code is, through the table or the fast memory,
unless the page is `Overlooked`. Because of the early return of
`remove_mmu_write_entry`, `Watched` is only inductive together with `InStep`: outside
such pages the fast memory lets nothing through that the table does not.

`AllocationsFit` is about the assumption of `allocate_block` that a sweep makes
room for the block it was called for. A sweep frees a quarter of the part unless the
region ends first, so what has to be shown is that no sweep *starts* close to the
end. `Paced` follows the sweeps since the window last began at the front: the
`m`-th ends between `m` quarters (`Earliest`) and `m` times a quarter and three
blocks (`Latest`). Three sweeps therefore end at least a block before the region
does, and the fourth runs into its end. The upper bound is the hard part, because a sweep
goes on to the end of the block it stops in and leaves the rest of its window
unused, which the next round meets as a gap. Such gaps are shorter than a block
(`Short`, `Roomy`), never lie on both sides of one block (`GapsApart`) and never
push a sweep beyond its latest end (`GapsBounded`), so that the overshoot does not
add up from round to round.

That a block takes at most a fortieth of the part is a hypothesis and not an
assumption on the constants, since the code states no bound. The parts are 7168
and 1024 pages of 4 KB (8192 for the ARM9 when the ARM7 is in HLE); a fortieth of
the smallest is 25 pages, 100 KB of host code. A block translates less than a page
of guest code (`jit_memory.rs:460`, `572`), at most 2047 Thumb instructions, so
the hypothesis holds as long as an instruction takes 50 bytes of host code on
average. TLC's instance of `jit_memory` has one block size per CPU and
blocks of a fifth of the part, outside the hypothesis, for which allocations fit as well;
it tests the stop at the region's end, and mixed sizes rest on the theorem.

**Guest context.** `InterruptFrameLive` rests on the guest's discipline
(`WellNested`): `interrupt_sp` is the newest interrupt frame because an interrupt
frame is only left through the BIOS or with the whole guest context. For
`ReturnStackSound` the ring is compared with a stack without limit. `Agrees(d)`
says that the newest `d` entries are the same, and `RingMarked` that a mark
follows them, so that popping further yields the mark and not an older entry. This
is not inductive: a library function may pop the mark and be interrupted before it
leaves the guest context, and then the ring has no mark while guest code runs
above. `RingBacked` covers that case: the doomed frame is still on the host stack
and is reached before the entries that agree are used up. For `HostFollowsGuest`,
`Aligned` assigns to each host frame the entry of the unlimited stack it goes on
at, and `Handling` does the same for what is below an interrupt handler the host
may return from, across whatever the handler called. Branches that return without
popping make the ring hold *more* entries than the guest has calls. Outside interrupts
that does no harm: the alignment is between host frames and entries, and a surplus
entry that agrees has a host frame at the same address. In a handler `Handling`
bounds the entries above the interrupt's own by the handler's open calls, and that
bound is what such a return breaks. `Handling` therefore holds while `leftover` is
"none", and `Aligned` until an interrupt has in fact returned by an entry that agreed
after that ("taken").

Out of the provers' reach and only model-checked are the liveness properties
(`ScanlinesKeepComing`, `WaitCompletes`, `WakesUp`, `Arrives`, `FramesFlow`,
`SavestateCompletes`, `CpuStops`, `Resumes`, `DmaCompletes`): they depend on
fairness. Every other property of a passing run is stated by a theorem.

## 5. Not modelled

What instructions compute (JIT, assemblers, interpreter, 2D, 3D, maths unit) is
numeric or a matter of instruction semantics, for which state exploration is the
wrong tool. Shaders, presenter, settings, achievements, Android and host mapping
are calls into other systems. The parts still planned are in section 7. In the
modelled parts the following is left out: which service an HLE request goes to
and its answer; the IPC sync registers; DMA modes other than the geometry fifo;
the counter values of timers; the video stream thread and capture read-back. Of
the memory of translated code: blocks in WRAM, which has no live bits; ARM7 code
in main memory, which is not watched (homebrew has a hash guard instead) and
which `StoresSeen` leaves out; stores of several words, memory fills and DMA,
which look up the permission of their first address only and invalidate the first
and the last page; the 32-bit build, which leaves main memory writable for games
that load overlays through the SDK. A block that spans two pages keeps its
entries in the other page when one of them is stored into. Each page has one
address: a remap tests the live bit of a guest address, and main memory's mirrors would
widen the gap of section 6. The borders of a TCM are taken to be
borders of fast-memory pages, which the loops of `update_tcm_arm9` round to; its loops
for the old and the new place of a TCM are two remaps. The table that DMA uses, without
the TCMs, is not modelled. Of the guest context:
the ARM7, which leaves it at every visit to the scheduler; the interpreter, which
runs cold blocks in the same frames; cycle counts; and the missing depth check of
a branch without link.

## 6. Findings and observations

Three runs refute something the repository says.

* `rebase_past_due`. `DEVELOPMENT.md:39` says the rebase "uses saturating
  subtraction". `cm_on_overflow_event` uses a plain `-=` for due cycles and gate
  (`cycle_manager.rs:280`, `283`). An event that `schedule_from_due` left in the
  past, because its period is shorter than a slice, wraps to the end of the
  clock. `PunctualScheduler` says when this cannot happen.
* `savestate_one_frame`. `savestate.rs:31-33` says that the dialog's loop wakes
  the CPU "for exactly one frame". The CPU thread parks only when a new snapshot
  is ready and the last frame is drawn, so it runs further while the main thread
  draws.

* `flushed_frames`. `jit_asm.rs:716` says that after a translation that flushed
  "host frames above may point into freed blocks — unwind the whole guest
  context", and `jit_memory.rs:507` that "the caller must exit the guest context
  after running a block that flushed". The exit comes after the new block has
  returned. If that happened inside an interrupt, the BIOS's return cuts the host
  stack back to `interrupt_sp` (`hle_bios_uninterrupt`), past the frame that would
  have left, and the interrupted block goes on although the flush may have freed
  it. TLC needs seven states: a call, an interrupt in it whose handler is
  translated with a flush, and the handler's return.

Two comments claim more than the code ensures. No run is kept for them: the
corresponding property states what does hold, and its theorem proves it.

* `jit_memory.rs:733` says that a sweep "frees at least a quarter of the region, so
  the allocation always fits". This is not true of large blocks. With blocks of a
  fifth and of a quarter of the part, TLC finds a sweep that the region's end stops
  before the block fits; the translator is not known to make such blocks.
  `AllocationsFit` gives a size of blocks for which the comment is true (section 4).
* `inst_nitrosdk_handler.rs:729-730` says that the "generic per-write invalidation would
  keep stale overlay blocks correct eventually". A write to CP15 that switches, moves
  or resizes a TCM (`cp15.rs:117-151`) runs `update_tcm_arm9`, which makes a page
  writable again unless the live bit of its first 256 bytes is set, or in the fast
  memory that of the first 256 bytes of its 16 KB (`mmu.rs:138`, `156`, `180`, `204`).
  The blocks stay. Code behind those bytes can then be stored into directly, and its
  entries keep leading to the older code. Where the table protects a page and the
  fast memory does not, later blocks do not protect it either, because
  `remove_mmu_write_entry` returns early (`mmu.rs:19-31`). The model reaches such a
  store in four states: a block, a remap, the store. `StoresSeen` excepts these pages
  (`Overlooked`) and says that there are no others.

The following was seen while modelling. Nothing in the repository claims otherwise, so
no property is about it:

* The 3D thread may mark a frame as processed after quitting has reset the mark,
  and then waits for a reset that does not come (`gpu_renderer.rs:1088`);
  `CpuStops` therefore ends at the join of that thread.
* After a timeout of the 3D thread, the exclusion of polygons and textures is
  lost for later frames too.
* A menu left within the frame in which it was opened can leave a park token
  behind; `PauseHolds` and `FramesFlow` are checked, and `PauseHolds` is proved, for
  patient users.
* A DMA channel disabled between trigger and event still transfers
  (`dma.rs:346`); the model lets the same list go on.
* With the ARM7 in HLE the send-empty bit is never set again (`ipc.rs:191`), a
  sound message is dropped when the fifo it bypasses is full (`ipc.rs:118`), and
  clearing a non-empty fifo with its interrupt enabled is a `todo!()`
  (`ipc.rs:249`), which the model's guests never do.
* A count-up timer looks at its own overflow rather than at that of the timer
  before it (`timers.rs:132`).
* A call of an interrupt handler that returns by a branch to a register leaves its
  entry on the ring (`inst_branch_handler.rs:202-215`, `260-269`). A later return that
  does not match puts that entry back (`branch_lr_mismatch`), and if the interrupt
  returns to a thread saved at the same address, `hle_bios_uninterrupt` takes it for
  the interrupt's own and resumes the frame in `interrupt_sp`, whose branch was
  somewhere else. `HostFollowsGuest` excepts what follows (`leftover`).
* The save thread leaves without a last flush (`lib.rs:641`), and a failed write
  clears the dirty mark (`cartridge_io.rs:371`).

## 7. Plan

Order: what every other part relies on came first (scheduler, fifos, interrupts),
then where threads meet, then the largest device protocol, then translated code:
its memory and the stack it runs on. Next:

1. `SoundSampler`: the two sample queues, clamped sizes, the park, composed with
   the pause of `RenderHandshake`; `SaveThread`: guest writes, flushes, failures
   and the end of the emulator.
2. `Timers`: counter values across rebases, prescalers, count-up chains, on top
   of the due cycles of `CycleManager`.
3. The remaining DMA modes (immediate, blanking, cartridge) and stores of several
   words into translated code, composed with `JitMemory`.
4. `IpcSync` with the HLE services' answers, composed with `Ipc`.
5. `Savestate`: the progress protocol between dialog and CPU thread.
6. `Vram`: which bank answers when mappings overlap.

## 8. Running

    tlc -config MCCycleManager.cfg MCCycleManager
    tlapm CycleManagerProofs.tla

and likewise for the other configurations and proof modules.
