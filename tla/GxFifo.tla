------------------------------- MODULE GxFifo -------------------------------
(***************************************************************************)
(* The geometry command fifo (src/core/graphics/gpu_3d/registers_3d.rs)    *)
(* and the DMA channel that feeds it (src/core/memory/dma.rs).             *)
(*                                                                         *)
(* A header word packs several commands, whose parameter words follow it.  *)
(* The ARM9 and a DMA channel push words; at every visit to the scheduler  *)
(* the commands that are complete are executed, within a budget of cycles, *)
(* up to a swap of buffers, which lasts until the vertical blank.  A full  *)
(* fifo halts the ARM9; a fifo below half starts the channel.              *)
(*                                                                         *)
(* The guest's command list is one stream of words, whoever pushes the     *)
(* next one.  What a command computes is left out, and so are the          *)
(* interrupts at the end of a run and of a transfer: their delivery is the *)
(* subject of CpuRegs.                                                     *)
(***************************************************************************)
EXTENDS Integers, SequencesExt

CONSTANTS
    Params,     \* FIFO_PARAM_COUNTS: parameters of each command
    Nop, Swap,  \* commands 0 and 0x50
    Tests,      \* box, position and vector test
    Headers,    \* the packed headers of the guest's list (a bound)
    Ports,      \* the commands it writes to their own ports (a bound)
    Half,       \* 132
    Full,       \* 260
    Chunk,      \* 112, the words one DMA event moves
    Burst,      \* words one store instruction or HLE call pushes (a bound)
    Counts,     \* word counts of transfers (a bound)
    Budgets     \* commands the elapsed cycles pay for (a bound)

Cmd == DOMAIN Params

Word == [cmds : Seq(Cmd), of : Cmd, index : Nat]
Header(h) == [cmds |-> h, of |-> Nop, index |-> 0]
Param(c, i) == [cmds |-> <<>>, of |-> c, index |-> i]
ParamsOf(c) == [i \in 1 .. Params[c] |-> Param(c, i)]

\* The parameter words that follow a header.
ParamsBehind(h) == FlattenSeq([i \in 1 .. Len(h) |-> ParamsOf(h[i])])

\* A header is stored without the zero bytes behind its last command.
ASSUME GxFifoAssumption ==
    /\ Params \in [Cmd -> Nat] /\ \A c \in Cmd : Params[c] < Half
    /\ Nop \in Cmd /\ Params[Nop] = 0 /\ Swap \in Cmd /\ Nop # Swap
    /\ Headers \subseteq Seq(Cmd) /\ \A h \in Headers : h # <<>> => h[Len(h)] # Nop
    /\ Ports \subseteq Cmd \ {Nop} /\ Tests \subseteq Cmd
    /\ Half \in Nat /\ Full \in Nat /\ Half < Full
    /\ Chunk \in Nat \ {0}
    /\ Burst \in Nat /\ Burst >= 2
    /\ Counts \subseteq Nat \ {0}
    /\ Budgets \subseteq Nat

VARIABLES
    fifo,       \* cmd_fifo
    list,       \* the parameter words the guest's list has next
    remaining,  \* cmd_remaining_params
    flushed,    \* a swap of buffers waits for the vertical blank
    halted,     \* bit 1 of the ARM9's halt
    on, repeat, wordCount, count,   \* the channel: cnt and current_count
    imm,        \* the channel's immediate event is scheduled
    dirty, busy,    \* test_queue_dirty, test_queue_busy
    pc, left,       \* where the CPU thread is; words left of its push
    wasHalf, budget, value,     \* locals of regs_3d_run_cmds, reset at its end
    pending     \* history: the commands sent and not yet executed, in order

channel == <<on, repeat, wordCount, count>>
status == <<dirty, busy>>
locals == <<wasHalf, budget, value>>
vars == <<fifo, list, remaining, flushed, halted, channel, imm, status, pc, left, locals,
          pending>>

Init ==
    /\ fifo = <<>> /\ list = <<>> /\ remaining = 0
    /\ flushed = FALSE /\ halted = FALSE
    /\ on = FALSE /\ repeat = FALSE /\ wordCount = 0 /\ count = 0 /\ imm = FALSE
    /\ dirty = FALSE /\ busy = FALSE
    /\ pc = "guest" /\ left = 0
    /\ wasHalf = FALSE /\ budget = 0 /\ value = <<>>
    /\ pending = <<>>

IsFull == Len(fifo) >= Full
IsHalfFull == Len(fifo) >= Half

\* The ARM9 executes guest code.
GuestRuns == pc = "guest" /\ ~halted

-----------------------------------------------------------------------------
(* Pushing words.                                                          *)

\* Mutant of PostQueueEntry: the answer about tests is not invalidated.
PostQueueEntryKeepsStatus ==
    /\ dirty' = dirty
    /\ halted' = (halted \/ IsFull)

\* regs_3d_post_queue_entry
PostQueueEntry ==
    /\ dirty' = TRUE
    /\ halted' = (halted \/ IsFull)

\* A store, a store-multiple or an HLE call starts to push n words.  The guest
\* leaves the fifo to a transfer it has enabled.
SetGxFifo(n) ==
    /\ GuestRuns /\ remaining = 0 /\ ~on
    /\ pc' = "push" /\ left' = n
    /\ UNCHANGED <<fifo, list, remaining, flushed, halted, channel, imm, status, locals, pending>>

\* The next word of the list joins the fifo.
PushBack ==
    /\ pc \in {"push", "dma"} /\ left > 0
    /\ left' = left - 1
    /\ \/ list = <<>>
          /\ \E h \in Headers :
                 /\ fifo' = Append(fifo, Header(h))
                 /\ list' = ParamsBehind(h)
                 /\ pending' = pending \o h
       \/ list # <<>>
          /\ fifo' = Append(fifo, Head(list))
          /\ list' = Tail(list)
          /\ UNCHANGED pending
    /\ UNCHANGED <<remaining, flushed, halted, channel, imm, status, pc, locals>>

SetGxFifoDone ==
    /\ pc = "push" /\ left = 0
    /\ pc' = "guest"
    /\ PostQueueEntry
    /\ UNCHANGED <<fifo, list, remaining, flushed, channel, imm, busy, left, locals, pending>>

\* regs_3d_queue_unpacked_value: the first write to a port queues the command.
QueueUnpackedCommand(c) ==
    /\ GuestRuns /\ remaining = 0 /\ list = <<>> /\ ~on /\ ~imm
    /\ LET first == IF Params[c] > 0 THEN 1 ELSE 0
       IN  /\ fifo' = Append(fifo, Header(<<c>>)) \o SubSeq(ParamsOf(c), 1, first)
           /\ list' = SubSeq(ParamsOf(c), first + 1, Params[c])
           /\ remaining' = Params[c] - first
    /\ pending' = Append(pending, c)
    /\ dirty' = TRUE
    /\ halted' = (halted \/ IsFull')
    /\ UNCHANGED <<flushed, channel, imm, busy, pc, left, locals>>

QueueUnpackedParam ==
    /\ GuestRuns /\ remaining > 0
    /\ remaining' = remaining - 1
    /\ fifo' = Append(fifo, Head(list))
    /\ list' = Tail(list)
    /\ dirty' = TRUE
    /\ halted' = (halted \/ IsFull')
    /\ UNCHANGED <<flushed, channel, imm, busy, pc, left, locals, pending>>

-----------------------------------------------------------------------------
(* The DMA channel, in the mode of the geometry fifo.                      *)

\* dma_set_cnt of a channel that was off.
EnableDma(n, r) ==
    /\ GuestRuns /\ remaining = 0 /\ ~on
    /\ on' = TRUE /\ repeat' = r /\ wordCount' = n /\ count' = n
    /\ imm' = (imm \/ ~IsHalfFull)
    /\ UNCHANGED <<fifo, list, remaining, flushed, halted, status, pc, left, locals, pending>>

\* dma_set_cnt of an enabled channel, leaving it on or turning it off.  An
\* event that is scheduled already is not withdrawn.
RewriteDma(enable) ==
    /\ GuestRuns /\ on
    /\ on' = enable
    /\ imm' = (imm \/ (enable /\ ~IsHalfFull))
    /\ UNCHANGED <<fifo, list, remaining, flushed, halted, repeat, wordCount, count, status, pc,
                   left, locals, pending>>

\* A visit to the scheduler: the immediate event first.
Visit ==
    /\ pc = "guest"
    /\ imm' = FALSE
    /\ pc' = IF imm THEN "dma" ELSE "check"
    /\ left' = IF ~imm THEN 0 ELSE IF count < Chunk THEN count ELSE Chunk
    /\ UNCHANGED <<fifo, list, remaining, flushed, halted, channel, status, locals, pending>>

\* Mutant of GoesOn: a transfer goes on only when the fifo triggers it.
GoesOnNever == FALSE

\* A channel that is not finished goes on at once below half.
GoesOn == ~IsHalfFull

\* The end of dma_on_event: a long transfer goes on at once or when the fifo
\* has drained, a finished one starts over or is disabled.
DmaDone ==
    /\ pc = "dma" /\ left = 0
    /\ pc' = "check"
    /\ PostQueueEntry
    /\ \/ count > Chunk
          /\ count' = count - Chunk
          /\ imm' = GoesOn
          /\ UNCHANGED on
       \/ count <= Chunk /\ repeat
          /\ count' = wordCount
          /\ imm' = GoesOn
          /\ UNCHANGED on
       \/ count <= Chunk /\ ~repeat
          /\ on' = FALSE
          /\ UNCHANGED <<count, imm>>
    /\ UNCHANGED <<fifo, list, remaining, flushed, repeat, wordCount, busy, left, locals, pending>>

-----------------------------------------------------------------------------
(* Executing commands.                                                     *)

\* The scanline event of the vertical blank swaps the buffers.
SwapBuffers ==
    /\ pc = "check" /\ flushed
    /\ flushed' = FALSE
    /\ UNCHANGED <<fifo, list, remaining, halted, channel, imm, status, pc, left, locals, pending>>

\* regs_3d_run_cmds
RunCmds(b) ==
    /\ pc = "check" /\ fifo # <<>> /\ ~flushed
    /\ pc' = "fetch"
    /\ wasHalf' = IsHalfFull
    /\ budget' = b
    /\ UNCHANGED <<fifo, list, remaining, flushed, halted, channel, imm, status, left, value,
                   pending>>

RunNothing ==
    /\ pc = "check" /\ (fifo = <<>> \/ flushed)
    /\ pc' = "guest"
    /\ UNCHANGED <<fifo, list, remaining, flushed, halted, channel, imm, status, left, locals,
                   pending>>

Fetch ==
    /\ pc = "fetch" /\ fifo # <<>>
    /\ value' = Head(fifo).cmds
    /\ fifo' = Tail(fifo)
    /\ pc' = "exec"
    /\ UNCHANGED <<list, remaining, flushed, halted, channel, imm, status, left, wasHalf, budget,
                   pending>>

\* The lowest byte of the header in hand.
CurrentCmd == IF value = <<>> THEN Nop ELSE Head(value)

\* Parameters are missing: the header in hand goes back.
Incomplete ==
    /\ pc = "exec" /\ Params[CurrentCmd] > Len(fifo)
    /\ fifo' = <<Header(value)>> \o fifo
    /\ pc' = "end"
    /\ UNCHANGED <<list, remaining, flushed, halted, channel, imm, status, left, locals, pending>>

\* The budget wraps below zero, where it never runs out.
Charged(c) == IF c = Nop THEN budget ELSE IF budget <= 0 THEN -1 ELSE budget - 1

\* Mutant of PutBack: the rest of the header is lost.
PutBackNot(rest, words) == words

\* A run that stops inside a header puts the rest of it back.
PutBack(rest, words) == IF rest = <<>> THEN words ELSE <<Header(rest)>> \o words

Execute ==
    /\ pc = "exec" /\ Params[CurrentCmd] <= Len(fifo)
    /\ LET c == CurrentCmd
           rest == IF value = <<>> THEN <<>> ELSE Tail(value)
           words == SubSeq(fifo, Params[c] + 1, Len(fifo))
           stops == c = Swap \/ Charged(c) = 0
       IN  /\ budget' = Charged(c)
           /\ flushed' = (flushed \/ c = Swap)
           /\ value' = rest
           /\ fifo' = IF stops THEN PutBack(rest, words) ELSE words
           /\ pc' = IF stops THEN "end" ELSE IF rest = <<>> THEN "fetch" ELSE "exec"
           /\ pending' = IF value = <<>> THEN pending ELSE Tail(pending)
    /\ UNCHANGED <<list, remaining, halted, channel, imm, status, left, wasHalf>>

\* Mutant of Triggers: the channel is started when the fifo has run empty.
TriggersWhenEmpty == wasHalf /\ fifo = <<>> /\ on

\* dma_trigger_all, when the run took the fifo below half.
Triggers == wasHalf /\ ~IsHalfFull /\ on

\* Mutant of Unhalts: the ARM9 waits until everything is executed.
UnhaltsWhenEmpty == fifo = <<>>

Unhalts == ~IsFull

\* What regs_3d_run_cmds does after its loop.
RunDone ==
    /\ pc = "end" \/ (pc = "fetch" /\ fifo = <<>>)
    /\ pc' = "guest"
    /\ dirty' = TRUE
    /\ imm' = (imm \/ Triggers)
    /\ halted' = (halted /\ ~Unhalts)
    /\ wasHalf' = FALSE /\ budget' = 0 /\ value' = <<>>
    /\ UNCHANGED <<fifo, list, remaining, flushed, channel, busy, left, pending>>

-----------------------------------------------------------------------------

\* test_queue_busy walks from header to header.
QueueHoldsTest ==
    LET walk[o \in Nat \ {0}] ==
            /\ o <= Len(fifo)
            /\ \/ ToSet(fifo[o].cmds) \cap Tests # {}
               \/ walk[o + 1 + Len(ParamsBehind(fifo[o].cmds))]
    IN  walk[1]

\* regs_3d_get_gx_stat
GetGxStat ==
    /\ GuestRuns
    /\ dirty' = FALSE
    /\ busy' = IF dirty THEN QueueHoldsTest ELSE busy
    /\ UNCHANGED <<fifo, list, remaining, flushed, halted, channel, imm, pc, left, locals, pending>>

Guest ==
    \/ \E n \in 1 .. Burst : SetGxFifo(n)
    \/ \E c \in Ports : QueueUnpackedCommand(c)
    \/ QueueUnpackedParam
    \/ \E n \in Counts, r \in BOOLEAN : EnableDma(n, r)
    \/ \E enable \in BOOLEAN : RewriteDma(enable)
    \/ GetGxStat

Scheduler ==
    \/ PushBack \/ SetGxFifoDone
    \/ Visit \/ DmaDone
    \/ RunNothing \/ Fetch \/ Incomplete \/ Execute \/ RunDone
    \/ \E b \in Budgets : RunCmds(b)

Next == Guest \/ Scheduler \/ SwapBuffers

Spec == Init /\ [][Next]_vars

\* The scheduler is visited again and again, also while the ARM9 is halted,
\* and vertical blanks keep coming.
FairSpec == Spec /\ WF_vars(Scheduler) /\ SF_vars(SwapBuffers)

-----------------------------------------------------------------------------
(* Properties                                                              *)

DataOK ==
    /\ fifo \in Seq(Word) /\ list \in Seq(Word) /\ value \in Seq(Cmd)
    /\ remaining \in Nat /\ count \in Nat /\ wordCount \in Nat /\ left \in Nat
    /\ budget \in Int
    /\ pc \in {"guest", "push", "dma", "check", "fetch", "exec", "end"}

FlagsOK ==
    /\ halted \in BOOLEAN /\ on \in BOOLEAN /\ repeat \in BOOLEAN /\ imm \in BOOLEAN
    /\ wasHalf \in BOOLEAN

TypeOK == DataOK /\ FlagsOK

\* The header a run has taken out counts until it is put back.
InHand == IF pc = "exec" THEN 1 ELSE 0

\* However headers are taken apart, put back and cut by budgets, swaps and DMA
\* chunks, the commands left are the ones sent, in order, a run begins at a
\* header, and a command finds its own parameters next.
CommandsIntact ==
    /\ pending = (IF pc = "exec" THEN value ELSE <<>>)
                    \o FlattenSeq([i \in 1 .. Len(fifo) |-> fifo[i].cmds])
    /\ pc # "exec" /\ fifo # <<>> => fifo[1].index = 0
    /\ pc = "exec" =>
         \A i \in 1 .. Params[CurrentCmd] : i <= Len(fifo) => fifo[i] = Param(CurrentCmd, i)

Occupied == Len(fifo) + left + InHand
Limit == Full - 1 + Burst

\* The fifo never holds more than a burst and a chunk beyond the full mark,
\* although an event scheduled below half is dispatched later; a guest that
\* runs sees a fifo that is not full; and an enabled channel never waits below
\* half without its event.
FifoBounded ==
    /\ Occupied <= Limit + Chunk
    /\ GuestRuns => ~IsFull
    /\ pc = "guest" /\ on /\ ~IsHalfFull => imm

\* FifoBounded made inductive: what holds inside a push, a DMA event and a run of
\* commands, where the event of a waiting channel may still be to come, and how
\* the parameters a command port still expects keep the channel off.
GxInv ==
    /\ TypeOK /\ FifoBounded
    /\ imm \/ pc = "push" => Occupied <= Limit
    /\ pc \notin {"push", "dma"} => left = 0
    /\ pc = "push" => ~on
    /\ pc = "dma" => ~imm /\ left <= Chunk
    /\ pc = "check" /\ on /\ ~IsHalfFull => imm
    /\ pc \in {"fetch", "exec", "end"} /\ on /\ ~wasHalf => imm
    /\ pc \notin {"push", "dma"} /\ Occupied >= Full => halted
    /\ remaining > 0 => /\ Len(list) = remaining
                        /\ pc \notin {"push", "dma"} /\ ~on /\ ~imm

\* The test-busy bit the guest reads is never a stale answer.
TestStatusFresh ==
    pc = "guest" /\ ~dirty => (busy <=> \E i \in DOMAIN fifo : ToSet(fifo[i].cmds) \cap Tests # {})

\* An ARM9 halted by a full fifo runs again, across swaps and small budgets.
Resumes == halted ~> ~halted

\* A transfer comes to its end, however often the fifo stops it half full.
DmaCompletes == (on /\ ~repeat) ~> ~on

=============================================================================
