---------------------------- MODULE GuestContext ----------------------------
(***************************************************************************)
(* The ARM9's guest context: how the guest's calls and returns run as host *)
(* calls and returns (jit/inst_branch_handler.rs, jit/jit_asm.rs).         *)
(*                                                                         *)
(* A guest call pushes the return address on a small ring, the return      *)
(* stack, and calls the target's translated code on the host stack.  A     *)
(* guest return pops the ring; when the address agrees, the host returns   *)
(* into the frame of the caller, else the whole host stack is dropped and  *)
(* the guest goes on from its pc.  An interrupt found by the scheduler     *)
(* inside a branch runs on top of the host stack; when the guest leaves it *)
(* to where it was interrupted, the host stack is cut back to the frame    *)
(* saved in interrupt_sp and the branch goes on.                           *)
(*                                                                         *)
(* The guest is a set of threads that call, return and are interrupted in  *)
(* a well nested way, and are switched when an interrupt returns or by a   *)
(* branch into another thread's saved context.  Translating a block may    *)
(* flush the memory of older blocks, whose frames may be on the host       *)
(* stack; JitMemory models which.  Host frames that only return to their   *)
(* caller (tail calls, translations without a flush) are left out, cycles  *)
(* are abstracted to the choice whether the scheduler runs.                *)
(***************************************************************************)
EXTENDS Integers, Sequences, FiniteSets

CONSTANTS
    Threads,             \* the guest's threads
    Returns,             \* guest return addresses
    Entry,               \* the guest address of a function or a loop
    Irq,                 \* the guest address of the interrupt handler
    Uninterrupt,         \* the BIOS address interrupts return through
    Empty,               \* u32::MAX, which is no guest pc
    RETURN_STACK_SIZE,   \* entries of the ring
    MaxDepth,            \* frames of MAX_STACK_DEPTH_SIZE
    MaxCalls,            \* bound: calls a thread has open
    MaxIrqs,             \* bound: interrupts the guest has open
    MaxPushed,           \* bound: entries of the return stack had it no limit
    MaxFlushes           \* bound: translations that flushed on the host stack

Pcs == Returns \cup {Entry, Irq, Uninterrupt}

ASSUME ContextAssumption ==
    /\ RETURN_STACK_SIZE \in Nat /\ RETURN_STACK_SIZE > 1
    /\ MaxDepth \in Nat /\ MaxCalls \in Nat /\ MaxIrqs \in Nat
    /\ MaxPushed \in Nat /\ MaxFlushes \in Nat
    /\ Entry \notin Returns /\ Irq \notin Returns /\ Uninterrupt \notin Returns
    /\ Entry # Irq /\ Irq # Uninterrupt /\ Uninterrupt # Entry
    /\ Empty \notin Pcs

VARIABLES
    current,       \* the guest thread that runs
    calls,         \* each thread's open calls and interrupts, newest last
    pc,            \* where the guest is, or goes to
    op,            \* the branch handler that runs, [do, arg, checked]
    host,          \* the frames on the host stack, newest last
    return_stack, return_stack_ptr,
    ideal,         \* the return stack if it had no limit
    in_interrupt,
    interrupt_sp,  \* the frame an interrupt returns to
    resumed,       \* the frame the host has just returned into, if any
    leftover       \* history: "left", a call of an interrupt handler returned
                   \* without popping its entry; "taken", an interrupt then
                   \* returned by an entry that agreed; or "none"

guest == <<current, calls, pc>>
ring == <<return_stack, return_stack_ptr, ideal>>
vars == <<guest, op, host, ring, in_interrupt, interrupt_sp, resumed, leftover>>

\* What runs: translated code, a branch handler, or the loop around execute.
\* call, jump and loop are called from a block that waits for them; return,
\* any (branch_any_reg) and hle (hle_post_function) replace their block.
Branches == {"call", "jump", "loop", "return", "any", "hle"}
Ops == [do : Branches \cup {"run", "uninterrupt", "exited"},
        arg : Pcs \cup {Empty}, checked : BOOLEAN]
Run == [do |-> "run", arg |-> Empty, checked |-> TRUE]
Exited == [do |-> "exited", arg |-> Empty, checked |-> TRUE]

\* Frames: call, the code after a guest call; irq, handle_interrupt and the
\* branch it interrupted; replay, branch_lr_mismatch; flushed, a translation
\* that flushed.  freed: the block it returns into is gone.
Frames == [kind : {"call", "irq", "replay", "flushed"}, ret : Pcs \cup {Empty},
           then : Ops, freed : BOOLEAN]
CallFrame(r) == [kind |-> "call", ret |-> r, then |-> Run, freed |-> FALSE]
IrqFrame(r, o) == [kind |-> "irq", ret |-> r, then |-> o, freed |-> FALSE]
Leaving(k) == [kind |-> k, ret |-> Empty, then |-> Exited, freed |-> FALSE]
NoFrame == Leaving("replay")

\* The frames that return into translated code.
InBlock(f) ==
    \/ f.kind = "call"
    \/ f.kind = "irq" /\ f.then.do \in {"call", "jump", "loop"}

Slots == 0 .. RETURN_STACK_SIZE - 1

TypeOK ==
    /\ current \in Threads
    /\ calls \in [Threads -> Seq([ret : Pcs, irq : BOOLEAN])]
    /\ pc \in Pcs
    /\ op \in Ops
    /\ host \in Seq(Frames)
    /\ return_stack \in [Slots -> Pcs \cup {Empty}]
    /\ return_stack_ptr \in Slots
    /\ ideal \in Seq(Pcs \cup {Empty})
    /\ in_interrupt \in BOOLEAN
    /\ interrupt_sp \in Nat
    /\ resumed \in Frames
    /\ leftover \in {"none", "left", "taken"}

\* JitRuntimeData::new; every thread but the first waits at its entry.
Init ==
    /\ current \in Threads
    /\ calls = [t \in Threads |-> IF t = current THEN <<>>
                                  ELSE <<[ret |-> Entry, irq |-> FALSE]>>]
    /\ pc = Entry
    /\ op = Exited
    /\ host = <<>>
    /\ return_stack = [i \in Slots |-> Empty]
    /\ return_stack_ptr = 0
    /\ ideal = <<>>
    /\ in_interrupt = FALSE
    /\ interrupt_sp = 0
    /\ resumed = NoFrame
    /\ leftover = "none"

-----------------------------------------------------------------------------
(* The return stack.                                                       *)

Above(p) == (p + 1) % RETURN_STACK_SIZE
Below(p) == (p - 1) % RETURN_STACK_SIZE

\* Mutant of push_return_stack: nothing marks the end of the ring.
PushUnmarked(v) ==
    /\ return_stack' = [return_stack EXCEPT ![return_stack_ptr] = v]
    /\ return_stack_ptr' = Above(return_stack_ptr)
    /\ ideal' = Append(ideal, v)

push_return_stack(v) ==
    /\ return_stack' = [return_stack EXCEPT ![return_stack_ptr] = v,
                                            ![Above(return_stack_ptr)] = Empty]
    /\ return_stack_ptr' = Above(return_stack_ptr)
    /\ ideal' = Append(ideal, v)

\* What pop_return_stack returns.
Popped == return_stack[Below(return_stack_ptr)]
IdealRest == SubSeq(ideal, 1, Len(ideal) - 1)

pop_return_stack ==
    /\ return_stack_ptr' = Below(return_stack_ptr)
    /\ ideal' = IF ideal = <<>> THEN <<>> ELSE IdealRest
    /\ UNCHANGED return_stack

\* pop_return_stack, then push_return_stack of what it returned.
pop_and_push_back ==
    /\ return_stack' = [return_stack EXCEPT ![return_stack_ptr] = Empty]
    /\ ideal' = Append(IF ideal = <<>> THEN <<>> ELSE IdealRest, Popped)
    /\ UNCHANGED return_stack_ptr

clear_return_stack_ptr ==
    /\ return_stack_ptr' = 0
    /\ return_stack' = [return_stack EXCEPT ![RETURN_STACK_SIZE - 1] = Empty]
    /\ ideal' = <<>>

-----------------------------------------------------------------------------
(* The guest.                                                              *)

Last(s) == s[Len(s)]
Front(s) == SubSeq(s, 1, Len(s) - 1)
Irqs == UNION {{<<t, i>> : i \in {j \in 1 .. Len(calls[t]) : calls[t][j].irq}} : t \in Threads}

Interrupted(cs) == \E i \in 1 .. Len(cs) : cs[i].irq

\* A call and an interrupt of the thread that runs.
GuestCalls(r) ==
    /\ Len(calls[current]) < MaxCalls /\ Len(ideal) < MaxPushed
    /\ calls' = [calls EXCEPT ![current] = Append(@, [ret |-> r, irq |-> FALSE])]
    /\ pc' = Entry
    /\ UNCHANGED current

GuestInterrupted(from) ==
    /\ Cardinality(Irqs) < MaxIrqs /\ Len(ideal) < MaxPushed
    /\ calls' = [calls EXCEPT ![current] = Append(@, [ret |-> from, irq |-> TRUE])]
    /\ pc' = Irq
    /\ UNCHANGED current

\* The guest returns from a call, or from its interrupt handler to the BIOS.
GuestReturns ==
    /\ calls[current] # <<>>
    /\ IF Last(calls[current]).irq
       THEN pc' = Uninterrupt /\ UNCHANGED calls
       ELSE /\ pc' = Last(calls[current]).ret
            /\ calls' = [calls EXCEPT ![current] = Front(@)]
    /\ UNCHANGED current

\* Another thread goes on where it was left.  The guest's scheduler does that
\* outside interrupts, or when the outermost one returns.
GuestSwitches(t) ==
    /\ t # current /\ calls[t] # <<>>
    /\ \A i \in 1 .. Len(calls[current]) : calls[current][i].irq =>
           op.do = "uninterrupt" /\ i = Len(calls[current])
    /\ current' = t
    /\ pc' = Last(calls[t]).ret
    /\ calls' = [calls EXCEPT ![t] = Front(@)]

\* What a branch to an address in a register can do: jump, return, or switch.
GuestBranches ==
    \/ pc' = Entry /\ UNCHANGED <<current, calls>>
    \/ GuestReturns
    \/ \E t \in Threads : GuestSwitches(t)

\* bios::uninterrupt: back to where the thread was interrupted, or, when the
\* handler has changed the saved context, to another thread.
GuestUninterrupted ==
    \/ /\ pc' = Last(calls[current]).ret
       /\ calls' = [calls EXCEPT ![current] = Front(@)]
       /\ UNCHANGED current
    \/ \E t \in Threads : GuestSwitches(t)

-----------------------------------------------------------------------------
(* The host.                                                               *)

TooDeep == Len(host) >= MaxDepth

\* exit_guest_context: the host stack is dropped, execute returns.
exit_guest_context ==
    /\ op' = Exited
    /\ host' = <<>>
    /\ resumed' = NoFrame

\* Entering the code at the guest's pc with the host stack hs: it is there, or
\* it is the BIOS's, or emit_code_block translates it, which may flush blocks.
call_jit_fun(hs, target) ==
    /\ op' = IF target = Uninterrupt THEN [Run EXCEPT !.do = "uninterrupt"] ELSE Run
    /\ resumed' = NoFrame
    /\ \/ host' = hs
       \/ /\ target # Uninterrupt
          /\ Cardinality({i \in DOMAIN hs : hs[i].kind = "flushed"}) < MaxFlushes
          /\ \E freed \in SUBSET {i \in DOMAIN hs : InBlock(hs[i])} :
                 host' = Append([i \in DOMAIN hs |->
                                     [hs[i] EXCEPT !.freed = @ \/ i \in freed]],
                                Leaving("flushed"))

\* The host returns into the newest frame of hs: translated code goes on, or
\* handle_interrupt returns to the branch it interrupted; a replay or a
\* translation that flushed leaves the guest context.
ReturnInto(hs) ==
    IF hs = <<>> \/ Last(hs).kind \in {"replay", "flushed"}
    THEN exit_guest_context /\ UNCHANGED <<in_interrupt, interrupt_sp>>
    ELSE /\ host' = Front(hs)
         /\ resumed' = Last(hs)
         /\ op' = Last(hs).then
         /\ in_interrupt' = (in_interrupt /\ Last(hs).kind # "irq")
         /\ UNCHANGED interrupt_sp

\* JitAsm::execute: the guest context is entered anew at the guest's pc.
execute ==
    /\ op.do = "exited"
    /\ clear_return_stack_ptr
    /\ in_interrupt' = FALSE
    /\ leftover' = "none"
    /\ call_jit_fun(<<>>, pc)
    /\ UNCHANGED <<guest, interrupt_sp>>

\* Translated code reaches a branch: the guest's registers are written, then
\* the handler checks the depth of the host stack where it does that.
Reaches(do, arg, depth_checked) ==
    /\ op.do = "run"
    /\ IF depth_checked /\ TooDeep
       THEN exit_guest_context
       ELSE /\ op' = [do |-> do, arg |-> arg, checked |-> FALSE]
            /\ resumed' = NoFrame
            /\ UNCHANGED host
    /\ UNCHANGED <<in_interrupt, interrupt_sp>>

bl(r) == GuestCalls(r) /\ Reaches("call", r, TRUE) /\ UNCHANGED <<ring, leftover>>

\* Branches to any register's value do not pop the return stack, whatever they
\* are: an interrupt handler's call that returns by one leaves its entry there.
LeavesEntry ==
    leftover' = IF leftover = "none" /\ Interrupted(calls[current]) /\ calls' # calls
                THEN "left" ELSE leftover

\* b, and bx of a register other than lr.
b == GuestBranches /\ Reaches("jump", Empty, FALSE) /\ LeavesEntry /\ UNCHANGED ring

\* Loads and other writes of pc (branch_any_reg).
ldm_pc == GuestBranches /\ Reaches("any", Empty, TRUE) /\ LeavesEntry /\ UNCHANGED ring

\* A branch inside the block, and handle_idle_loop.
b_local ==
    /\ pc' = Entry
    /\ Reaches("loop", Empty, FALSE)
    /\ UNCHANGED <<current, calls, ring, leftover>>

\* Return shaped branches, bx of lr and loads of pc from the stack.
bx_lr ==
    /\ GuestBranches
    /\ Reaches("return", Empty, FALSE)
    /\ UNCHANGED <<ring, leftover>>

\* The function that clears an overlay returns by leaving the guest context:
\* its entry hook has invalidated blocks that frames may return into.
fs_clear_overlay_returns ==
    /\ op.do = "run"
    /\ GuestReturns
    /\ exit_guest_context
    /\ UNCHANGED <<ring, in_interrupt, interrupt_sp, leftover>>

\* A library function replaced by the emulator's own returns to its caller:
\* hle_post_function pops the return stack before it checks the scheduler.
hle_function ==
    /\ calls[current] # <<>> /\ ~Last(calls[current]).irq
    /\ GuestReturns
    /\ op.do = "run"
    /\ op' = [do |-> "hle", arg |-> Popped, checked |-> FALSE]
    /\ resumed' = NoFrame
    /\ pop_return_stack
    /\ UNCHANGED <<host, in_interrupt, interrupt_sp, leftover>>

\* breakout_imm: the scheduler runs between two instructions, and the guest
\* context is left when that has interrupted or halted the CPU.
breakout_imm ==
    /\ op.do = "run"
    /\ GuestInterrupted(Entry) \/ (pc' = Entry /\ UNCHANGED <<current, calls>>)
    /\ exit_guest_context
    /\ UNCHANGED <<ring, in_interrupt, interrupt_sp, leftover>>

\* Mutant of handle_interrupt: interrupt_sp keeps an earlier interrupt's frame.
KeepsInterruptSp ==
    /\ op.do \in Branches /\ ~op.checked
    /\ GuestInterrupted(pc)
    /\ IF TooDeep
       THEN exit_guest_context /\ UNCHANGED <<ring, in_interrupt, interrupt_sp>>
       ELSE /\ in_interrupt' = TRUE
            /\ interrupt_sp' = IF in_interrupt THEN interrupt_sp ELSE Len(host) + 1
            /\ push_return_stack(pc)
            /\ call_jit_fun(Append(host, IrqFrame(pc, [op EXCEPT !.checked = TRUE])), Irq)
    /\ UNCHANGED leftover

\* check_scheduler finds an interrupt: handle_interrupt runs the guest's
\* handler on top of the host stack, from a frame saved in interrupt_sp.
handle_interrupt ==
    /\ op.do \in Branches /\ ~op.checked
    /\ GuestInterrupted(pc)
    /\ IF TooDeep
       THEN exit_guest_context /\ UNCHANGED <<ring, in_interrupt, interrupt_sp>>
       ELSE /\ in_interrupt' = TRUE
            /\ interrupt_sp' = Len(host) + 1
            /\ push_return_stack(pc)
            /\ call_jit_fun(Append(host, IrqFrame(pc, [op EXCEPT !.checked = TRUE])), Irq)
    /\ UNCHANGED leftover

\* pre_branch and branch_reg after the scheduler.
branch_reg ==
    /\ \/ /\ op.do = "call"
          /\ push_return_stack(op.arg)
          /\ call_jit_fun(Append(host, CallFrame(op.arg)), pc)
       \/ /\ op.do \in {"jump", "any"}
          /\ call_jit_fun(host, pc)
          /\ UNCHANGED ring
    /\ UNCHANGED <<guest, in_interrupt, interrupt_sp, leftover>>

\* The block goes on at the target of its own branch, or leaves when a forward
\* branch finds that the target's entry no longer is the block's.
loop ==
    /\ op.do = "loop"
    /\ \/ op' = Run /\ resumed' = NoFrame /\ UNCHANGED host
       \/ exit_guest_context
    /\ UNCHANGED <<guest, ring, in_interrupt, interrupt_sp, leftover>>

\* branch_lr: a return that was predicted returns on the host; another one is
\* run from here while in an interrupt (branch_lr_mismatch), else it leaves.
branch_lr ==
    /\ op.do = "return"
    /\ \/ /\ Popped = pc
          /\ pop_return_stack
          /\ ReturnInto(host)
       \/ /\ Popped # pc /\ in_interrupt /\ ~TooDeep
          /\ pop_and_push_back
          /\ call_jit_fun(Append(host, Leaving("replay")), pc)
          /\ UNCHANGED <<in_interrupt, interrupt_sp>>
       \/ /\ Popped # pc /\ (~in_interrupt \/ TooDeep)
          /\ pop_return_stack
          /\ exit_guest_context
          /\ UNCHANGED <<in_interrupt, interrupt_sp>>
    /\ UNCHANGED <<guest, leftover>>

hle_post_function ==
    /\ op.do = "hle"
    /\ IF op.arg = pc
       THEN ReturnInto(host)
       ELSE exit_guest_context /\ UNCHANGED <<in_interrupt, interrupt_sp>>
    /\ UNCHANGED <<guest, ring, leftover>>

\* Mutant of hle_bios_uninterrupt: the return stack is not popped.
UninterruptPeeks ==
    /\ op.do = "uninterrupt"
    /\ GuestUninterrupted
    /\ \/ /\ exit_guest_context
          /\ UNCHANGED <<ring, in_interrupt, interrupt_sp, leftover>>
       \/ /\ in_interrupt /\ Popped = pc'
          /\ UNCHANGED ring
          /\ ReturnInto(SubSeq(host, 1, interrupt_sp))
          /\ leftover' = IF leftover = "left" THEN "taken" ELSE leftover
       \/ /\ ~(in_interrupt /\ Popped = pc')
          /\ clear_return_stack_ptr
          /\ call_jit_fun(host, pc')
          /\ leftover' = IF leftover = "left" THEN "none" ELSE leftover
          /\ UNCHANGED <<in_interrupt, interrupt_sp>>

\* hle_bios_uninterrupt: the CPU stays halted; or the guest goes on where it
\* was interrupted and the host stack is cut back to interrupt_sp; or it goes
\* on elsewhere, on top of the host stack, with an empty return stack.
hle_bios_uninterrupt ==
    /\ op.do = "uninterrupt"
    /\ GuestUninterrupted
    /\ \/ /\ exit_guest_context
          /\ UNCHANGED <<ring, in_interrupt, interrupt_sp, leftover>>
       \/ /\ in_interrupt /\ Popped = pc'
          /\ pop_return_stack
          /\ ReturnInto(SubSeq(host, 1, interrupt_sp))
          /\ leftover' = IF leftover = "left" THEN "taken" ELSE leftover
       \/ /\ ~(in_interrupt /\ Popped = pc')
          /\ clear_return_stack_ptr
          /\ call_jit_fun(host, pc')
          /\ leftover' = IF leftover = "left" THEN "none" ELSE leftover
          /\ UNCHANGED <<in_interrupt, interrupt_sp>>

Next ==
    \/ execute
    \/ \E r \in Returns : bl(r)
    \/ b \/ b_local \/ bx_lr \/ ldm_pc \/ fs_clear_overlay_returns
    \/ hle_function \/ breakout_imm
    \/ handle_interrupt
    \/ branch_reg \/ loop \/ branch_lr \/ hle_post_function
    \/ hle_bios_uninterrupt

Spec == Init /\ [][Next]_vars

-----------------------------------------------------------------------------
\* The ring never makes a return up: wherever the guest's code or a handler may
\* pop it next, it gives what an unlimited stack would give, or the mark that
\* nothing is known, though pushes wrap around and pops go below the bottom.
ReturnStackSound ==
    op.do \in {"run", "return", "uninterrupt"} /\ Popped # Empty =>
        ideal # <<>> /\ Popped = Last(ideal)

\* While an interrupt may return by interrupt_sp, that is the frame of an
\* interrupt still on the host stack, and the newest one.
InterruptFrameLive ==
    in_interrupt /\ op.do # "exited" =>
        /\ interrupt_sp \in 1 .. Len(host)
        /\ host[interrupt_sp].kind = "irq"
        /\ \A i \in interrupt_sp + 1 .. Len(host) : host[i].kind # "irq"

\* The host returns into the code the guest returns to: a frame that goes on
\* goes on at the guest's pc, whatever interrupts, thread switches, returns that
\* do not pop and lost entries of the ring came between; unless an interrupt has
\* returned by an entry that agreed when its handler may have left one.
HostFollowsGuest == resumed # NoFrame /\ leftover # "taken" => resumed.ret = pc

\* "host frames above may point into freed blocks - unwind the whole guest
\* context" (emit_code_block_internal): no frame of a flushed block goes on.
FlushedFramesUnwound == ~(InBlock(resumed) /\ resumed.freed)

-----------------------------------------------------------------------------
(* The strengthenings behind the properties above.                         *)

\* The guest's discipline: only an interrupt that came between a handler's return
\* and the BIOS returns to the BIOS, only a thread's first call returns to its
\* entry, threads that wait are interrupted at most where they were left, and the
\* BIOS has an interrupt to return from.
WellNested ==
    /\ \A t \in Threads : \A i \in 1 .. Len(calls[t]) :
          /\ calls[t][i].ret = Uninterrupt => calls[t][i].irq /\ i > 1 /\ calls[t][i - 1].irq
          /\ calls[t][i].ret = Entry => calls[t][i].irq \/ i = 1
          /\ t # current /\ i < Len(calls[t]) => ~calls[t][i].irq
    /\ pc = Uninterrupt => calls[current] # <<>> /\ Last(calls[current]).irq
    /\ op.do = "uninterrupt" => pc = Uninterrupt

\* What a frame goes on with.
FramesShaped ==
    \A i \in 1 .. Len(host) :
        /\ host[i].kind = "call" => host[i].then = Run
        /\ host[i].kind = "irq" => host[i].then.do \in Branches

\* The slot of the k-th newest entry below the pointer p, counted from 0.
SlotBelow(p, k) == IF k < p THEN p - 1 - k ELSE p - 1 - k + RETURN_STACK_SIZE

\* The newest d entries of the ring are those of the unlimited stack.
Agrees(d) ==
    /\ d <= Len(ideal)
    /\ \A k \in 0 .. d - 1 :
           return_stack[SlotBelow(return_stack_ptr, k)] = ideal[Len(ideal) - k]

\* The entries that agree are followed by a mark.
RingMarked ==
    \E d \in Slots : Agrees(d) /\ return_stack[SlotBelow(return_stack_ptr, d)] = Empty

\* A library function's return that popped a mark.  It will leave the guest
\* context, but an interrupt may come first, on a ring whose mark is gone.
Doomed(o) == o.do = "hle" /\ o.arg = Empty

\* The entries of the ring a frame still has to pop: a library function has
\* popped its own before it was interrupted.
Weight(f) == IF f.kind = "call" \/ (f.kind = "irq" /\ f.then.do # "hle") THEN 1 ELSE 0

\* A doomed frame is on the host stack, and the frames from there on pop at most
\* n entries: need[i] of them up to frame i.
Backs(hs, n) ==
    \E h \in 1 .. Len(hs) :
        /\ hs[h].kind = "irq" /\ Doomed(hs[h].then)
        /\ \E need \in [h .. Len(hs) -> 1 .. RETURN_STACK_SIZE] :
              /\ \A i, j \in h .. Len(hs) : i < j => need[j] >= need[i] + Weight(hs[j])
              /\ need[Len(hs)] <= n

\* Without a mark, as many entries agree as are popped before the doomed frame
\* is reached.
RingBacked ==
    \E d \in Slots : Agrees(d) /\ Backs(host, d + (IF op.do = "hle" THEN 1 ELSE 0))

RingInv == op.do = "exited" \/ Doomed(op) \/ RingMarked \/ RingBacked

\* Where frame i of n goes on when the host returns above it, with o on top.
After(hs, i, n, o) == IF i = n THEN o ELSE hs[i + 1].then
\* The entries that popping for o still takes.
Pops(o) == IF o.do = "hle" THEN 0 ELSE 1

Unshielded(hs, i, n) == \A j \in i .. n : hs[j].kind \in {"call", "irq"}

\* The frames up to n, down to one that leaves the guest context, go on where the
\* first len entries of the unlimited stack say; at[i] is the entry of frame i.
Aligned(hs, n, o, il, len) ==
    \E at \in [1 .. n -> 0 .. len] :
        \A i \in 1 .. n : Unshielded(hs, i, n) =>
            /\ i = n => at[i] = len
            /\ i < n => at[i] = IF at[i + 1] = 0 THEN 0
                                ELSE at[i + 1] - Pops(After(hs, i + 1, n, o))
            /\ \A j \in i + 1 .. n : at[i] = 0 \/ at[i] <= at[j] - Pops(After(hs, j, n, o))
            /\ IF Pops(After(hs, i, n, o)) = 0
               THEN After(hs, i, n, o).arg \in {hs[i].ret, Empty}
               ELSE at[i] > 0 => il[at[i]] \in {hs[i].ret, Empty}

\* The calls the ring is to know of: the guest's, before or after it has called
\* or returned, whichever the ring has seen.
OpenCalls(cs, o, p) ==
    CASE o.do = "call" -> Front(cs)
      [] o.do = "return" /\ p \notin {Uninterrupt, Entry} -> Append(cs, [ret |-> p, irq |-> FALSE])
      [] OTHER -> cs

\* Down to the first mark, the entries above q are the calls above c.
Followed(cs, c, il, q) ==
    \A k \in 0 .. Len(il) - q - 1 :
        (\A j \in 0 .. k : il[Len(il) - j] # Empty) =>
            k < Len(cs) - c /\ il[Len(il) - k] = cs[Len(cs) - k].ret

\* Entry q is that of the interrupt with frame sp, and the frames below it are
\* aligned with the entries below.
Returnable(hs, sp, il, q) ==
    /\ il[q] \in {hs[sp].ret, Empty}
    /\ Aligned(hs, sp - 1, hs[sp].then, il, q - 1)

\* The calls on top of the host stack do not need more than the m entries above.
Counted(hs, sp, o, m) ==
    \A i \in sp .. Len(hs) :
        (\A j \in i + 1 .. Len(hs) : hs[j].kind = "call") => Len(hs) - i <= m + 1 - Pops(o)

\* The newest interrupt of the guest is c, and it has called what o is about.
Inside(cs, c, o) ==
    /\ c \in 1 .. Len(cs) /\ cs[c].irq
    /\ \A i \in c + 1 .. Len(cs) : ~cs[i].irq
    /\ o.do = "call" => c < Len(cs) /\ Last(cs).ret = o.arg

\* The ring knows only of the calls open in interrupt c, and of the interrupt
\* itself, as entry q, unless the ring was emptied (q = 0).
Handled(oc, c, o, hs, sp, il) ==
    \E q \in 0 .. Len(il) :
        /\ Followed(oc, c, il, q)
        /\ q > 0 => /\ Returnable(hs, sp, il, q)
                    /\ Len(oc) - c <= Len(il) - q
                    /\ Counted(hs, sp, o, Len(il) - q)

Handling(cs, o, p, hs, sp, il) ==
    \E c \in 1 .. Len(cs) : Inside(cs, c, o) /\ Handled(OpenCalls(cs, o, p), c, o, hs, sp, il)

\* The strengthening behind HostFollowsGuest: the host stack is aligned with the
\* ring, and so is what is below a handler the host may return from.
HostInv ==
    /\ leftover # "taken" => Aligned(host, Len(host), op, ideal, Len(ideal))
    /\ /\ leftover = "none" /\ in_interrupt /\ op.do # "exited" /\ ~Doomed(op)
       /\ Interrupted(calls[current])
       => Handling(calls[current], op, pc, host, interrupt_sp, ideal)
=============================================================================
