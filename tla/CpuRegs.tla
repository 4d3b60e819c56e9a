------------------------------- MODULE CpuRegs -------------------------------
(***************************************************************************)
(* Interrupt delivery, halting and waiting of one CPU: the registers of    *)
(* src/core/cpu_regs.rs, the HLE BIOS entry and exit of interrupts and its *)
(* IntrWait call (src/core/hle/bios.rs), the interrupt side of             *)
(* thread_set_cpsr (src/core/thread_regs.rs) and the ARM9's                *)
(* wait-for-interrupt (src/jit/inst_cpu_regs_handler.rs).                  *)
(*                                                                         *)
(* An interrupt is not taken where it is raised: an immediate event is     *)
(* scheduled, and the guest runs on until the next visit to the scheduler, *)
(* where the condition is evaluated again.                                 *)
(*                                                                         *)
(* The guest is free in its main program; its interrupt handlers do what   *)
(* the SDK's do: serve and acknowledge flags, record them for IntrWait,    *)
(* perhaps allow nesting, and return.                                      *)
(***************************************************************************)
EXTENDS Integers, Sequences

CONSTANTS
    Irq,        \* interrupt flags
    VBlank,     \* one that keeps coming
    Arm7s,      \* which of the two CPUs: a subset of {TRUE, FALSE}
    MaxDepth    \* nesting of handlers (a bound)

ASSUME CpuRegsAssumption ==
    /\ VBlank \in Irq
    /\ Arm7s \subseteq BOOLEAN
    /\ MaxDepth \in Nat \ {0}

VARIABLES
    arm7,               \* TRUE for the ARM7, FALSE for the ARM9; never changes
    ime, ie, irf,       \* as in ThreadRegs
    irqDisable,         \* cpsr.irq_disable
    halt,               \* bits of CpuRegs::halt: "irq" is bit 0, "gx" bit 1
    imm,                \* the CPU's immediate interrupt event is scheduled
    frames,             \* irq_disable of the interrupted contexts, innermost last
    waitFlags,          \* bios_wait_flags
    biosFlags,          \* the flag word the guest's handlers fill for IntrWait
    waiting,            \* history: the main program is asleep inside IntrWait
    forced              \* history: wfi made an interrupt deliverable unseen

cpu == <<ime, ie, irf, irqDisable>>
bios == <<waitFlags, biosFlags, waiting>>
vars == <<cpu, halt, imm, frames, bios, forced>>

Init ==
    /\ arm7 \in Arm7s
    /\ ime = FALSE /\ ie = {} /\ irf = {} /\ irqDisable = TRUE
    /\ halt = {} /\ imm = FALSE /\ frames = <<>>
    /\ waitFlags = {} /\ biosFlags = {}
    /\ waiting = FALSE /\ forced = FALSE

Running == halt = {}
InMain == Running /\ frames = <<>>
InHandler == Running /\ frames # <<>>

Deliverable == ime /\ ie \cap irf # {} /\ ~irqDisable

\* Mutant of CpuCheckForInterrupt: nothing is scheduled.
CpuCheckForInterruptNever == imm' = imm /\ forced' = forced

\* cpu_check_for_interrupt on the registers just written.
CpuCheckForInterrupt ==
    /\ imm' = (imm \/ Deliverable')
    /\ forced' = (forced /\ ~Deliverable')

-----------------------------------------------------------------------------
(* Register writes of the main program.                                    *)

CpuSetIme(b) ==
    /\ InMain
    /\ ime' = b
    /\ UNCHANGED <<ie, irf, irqDisable, halt, frames, bios>>
    /\ CpuCheckForInterrupt

CpuSetIe(s) ==
    /\ InMain
    /\ ie' = s
    /\ UNCHANGED <<ime, irf, irqDisable, halt, frames, bios>>
    /\ CpuCheckForInterrupt

\* Acknowledging evaluates nothing: a scheduled event may find nothing left.
CpuSetIrf(f) ==
    /\ InMain
    /\ irf' = irf \ {f}
    /\ UNCHANGED <<ime, ie, irqDisable, halt, imm, frames, bios>>
    /\ forced' = (forced /\ Deliverable')

\* thread_set_cpsr
ThreadSetCpsr(b) ==
    /\ Running
    /\ frames # <<>> => ~b /\ Len(frames) < MaxDepth
    /\ irqDisable' = b
    /\ UNCHANGED <<ime, ie, irf, halt, frames, bios>>
    /\ CpuCheckForInterrupt

-----------------------------------------------------------------------------
(* Raising and taking interrupts.                                          *)

\* Mutant of Unhalts: the ARM9 never wakes up without a handler.
UnhaltsArm7Only == arm7

\* Mutant of CpuSendInterrupt: the CPU wakes up wherever the event is
\* scheduled, too.
CpuSendInterruptWakes(f) ==
    /\ irf' = irf \cup {f}
    /\ UNCHANGED <<ime, ie, irqDisable, frames, waitFlags, biosFlags>>
    /\ imm' = (imm \/ Deliverable')
    /\ forced' = (forced /\ ~Deliverable')
    /\ halt' = IF ie \cap irf' # {} THEN halt \ {"irq"} ELSE halt
    /\ waiting' = (waiting /\ (frames # <<>> \/ ie \cap irf' = {}))

\* Without a handler the ARM7 wakes up on any enabled interrupt, the ARM9
\* only when ime is set.
Unhalts == arm7 \/ ime

CpuSendInterrupt(f) ==
    /\ irf' = irf \cup {f}
    /\ UNCHANGED <<ime, ie, irqDisable, frames, waitFlags, biosFlags>>
    /\ imm' = (imm \/ Deliverable')
    /\ forced' = (forced /\ ~Deliverable')
    /\ LET awake == ie \cap irf' # {} /\ ~Deliverable' /\ Unhalts
       IN  /\ halt' = IF awake THEN halt \ {"irq"} ELSE halt
           /\ waiting' = (waiting /\ (frames # <<>> \/ ~awake))

\* The condition cpu_on_interrupt_event evaluates again.
Interrupted == Deliverable

\* bios::interrupt: the context is put away and interrupts are masked.
Interrupt ==
    /\ frames' = Append(frames, irqDisable)
    /\ irqDisable' = TRUE
    /\ halt' = halt \ {"irq"}

CpuOnInterruptEvent ==
    /\ imm
    /\ imm' = FALSE
    /\ IF Interrupted THEN Interrupt ELSE UNCHANGED <<frames, irqDisable, halt>>
    /\ forced' = (forced /\ ~Interrupted)
    /\ UNCHANGED <<ime, ie, irf, bios>>

-----------------------------------------------------------------------------
(* The interrupt handler, and the BIOS on return from it.                  *)

\* Serve the flag: acknowledge it and record it for IntrWait.
HandlerServe(f) ==
    /\ InHandler
    /\ f \in ie \cap irf
    /\ irf' = irf \ {f}
    /\ biosFlags' = biosFlags \cup {f}
    /\ UNCHANGED <<ime, ie, irqDisable, halt, imm, frames, waitFlags, waiting>>
    /\ forced' = (forced /\ Deliverable')

\* Mutant of CheckWaitFlags: the consumed flag stays recorded as awaited.
CheckWaitFlagsKeepsWaiting ==
    IF biosFlags \cap waitFlags # {}
      THEN /\ biosFlags' = biosFlags \ waitFlags
           /\ UNCHANGED <<waitFlags, waiting, halt>>
      ELSE /\ halt' = halt \cup {"irq"}
           /\ waiting' = TRUE
           /\ UNCHANGED <<waitFlags, biosFlags>>

\* A recorded flag ends the wait and is consumed; otherwise the CPU sleeps.
CheckWaitFlags ==
    IF biosFlags \cap waitFlags # {}
      THEN /\ biosFlags' = biosFlags \ waitFlags
           /\ waitFlags' = {}
           /\ waiting' = FALSE
           /\ UNCHANGED halt
      ELSE /\ halt' = halt \cup {"irq"}
           /\ waiting' = TRUE
           /\ UNCHANGED <<waitFlags, biosFlags>>

\* uninterrupt: also in a nested handler the flags are checked.
Uninterrupt ==
    /\ InHandler
    /\ frames' = SubSeq(frames, 1, Len(frames) - 1)
    /\ irqDisable' = frames[Len(frames)]
    /\ UNCHANGED <<ime, ie, irf>>
    /\ IF waitFlags # {} THEN CheckWaitFlags ELSE UNCHANGED <<halt, bios>>
    /\ CpuCheckForInterrupt

-----------------------------------------------------------------------------
(* Going to sleep.                                                         *)

\* bios::halt
Halt ==
    /\ InMain
    /\ halt' = halt \cup {"irq"}
    /\ UNCHANGED <<cpu, imm, frames, bios, forced>>

\* cpu_regs_halt: interrupts are enabled without looking at what is pending.
CpuRegsHalt ==
    /\ Running /\ ~arm7 /\ Len(frames) < MaxDepth
    /\ irqDisable' = FALSE
    /\ halt' = halt \cup {"irq"}
    /\ UNCHANGED <<ime, ie, irf, imm, frames, bios>>
    /\ forced' = (Deliverable' /\ ~imm)

\* Mutant of InterruptWait: the wait with discard sleeps before it looks.
InterruptWaitDiscardFirst(discardOld, s) ==
    /\ InMain /\ ime /\ ~irqDisable
    /\ waitFlags' = s
    /\ waiting' = TRUE
    /\ halt' = halt \cup {"irq"}
    /\ UNCHANGED <<cpu, imm, frames, forced, biosFlags>>

\* interrupt_wait, called with interrupts on.  With discard_old the old flags
\* are consumed and the CPU sleeps in any case; without it the ARM7 looks at
\* the flags and the ARM9 only remembers what to look for at the next return
\* from a handler.
InterruptWait(discardOld, s) ==
    /\ InMain /\ ime /\ ~irqDisable
    /\ \/ discardOld
          /\ waitFlags' = s /\ waiting' = TRUE
          /\ halt' = halt \cup {"irq"}
          /\ biosFlags' = biosFlags \ s
       \/ ~discardOld /\ arm7 /\ biosFlags \cap s # {}
          /\ waitFlags' = {} /\ biosFlags' = biosFlags \ s
          /\ UNCHANGED <<halt, waiting>>
       \/ ~discardOld /\ arm7 /\ biosFlags \cap s = {}
          /\ waitFlags' = s /\ waiting' = TRUE
          /\ halt' = halt \cup {"irq"}
          /\ UNCHANGED biosFlags
       \/ ~discardOld /\ ~arm7
          /\ waitFlags' = s
          /\ UNCHANGED <<halt, biosFlags, waiting>>
    /\ UNCHANGED <<cpu, imm, frames, forced>>

\* The geometry fifo stops and restarts the ARM9.
HaltGx ==
    /\ Running /\ ~arm7
    /\ halt' = halt \cup {"gx"}
    /\ UNCHANGED <<cpu, imm, frames, bios, forced>>

UnhaltGx ==
    /\ "gx" \in halt
    /\ halt' = halt \ {"gx"}
    /\ UNCHANGED <<cpu, imm, frames, bios, forced>>

-----------------------------------------------------------------------------

MainWrites ==
    \/ \E b \in BOOLEAN : CpuSetIme(b)
    \/ \E s \in SUBSET Irq : CpuSetIe(s)
    \/ \E f \in Irq : CpuSetIrf(f)

Sleeps ==
    \/ Halt \/ CpuRegsHalt
    \/ \E d \in BOOLEAN, s \in (SUBSET Irq) \ {{}} : InterruptWait(d, s)

Next ==
    \/ MainWrites
    \/ \E b \in BOOLEAN : ThreadSetCpsr(b)
    \/ \E f \in Irq : CpuSendInterrupt(f)
    \/ CpuOnInterruptEvent
    \/ \E f \in Irq : HandlerServe(f)
    \/ Uninterrupt
    \/ Sleeps
    \/ HaltGx \/ UnhaltGx

Spec == Init /\ [][Next /\ UNCHANGED arm7]_<<vars, arm7>>

\* The scheduler runs on while the CPU sleeps, so the immediate event is
\* dispatched, vertical blanks keep coming and the geometry fifo drains; a
\* handler serves a flag that stays up and returns.
Fairness ==
    /\ WF_vars(CpuOnInterruptEvent)
    /\ WF_vars(CpuSendInterrupt(VBlank))
    /\ WF_vars(UnhaltGx)
    /\ SF_vars(HandlerServe(VBlank))
    /\ SF_vars(Uninterrupt)

FairSpec == Spec /\ Fairness

-----------------------------------------------------------------------------
(* Properties                                                              *)

\* Flags, halt bits and saved contexts have their types.
TypeOK ==
    /\ arm7 \in BOOLEAN
    /\ ime \in BOOLEAN /\ irqDisable \in BOOLEAN /\ imm \in BOOLEAN
    /\ ie \in SUBSET Irq /\ irf \in SUBSET Irq
    /\ halt \in SUBSET {"irq", "gx"}
    /\ frames \in Seq(BOOLEAN)
    /\ waitFlags \in SUBSET Irq /\ biosFlags \in SUBSET Irq
    /\ waiting \in BOOLEAN /\ forced \in BOOLEAN

\* An interrupt that can be taken has its event scheduled, whichever of the
\* flag, the enable bit, ime or the cpsr bit changed last.  The one exception
\* is the ARM9's wfi, which enables interrupts without looking.
DeliverableScheduled == Deliverable => imm \/ (forced /\ ~arm7)

\* Only a context with interrupts enabled is ever interrupted, although the
\* guest may mask them between the scheduling of the event and its dispatch.
InterruptedOnlyWhenEnabled == \A i \in DOMAIN frames : frames[i] = FALSE

\* The main program never sleeps in IntrWait over a flag already recorded.
NeverSleepOnSetFlag ==
    (waiting /\ frames = <<>> /\ "irq" \in halt) => biosFlags \cap waitFlags = {}

\* The inductive form of the above.  A handler runs, and IntrWait sleeps,
\* only with ime set; the main program sleeps in IntrWait with interrupts
\* enabled and something to wait for.
DeliveryInv ==
    /\ TypeOK /\ DeliverableScheduled /\ InterruptedOnlyWhenEnabled /\ NeverSleepOnSetFlag
    /\ forced => ~arm7
    /\ frames # <<>> => ime
    /\ waiting => ime /\ waitFlags # {}
    /\ (waiting /\ frames = <<>>) => "irq" \in halt /\ ~irqDisable

\* IntrWait ends only when a flag it waits for was recorded.
WaitEndsWithFlag ==
    [][waiting /\ ~waiting' => biosFlags \cap waitFlags # {}]_vars

\* A sleeping CPU wakes up at the next vertical blank it has enabled: the
\* ARM7 also when ime is off, the ARM9 also after a blind wfi.
WakesUp == ("irq" \in halt /\ VBlank \in ie /\ (arm7 \/ ime)) ~> "irq" \notin halt

\* A wait for the vertical blank completes, whatever other interrupts, nested
\* handlers and geometry stalls come in between.
WaitCompletes == (waiting /\ VBlank \in waitFlags /\ VBlank \in ie) ~> ~waiting

=============================================================================
