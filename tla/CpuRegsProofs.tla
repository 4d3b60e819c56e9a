---------------------------- MODULE CpuRegsProofs ----------------------------
(***************************************************************************)
(* The safety properties of CpuRegs for any set of interrupt flags, either *)
(* CPU and any nesting of handlers.                                        *)
(***************************************************************************)
EXTENDS CpuRegs, SequenceTheorems, TLAPS

LEMMA InitDelivery == Init => DeliveryInv
<1> SUFFICES ASSUME Init PROVE DeliveryInv OBVIOUS
<1>1. frames \in Seq(BOOLEAN) /\ arm7 \in BOOLEAN BY CpuRegsAssumption DEF Init
<1>2. InterruptedOnlyWhenEnabled BY DEF Init, InterruptedOnlyWhenEnabled
<1> QED BY <1>1, <1>2
   DEF Init, DeliveryInv, TypeOK, DeliverableScheduled, Deliverable, NeverSleepOnSetFlag

\* The main program is not asleep in IntrWait while it runs.
LEMMA MainNotWaiting ==
    ASSUME DeliveryInv, InMain PROVE ~waiting
BY DEF DeliveryInv, InMain, Running

\* Writes to ime, ie and cpsr by the running program.
LEMMA WritesKeepDelivery ==
    ASSUME DeliveryInv, UNCHANGED arm7,
           \/ \E b \in BOOLEAN : CpuSetIme(b)
           \/ \E s \in SUBSET Irq : CpuSetIe(s)
           \/ \E b \in BOOLEAN : ThreadSetCpsr(b)
    PROVE  DeliveryInv'
<1> USE CpuRegsAssumption
<1>1. ASSUME NEW b \in BOOLEAN, CpuSetIme(b) PROVE DeliveryInv'
  <2>1. ~waiting /\ frames = <<>> BY <1>1, MainNotWaiting DEF CpuSetIme, InMain
  <2> QED BY <1>1, <2>1
     DEF CpuSetIme, CpuCheckForInterrupt, DeliveryInv, TypeOK, DeliverableScheduled, Deliverable,
         InterruptedOnlyWhenEnabled, NeverSleepOnSetFlag, bios
<1>2. ASSUME NEW s \in SUBSET Irq, CpuSetIe(s) PROVE DeliveryInv'
  <2>1. ~waiting /\ frames = <<>> BY <1>2, MainNotWaiting DEF CpuSetIe, InMain
  <2> QED BY <1>2, <2>1
     DEF CpuSetIe, CpuCheckForInterrupt, DeliveryInv, TypeOK, DeliverableScheduled, Deliverable,
         InterruptedOnlyWhenEnabled, NeverSleepOnSetFlag, bios
<1>3. ASSUME NEW b \in BOOLEAN, ThreadSetCpsr(b) PROVE DeliveryInv'
  <2>1. frames = <<>> => ~waiting
    BY <1>3, MainNotWaiting DEF ThreadSetCpsr, InMain
  <2> QED BY <1>3, <2>1
     DEF ThreadSetCpsr, CpuCheckForInterrupt, DeliveryInv, TypeOK, DeliverableScheduled,
         Deliverable, InterruptedOnlyWhenEnabled, NeverSleepOnSetFlag, bios
<1> QED BY <1>1, <1>2, <1>3

\* Flags go down.
LEMMA AcknowledgeKeepsDelivery ==
    ASSUME DeliveryInv, UNCHANGED arm7,
           \/ \E f \in Irq : CpuSetIrf(f)
           \/ \E f \in Irq : HandlerServe(f)
    PROVE  DeliveryInv'
<1>1. ASSUME NEW f \in Irq, CpuSetIrf(f) PROVE DeliveryInv'
  BY <1>1
  DEF CpuSetIrf, DeliveryInv, TypeOK, DeliverableScheduled, Deliverable,
      InterruptedOnlyWhenEnabled, NeverSleepOnSetFlag, bios
<1>2. ASSUME NEW f \in Irq, HandlerServe(f) PROVE DeliveryInv'
  BY <1>2
  DEF HandlerServe, InHandler, DeliveryInv, TypeOK, DeliverableScheduled, Deliverable,
      InterruptedOnlyWhenEnabled, NeverSleepOnSetFlag
<1> QED BY <1>1, <1>2

\* A flag goes up.  Asleep in IntrWait the CPU is not woken past its handler,
\* because ime is set and interrupts are enabled there.
LEMMA SendKeepsDelivery ==
    ASSUME DeliveryInv, UNCHANGED arm7, NEW f \in Irq, CpuSendInterrupt(f)
    PROVE  DeliveryInv'
<1> DEFINE awake == ie \cap irf' # {} /\ ~Deliverable' /\ Unhalts
<1>1. (waiting /\ frames = <<>>) => ~awake
  BY DEF CpuSendInterrupt, DeliveryInv, Deliverable
<1>2. halt' = IF awake THEN halt \ {"irq"} ELSE halt BY DEF CpuSendInterrupt
<1>3. waiting' = waiting BY <1>1 DEF CpuSendInterrupt, DeliveryInv, TypeOK
<1>4. (waiting /\ frames = <<>>) => halt' = halt BY <1>1, <1>2
<1>5. halt' \in SUBSET {"irq", "gx"} BY <1>2 DEF DeliveryInv, TypeOK
<1> HIDE DEF awake
<1> QED BY <1>3, <1>4, <1>5
  DEF CpuSendInterrupt, DeliveryInv, TypeOK, DeliverableScheduled, Deliverable,
      InterruptedOnlyWhenEnabled, NeverSleepOnSetFlag

\* The event finds the condition it evaluates again, and only then puts the
\* context away.
LEMMA EventKeepsDelivery ==
    ASSUME DeliveryInv, UNCHANGED arm7, CpuOnInterruptEvent
    PROVE  DeliveryInv'
<1>1. CASE Interrupted
  <2>1. ime /\ irqDisable = FALSE
    BY <1>1 DEF Interrupted, Deliverable, DeliveryInv, TypeOK
  <2>2. frames' = Append(frames, FALSE) /\ irqDisable' = TRUE /\ halt' = halt \ {"irq"}
    BY <1>1, <2>1 DEF CpuOnInterruptEvent, Interrupt
  <2>3. frames \in Seq(BOOLEAN) BY DEF DeliveryInv, TypeOK
  <2>4. frames' \in Seq(BOOLEAN) /\ frames' # <<>>
    <3>1. Len(frames') = Len(frames) + 1 /\ frames' \in Seq(BOOLEAN) BY <2>2, <2>3
    <3>2. Len(frames) \in Nat BY <2>3
    <3> QED BY <3>1, <3>2
  <2>5. InterruptedOnlyWhenEnabled'
    BY <2>2, <2>3 DEF DeliveryInv, InterruptedOnlyWhenEnabled
  <2> QED BY <1>1, <2>1, <2>2, <2>4, <2>5
    DEF CpuOnInterruptEvent, DeliveryInv, TypeOK, DeliverableScheduled, Deliverable,
        NeverSleepOnSetFlag, bios
<1>2. CASE ~Interrupted
  BY <1>2
  DEF Interrupted, CpuOnInterruptEvent, DeliveryInv, TypeOK, DeliverableScheduled, Deliverable,
      InterruptedOnlyWhenEnabled, NeverSleepOnSetFlag, bios
<1> QED BY <1>1, <1>2

\* Return from a handler.
LEMMA UninterruptKeepsDelivery ==
    ASSUME DeliveryInv, UNCHANGED arm7, Uninterrupt
    PROVE  DeliveryInv'
<1>1. frames \in Seq(BOOLEAN) /\ frames # <<>>
  BY DEF Uninterrupt, InHandler, DeliveryInv, TypeOK
<1>2. Len(frames) \in Nat /\ Len(frames) >= 1 BY <1>1
<1>3. frames' \in Seq(BOOLEAN) BY <1>1, <1>2 DEF Uninterrupt
<1>4. InterruptedOnlyWhenEnabled'
  BY <1>1, <1>2 DEF Uninterrupt, DeliveryInv, InterruptedOnlyWhenEnabled
<1>5. irqDisable' = FALSE
  BY <1>1, <1>2 DEF Uninterrupt, DeliveryInv, InterruptedOnlyWhenEnabled
<1>6. ime BY <1>1 DEF DeliveryInv
<1>7. CASE waitFlags # {}
  <2>1. \/ waiting' = FALSE /\ waitFlags' = {} /\ halt' = halt /\ biosFlags' \in SUBSET Irq
        \/ /\ waiting' = TRUE /\ waitFlags' = waitFlags /\ halt' = halt \cup {"irq"}
           /\ biosFlags' = biosFlags /\ biosFlags \cap waitFlags = {}
    BY <1>7 DEF Uninterrupt, CheckWaitFlags, DeliveryInv, TypeOK
  <2> QED BY <1>3, <1>4, <1>5, <1>6, <1>7, <2>1
    DEF Uninterrupt, CpuCheckForInterrupt, DeliveryInv, TypeOK, DeliverableScheduled,
        Deliverable, NeverSleepOnSetFlag
<1>8. CASE waitFlags = {}
  BY <1>3, <1>4, <1>5, <1>6, <1>8
  DEF Uninterrupt, CpuCheckForInterrupt, DeliveryInv, TypeOK, DeliverableScheduled,
      Deliverable, NeverSleepOnSetFlag, bios
<1> QED BY <1>7, <1>8

\* Going to sleep, and the geometry fifo's stalls.
LEMMA SleepKeepsDelivery ==
    ASSUME DeliveryInv, UNCHANGED arm7, Sleeps \/ HaltGx \/ UnhaltGx
    PROVE  DeliveryInv'
<1>1. CASE Halt
  BY <1>1, MainNotWaiting
  DEF Halt, DeliveryInv, TypeOK, DeliverableScheduled, Deliverable,
      InterruptedOnlyWhenEnabled, NeverSleepOnSetFlag, cpu, bios
<1>2. CASE CpuRegsHalt
  <2>1. frames = <<>> => ~waiting BY <1>2, MainNotWaiting DEF CpuRegsHalt, InMain
  <2> QED BY <1>2, <2>1
    DEF CpuRegsHalt, DeliveryInv, TypeOK, DeliverableScheduled, Deliverable,
        InterruptedOnlyWhenEnabled, NeverSleepOnSetFlag, bios
<1>3. ASSUME NEW d \in BOOLEAN, NEW s \in (SUBSET Irq) \ {{}}, InterruptWait(d, s)
      PROVE  DeliveryInv'
  <2>1. ~waiting /\ frames = <<>> /\ ime /\ ~irqDisable
    BY <1>3, MainNotWaiting DEF InterruptWait, InMain
  <2>2. s \in SUBSET Irq /\ s # {} OBVIOUS
  <2>3. \/ waitFlags' = s /\ waiting' = TRUE /\ halt' = halt \cup {"irq"}
           /\ biosFlags' \in SUBSET Irq /\ biosFlags' \cap s = {}
        \/ waitFlags' \in SUBSET Irq /\ biosFlags' \in SUBSET Irq /\ halt' = halt /\ waiting' = waiting
    BY <1>3, <2>2, CpuRegsAssumption DEF InterruptWait, DeliveryInv, TypeOK
  <2>4. UNCHANGED <<ime, ie, irf, irqDisable, imm, frames, forced>>
    BY <1>3 DEF InterruptWait, cpu
  <2>5. TypeOK' BY <2>2, <2>3, <2>4 DEF DeliveryInv, TypeOK
  <2>6. DeliverableScheduled' /\ InterruptedOnlyWhenEnabled'
    BY <2>4 DEF DeliveryInv, DeliverableScheduled, Deliverable, InterruptedOnlyWhenEnabled
  <2>7. /\ NeverSleepOnSetFlag'
        /\ waiting' => ime' /\ waitFlags' # {}
        /\ (waiting' /\ frames' = <<>>) => "irq" \in halt' /\ ~irqDisable'
    BY <2>1, <2>2, <2>3, <2>4 DEF NeverSleepOnSetFlag
  <2>8. (forced' => ~arm7) /\ (frames' # <<>> => ime') BY <2>4 DEF DeliveryInv
  <2> QED BY <2>5, <2>6, <2>7, <2>8 DEF DeliveryInv
<1>4. CASE HaltGx
  BY <1>4
  DEF HaltGx, DeliveryInv, TypeOK, DeliverableScheduled, Deliverable,
      InterruptedOnlyWhenEnabled, NeverSleepOnSetFlag, cpu, bios
<1>5. CASE UnhaltGx
  BY <1>5
  DEF UnhaltGx, DeliveryInv, TypeOK, DeliverableScheduled, Deliverable,
      InterruptedOnlyWhenEnabled, NeverSleepOnSetFlag, cpu, bios
<1> QED BY <1>1, <1>2, <1>3, <1>4, <1>5 DEF Sleeps

LEMMA StepKeepsDelivery ==
    ASSUME DeliveryInv, [Next /\ UNCHANGED arm7]_<<vars, arm7>> PROVE DeliveryInv'
<1>1. CASE UNCHANGED <<vars, arm7>>
  BY <1>1
  DEF vars, cpu, bios, DeliveryInv, TypeOK, DeliverableScheduled, Deliverable,
      InterruptedOnlyWhenEnabled, NeverSleepOnSetFlag
<1> QED BY <1>1, WritesKeepDelivery, AcknowledgeKeepsDelivery, SendKeepsDelivery,
           EventKeepsDelivery, UninterruptKeepsDelivery, SleepKeepsDelivery
        DEF Next, MainWrites

\* Interrupt delivery as a whole: events are scheduled for what can be taken,
\* only enabled contexts are interrupted, IntrWait never oversleeps a flag.
THEOREM DeliverySafe == Spec => []DeliveryInv
BY InitDelivery, StepKeepsDelivery, PTL DEF Spec

\* cpu_check_for_interrupt is called wherever an interrupt can become
\* deliverable, except in the ARM9's wfi.
THEOREM InterruptsScheduled == Spec => []DeliverableScheduled
<1>1. DeliveryInv => DeliverableScheduled BY DEF DeliveryInv
<1> QED BY <1>1, DeliverySafe, PTL

\* check_wait_flags and interrupt_wait leave no window between looking at the
\* recorded flags and going to sleep.
THEOREM NoOversleeping == Spec => []NeverSleepOnSetFlag
<1>1. DeliveryInv => NeverSleepOnSetFlag BY DEF DeliveryInv
<1> QED BY <1>1, DeliverySafe, PTL

\* cpu_send_interrupt never wakes IntrWait past its handler.
THEOREM WaitSound == Spec => WaitEndsWithFlag
<1>1. ASSUME DeliveryInv, [Next /\ UNCHANGED arm7]_<<vars, arm7>>, waiting, ~waiting'
      PROVE  biosFlags \cap waitFlags # {}
  <2>1. CASE UNCHANGED vars BY <1>1, <2>1 DEF vars, bios
  <2>2. ASSUME NEW f \in Irq, CpuSendInterrupt(f) PROVE FALSE
    BY <1>1, <2>2 DEF CpuSendInterrupt, DeliveryInv, Deliverable
  <2>3. CASE Uninterrupt
    BY <1>1, <2>3 DEF Uninterrupt, CheckWaitFlags, bios, DeliveryInv
  <2>4. CASE Sleeps
    BY <1>1, <2>4, MainNotWaiting DEF Sleeps, Halt, CpuRegsHalt, InterruptWait, bios
  <2>5. CASE HaltGx \/ UnhaltGx BY <1>1, <2>5 DEF HaltGx, UnhaltGx, bios
  <2>6. CASE MainWrites
    BY <1>1, <2>6 DEF MainWrites, CpuSetIme, CpuSetIe, CpuSetIrf, bios
  <2>7. CASE \E b \in BOOLEAN : ThreadSetCpsr(b) BY <1>1, <2>7 DEF ThreadSetCpsr, bios
  <2>8. CASE CpuOnInterruptEvent BY <1>1, <2>8 DEF CpuOnInterruptEvent, bios
  <2>9. CASE \E f \in Irq : HandlerServe(f) BY <1>1, <2>9 DEF HandlerServe
  <2> QED BY <1>1, <2>1, <2>2, <2>3, <2>4, <2>5, <2>6, <2>7, <2>8, <2>9 DEF Next
<1>2. DeliveryInv /\ [Next /\ UNCHANGED arm7]_<<vars, arm7>>
      => [waiting /\ ~waiting' => biosFlags \cap waitFlags # {}]_vars
  BY <1>1
<1> QED BY <1>2, DeliverySafe, PTL DEF Spec, WaitEndsWithFlag

=============================================================================
