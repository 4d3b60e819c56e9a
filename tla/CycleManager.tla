---------------------------- MODULE CycleManager ----------------------------
(***************************************************************************)
(* The event scheduler of the emulator (src/core/cycle_manager.rs).  A     *)
(* 32-bit guest clock, cycle_count, is advanced in slices by the CPU loop; *)
(* timed events carry an absolute due cycle, immediate events are flags.   *)
(* cm_check_events dispatches both, and rebases every stored cycle when    *)
(* the clock has passed half of its range.                                 *)
(*                                                                         *)
(* The clock is MaxCycle + 1 cycles wide (2^32 in the code).  A check is   *)
(* modelled handler by handler: pc says which loop of cm_check_events is   *)
(* running and todo is that loop's local snapshot of the events it has     *)
(* still to visit.                                                         *)
(***************************************************************************)
EXTENDS Integers

CONSTANTS
    MaxCycle,        \* u32::MAX
    Half,            \* 0x7FFFFFFF, the clock value past which a check rebases
    NumEvents,       \* EventType::Last
    GridEvents,      \* timed events that reschedule themselves for ever (SpuSample, SoundCmdHle)
    GridPeriod,      \* their period, in cycles
    TimerPeriods,    \* the distances at which timers and alarms may be scheduled
    FirstLinePeriod, \* (256 + 8) * 6, to the hblank of the very first scanline
    VisiblePeriod,   \* 256 * 6, from the start of a scanline to its hblank
    BlankPeriod,     \* (355 - 256) * 6, from hblank to the next scanline
    ImmEvents,       \* immediate events, in the order of their flags
    MaxSlice         \* the longest CPU slice between two checks

\* EventType::GpuScanline256 and EventType::GpuScanline355.
GpuScanline256 == 0
GpuScanline355 == 1
Events == 0 .. NumEvents - 1
GpuEvents == {GpuScanline256, GpuScanline355}

\* Timers, HLE sound alarms, the HLE wifi scan and the HLE microphone: started
\* by guest accesses, and rescheduled by their handler or not.
TimerEvents == Events \ (GpuEvents \cup GridEvents)

ASSUME ConstantsAssumption ==
    /\ MaxCycle \in Nat /\ Half \in Nat /\ NumEvents \in Nat
    /\ NumEvents > 1
    /\ GridEvents \subseteq Events \ GpuEvents
    /\ GridPeriod \in Nat \ {0}
    /\ TimerPeriods \subseteq Nat \ {0}
    /\ FirstLinePeriod \in Nat \ {0} /\ VisiblePeriod \in Nat \ {0} /\ BlankPeriod \in Nat \ {0}
    /\ ImmEvents \subseteq Nat
    /\ MaxSlice \in Nat \ {0}
    /\ MaxSlice <= MaxCycle
    /\ Half < MaxCycle /\ FirstLinePeriod < MaxCycle /\ GridPeriod < MaxCycle

VARIABLES
    cycle_count,
    events,              \* due cycle of each timed event, stale when not active
    next_event_cycle,    \* no check dispatches a timed event before this cycle
    active_events,
    active_imm_events,
    stamp,               \* last_total_cycles / mic_sample_cycle: a clock reading kept for later
    pc,                  \* "guest", or the loop of cm_check_events that runs
    todo                 \* the events that loop has still to visit

vars == <<cycle_count, events, next_event_cycle, active_events, active_imm_events,
          stamp, pc, todo>>

\* e is the next event a loop visits: leading_zeros() of the snapshot's mask.
IsFirst(e) == e \in todo /\ \A f \in todo : e <= f

\* u32 addition and subtraction of two clock values.
Wrap(x) == IF x > MaxCycle THEN x - (MaxCycle + 1) ELSE IF x < 0 THEN x + MaxCycle + 1 ELSE x
\* Mutant of SaturatingSub: the kept readings are forgotten by the rebase.
SubNotRebased(a, b) == a
SaturatingSub(a, b) == IF a < b THEN 0 ELSE a - b

-----------------------------------------------------------------------------
\* Mutant of PutEvent: the gate is only lowered when no event was scheduled for e.
PutEventStaleGate(e, due) ==
    /\ events' = [events EXCEPT ![e] = due]
    /\ active_events' = active_events \cup {e}
    /\ next_event_cycle' = IF due < next_event_cycle /\ e \notin active_events THEN due
                           ELSE next_event_cycle

\* The new event table after event e is given the due cycle `due`.
PutEvent(e, due) ==
    /\ events' = [events EXCEPT ![e] = due]
    /\ active_events' = active_events \cup {e}
    /\ next_event_cycle' = IF due < next_event_cycle THEN due ELSE next_event_cycle

\* CycleManager::schedule: relative to the clock, at least one cycle ahead, and
\* clamped to the clock's range.
ScheduleDue(in) ==
    LET ahead == IF in < 1 THEN 1 ELSE in
    IN  IF MaxCycle - ahead < cycle_count THEN MaxCycle ELSE cycle_count + ahead
Schedule(in, e) == PutEvent(e, ScheduleDue(in))

\* Mutant of FromDue: rescheduling from the overshot dispatch cycle.
FromDispatch(due, in) == ScheduleDue(in)

\* CycleManager::schedule_from_due: relative to the due cycle of the event that
\* is being dispatched (current_event_due, which only lives while its handler
\* runs); the result may lie in the past.
FromDue(due, in) == IF due + in > MaxCycle THEN MaxCycle ELSE due + in

-----------------------------------------------------------------------------
\* CycleManager::init, then Gpu::initialize_schedule and the first schedule of
\* the grid events.
Init ==
    /\ cycle_count = 0
    /\ events = [e \in Events |-> IF e = GpuScanline256 THEN FirstLinePeriod
                                  ELSE IF e \in GridEvents THEN GridPeriod ELSE 0]
    /\ next_event_cycle = IF GridEvents # {} /\ GridPeriod < FirstLinePeriod
                          THEN GridPeriod ELSE FirstLinePeriod
    /\ active_events = {GpuScanline256} \cup GridEvents
    /\ active_imm_events = {}
    /\ stamp = 0
    /\ pc = "guest"
    /\ todo = {}

\* Guest code starts a timer, an alarm, a wifi scan or the microphone.
GuestSchedule(e, in) ==
    /\ pc = "guest"
    /\ Schedule(in, e)
    /\ UNCHANGED <<cycle_count, active_imm_events, stamp, pc, todo>>

\* CycleManager::schedule_imm called from guest code.
GuestScheduleImm(i) ==
    /\ pc = "guest"
    /\ active_imm_events' = active_imm_events \cup {i}
    /\ UNCHANGED <<cycle_count, events, next_event_cycle, active_events,
                   stamp, pc, todo>>

\* regs_3d_run_cmds and the microphone keep the cycle at which they last ran.
GuestStamp ==
    /\ pc = "guest"
    /\ stamp' = cycle_count
    /\ UNCHANGED <<cycle_count, events, next_event_cycle, active_events, active_imm_events,
                   pc, todo>>

\* Entry of cm_check_events: the immediate flags are taken and cleared.
EnterCheck ==
    /\ pc' = "imm"
    /\ todo' = active_imm_events
    /\ active_imm_events' = {}
    /\ UNCHANGED <<events, next_event_cycle, active_events, stamp>>

\* CycleManager::add_cycles with the cycles of a slice, then the check.
AddCycles(n) ==
    /\ pc = "guest"
    /\ cycle_count' = Wrap(cycle_count + n)
    /\ EnterCheck

\* CycleManager::jump_to_next_event when both CPUs are idle, then the check.
JumpToNextEvent ==
    /\ pc = "guest"
    /\ cycle_count' = IF next_event_cycle > cycle_count THEN next_event_cycle ELSE cycle_count
    /\ EnterCheck

\* One immediate handler.  A handler may raise further immediate events (an
\* interrupt after a DMA transfer) and, as a DMA transfer may write any I/O
\* register, start a timer.
ImmHandler ==
    /\ pc = "imm"
    /\ \E i \in todo : IsFirst(i) /\ todo' = todo \ {i}
    /\ \E raised \in SUBSET ImmEvents : active_imm_events' = active_imm_events \cup raised
    /\ \/ UNCHANGED <<events, next_event_cycle, active_events>>
       \/ \E e \in TimerEvents, in \in TimerPeriods : Schedule(in, e)
    /\ UNCHANGED <<cycle_count, stamp, pc>>

\* Mutant of ImmDone: an event due at this very cycle waits for another slice.
ImmDoneStrict ==
    /\ pc = "imm" /\ todo = {}
    /\ IF cycle_count <= next_event_cycle
       THEN /\ pc' = "guest"
            /\ UNCHANGED <<todo, next_event_cycle>>
       ELSE /\ pc' = "timed"
            /\ todo' = active_events
            /\ next_event_cycle' = MaxCycle
    /\ UNCHANGED <<cycle_count, events, active_events, active_imm_events, stamp>>

\* After the immediate loop: nothing due, or start the timed loop with
\* next_event_cycle reset so that the loop recomputes it.
ImmDone ==
    /\ pc = "imm" /\ todo = {}
    /\ IF cycle_count < next_event_cycle
       THEN /\ pc' = "guest"
            /\ UNCHANGED <<todo, next_event_cycle>>
       ELSE /\ pc' = "timed"
            /\ todo' = active_events
            /\ next_event_cycle' = MaxCycle
    /\ UNCHANGED <<cycle_count, events, active_events, active_imm_events, stamp>>

\* An event of the snapshot that is not due only contributes to next_event_cycle.
TimedNotDue ==
    /\ pc = "timed"
    /\ \E e \in todo :
           /\ IsFirst(e)
           /\ events[e] > cycle_count
           /\ next_event_cycle' = IF events[e] < next_event_cycle THEN events[e] ELSE next_event_cycle
           /\ todo' = todo \ {e}
    /\ UNCHANGED <<cycle_count, events, active_events, active_imm_events, stamp, pc>>

\* Mutant of Reschedule: the flag of a dispatched event is not cleared.
RescheduleKeepsFlag(e, f, due) ==
    /\ events' = [events EXCEPT ![f] = due]
    /\ active_events' = active_events \cup {f}
    /\ next_event_cycle' = IF due < next_event_cycle THEN due ELSE next_event_cycle

\* The flag of the dispatched event e is cleared and its handler schedules f.
Reschedule(e, f, due) ==
    /\ events' = [events EXCEPT ![f] = due]
    /\ active_events' = (active_events \ {e}) \cup {f}
    /\ next_event_cycle' = IF due < next_event_cycle THEN due ELSE next_event_cycle

\* The timed loop reaches e and e is due.  Its handler may raise immediate
\* events (interrupts, DMA starts), which wait for the next check.
Dispatch(e) ==
    /\ pc = "timed" /\ IsFirst(e)
    /\ events[e] <= cycle_count
    /\ todo' = todo \ {e}
    /\ \E raised \in SUBSET ImmEvents : active_imm_events' = active_imm_events \cup raised
    /\ UNCHANGED <<cycle_count, stamp, pc>>

\* The GPU handlers schedule each other from the clock.
GpuOnScanline256 ==
    /\ Dispatch(GpuScanline256)
    /\ Reschedule(GpuScanline256, GpuScanline355, ScheduleDue(BlankPeriod))

\* Mutant of GpuOnScanline355: the end of a line schedules the end of a line.
GpuOnScanline355NoHblank ==
    /\ Dispatch(GpuScanline355)
    /\ Reschedule(GpuScanline355, GpuScanline355, ScheduleDue(VisiblePeriod))

GpuOnScanline355 ==
    /\ Dispatch(GpuScanline355)
    /\ Reschedule(GpuScanline355, GpuScanline256, ScheduleDue(VisiblePeriod))

\* spu_on_sample_event and sound_nitro_on_cmd_event reschedule themselves from
\* their due cycle.
GridHandler(e) ==
    /\ Dispatch(e)
    /\ Reschedule(e, e, FromDue(events[e], GridPeriod))

\* A timer or alarm handler: its timer is stopped, continues from its due cycle,
\* or (the microphone) is scheduled anew from the clock.
TimerHandler(e) ==
    /\ Dispatch(e)
    /\ \/ /\ active_events' = active_events \ {e}
          /\ UNCHANGED <<events, next_event_cycle>>
       \/ \E in \in TimerPeriods : Reschedule(e, e, FromDue(events[e], in))
       \/ \E in \in TimerPeriods : Reschedule(e, e, ScheduleDue(in))

\* The commands that sound_nitro_on_cmd_event runs may start an alarm while the
\* loop is under way.
HandlerStartsTimer(e, in) ==
    /\ pc = "timed"
    /\ Schedule(in, e)
    /\ UNCHANGED <<cycle_count, active_imm_events, stamp, pc, todo>>

\* The end of a check that does not rebase.
TimedDone ==
    /\ pc = "timed" /\ todo = {}
    /\ cycle_count <= Half
    /\ pc' = "guest"
    /\ UNCHANGED <<cycle_count, events, next_event_cycle, active_events, active_imm_events,
                   stamp, todo>>

\* cm_on_overflow_event: every stored cycle moves back by cycle_count.  The due
\* cycles and next_event_cycle are subtracted as they are, the stamps saturate.
CmOnOverflowEvent ==
    /\ pc = "timed" /\ todo = {}
    /\ cycle_count > Half
    /\ pc' = "guest"
    /\ events' = [e \in Events |-> IF e \in active_events THEN Wrap(events[e] - cycle_count)
                                   ELSE events[e]]
    /\ next_event_cycle' = Wrap(next_event_cycle - cycle_count)
    /\ stamp' = SaturatingSub(stamp, cycle_count)
    /\ cycle_count' = 0
    /\ UNCHANGED <<active_events, active_imm_events, todo>>

Tick == (\E n \in 1 .. MaxSlice : AddCycles(n)) \/ JumpToNextEvent
Check ==
    \/ ImmHandler \/ ImmDone
    \/ TimedNotDue \/ GpuOnScanline256 \/ GpuOnScanline355
    \/ \E e \in GridEvents : GridHandler(e)
    \/ \E e \in TimerEvents : TimerHandler(e)
    \/ TimedDone \/ CmOnOverflowEvent

Next ==
    \/ \E e \in TimerEvents, in \in TimerPeriods : GuestSchedule(e, in)
    \/ \E i \in ImmEvents : GuestScheduleImm(i)
    \/ \E e \in TimerEvents, in \in TimerPeriods : HandlerStartsTimer(e, in)
    \/ GuestStamp
    \/ Tick
    \/ Check

Spec == Init /\ [][Next]_vars

\* The CPU thread runs for ever: slices keep coming, and a check that has begun
\* runs to its end on the same thread.
FairSpec == Spec /\ WF_vars(Tick) /\ WF_vars(Check)

-----------------------------------------------------------------------------
TypeOK ==
    /\ cycle_count \in 0 .. MaxCycle
    /\ events \in [Events -> 0 .. MaxCycle]
    /\ next_event_cycle \in 0 .. MaxCycle
    /\ active_events \subseteq Events
    /\ active_imm_events \subseteq ImmEvents
    /\ stamp \in 0 .. MaxCycle
    /\ pc \in {"guest", "imm", "timed"}
    /\ todo \subseteq (IF pc = "imm" THEN ImmEvents ELSE Events)

\* next_event_cycle is the gate in front of the timed loop: no scheduled event
\* may be due before it, or the event is overlooked until something else passes
\* the gate.  Inside the loop this holds of the events already visited.
NextCoversActive ==
    \A e \in active_events \ (IF pc = "timed" THEN todo ELSE {}) : next_event_cycle <= events[e]

\* The premise of the rebase: no event is already past due when the clock is
\* moved back, so that no due cycle wraps around.
NoPastDueAtRebase ==
    (pc = "timed" /\ todo = {} /\ cycle_count > Half) =>
        (next_event_cycle >= cycle_count /\ \A e \in active_events : events[e] >= cycle_count)

\* The regime in which the premise is met: no slice is longer than the shortest
\* period, and a whole scanline and a slice fit between Half and the end of the clock.
SlicesFit ==
    /\ \A p \in TimerPeriods \cup {GridPeriod} : MaxSlice <= p
    /\ \A p \in {FirstLinePeriod, VisiblePeriod, BlankPeriod} : Half + p + MaxSlice <= MaxCycle
    /\ MaxSlice <= Half

\* The regime in which no due cycle of a grid event is clamped: one more period
\* fits behind them.
GridFits ==
    /\ \A p \in {FirstLinePeriod, VisiblePeriod, BlankPeriod} :
         Half + p + MaxSlice + GridPeriod <= MaxCycle
    /\ MaxSlice + GridPeriod <= Half

\* A handler runs less than a slice after its event's due cycle.
DispatchWithinSlice ==
    pc = "timed" => \A e \in todo : cycle_count - events[e] < MaxSlice

\* The scanline chain is never broken and never doubled: exactly one of the two
\* GPU events is scheduled, whichever handlers run in the same check.
OneScanlineEvent ==
    (GpuScanline256 \in active_events) # (GpuScanline355 \in active_events)

\* add_cycles never wraps the clock: the scanline events force a check, and with
\* it a rebase, early enough.
ClockNeverWraps ==
    pc = "guest" => cycle_count + MaxSlice <= MaxCycle

\* Events that reschedule from their due cycle stay on one grid, whatever the
\* slices and rebases: the phase between two of them never moves.
GridAligned ==
    \A e, f \in GridEvents : (events[e] - events[f]) % GridPeriod = 0

\* A kept clock reading is never ahead of the clock, so the elapsed time that
\* regs_3d_run_cmds and the microphone compute does not underflow.
StampNotAhead == stamp <= cycle_count

\* The strengthening behind the properties above: between checks every scheduled
\* event lies ahead of the clock, during a check the unvisited ones are less than
\* a slice late, and the scanline event that will force the rebase leaves room
\* for one more slice before the clock ends.
SchedulerInv ==
    /\ \A e \in active_events :
         events[e] > (IF pc = "imm" \/ (pc = "timed" /\ e \in todo) THEN cycle_count - MaxSlice
                      ELSE cycle_count)
    /\ pc # "imm" => next_event_cycle > cycle_count
    /\ pc = "timed" => todo \subseteq active_events
    /\ cycle_count < MaxCycle
    /\ \A e \in active_events \cap GpuEvents :
         events[e] <= MaxCycle - MaxSlice \/ (pc = "timed" /\ cycle_count > Half)

\* The strengthening behind GridAligned: grid events are never off the schedule,
\* so that every rebase moves them all, and the clock leaves room for their next
\* due cycle.
GridInv ==
    /\ GridEvents \subseteq active_events
    /\ GridAligned
    /\ cycle_count <= MaxCycle - GridPeriod
    /\ \A e \in active_events \cap GpuEvents :
         events[e] <= MaxCycle - MaxSlice - GridPeriod \/ (pc = "timed" /\ cycle_count > Half)

\* Every scheduled event comes up within the longest distance the code schedules:
\* no event is put off for a turn of the 32-bit clock.
EventsInReach ==
    \A e \in active_events :
        \/ events[e] <= cycle_count
        \/ \E in \in TimerPeriods \cup {GridPeriod, FirstLinePeriod, VisiblePeriod, BlankPeriod} :
                events[e] - cycle_count <= in

\* Scanlines keep coming: hblank and line end alternate for ever.
ScanlinesKeepComing ==
    /\ []<>(GpuScanline256 \in active_events)
    /\ []<>(GpuScanline355 \in active_events)

=============================================================================
