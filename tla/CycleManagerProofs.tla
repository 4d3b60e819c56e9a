------------------------- MODULE CycleManagerProofs -------------------------
(***************************************************************************)
(* Proofs about CycleManager, for every clock width, set of events, set of *)
(* periods and slice length.                                               *)
(***************************************************************************)
EXTENDS CycleManager, TLAPS

\* The two scanline events are distinct events.
LEMMA Scanlines ==
    /\ GpuScanline256 \in Events /\ GpuScanline355 \in Events
    /\ GpuScanline256 # GpuScanline355
  BY ConstantsAssumption DEF Events, GpuScanline256, GpuScanline355

\* What the dispatch of a due event does to the loop's state.
LEMMA DispatchType ==
    ASSUME TypeOK, NEW e, Dispatch(e)
    PROVE  /\ pc = "timed" /\ pc' = "timed"
           /\ e \in todo /\ e \in Events /\ todo' = todo \ {e} /\ todo' \subseteq Events
           /\ events[e] \in 0 .. MaxCycle /\ events[e] <= cycle_count
           /\ active_imm_events' \subseteq ImmEvents
           /\ cycle_count' = cycle_count /\ stamp' = stamp
           /\ cycle_count \in 0 .. MaxCycle /\ stamp \in 0 .. MaxCycle
  BY DEF TypeOK, Dispatch, IsFirst

\* The event table stays well typed when a handler schedules an event.
LEMMA RescheduleType ==
    ASSUME TypeOK, NEW e, NEW f \in Events, NEW due \in 0 .. MaxCycle, Reschedule(e, f, due)
    PROVE  /\ events' \in [Events -> 0 .. MaxCycle]
           /\ next_event_cycle' \in 0 .. MaxCycle
           /\ active_events' \subseteq Events
  BY DEF TypeOK, Reschedule

\* schedule and schedule_from_due compute cycles of the clock.
LEMMA DueType ==
    ASSUME TypeOK, NEW in \in Nat \ {0}, NEW due \in 0 .. MaxCycle
    PROVE  ScheduleDue(in) \in 0 .. MaxCycle /\ FromDue(due, in) \in 0 .. MaxCycle
  BY ConstantsAssumption DEF TypeOK, ScheduleDue, FromDue

\* Type correctness of the scheduler's state: no due cycle, gate or clock value
\* leaves the 32-bit range, the wrapping rebase included.
THEOREM TypeCorrect == Spec => []TypeOK
  <1> USE ConstantsAssumption
  <1>1. Init => TypeOK
    BY DEF Init, TypeOK, Events, GpuEvents, GpuScanline256, GpuScanline355
  <1>2. TypeOK /\ [Next]_vars => TypeOK'
    <2> SUFFICES ASSUME TypeOK, [Next]_vars PROVE TypeOK'
      OBVIOUS
    <2>1. ASSUME NEW e \in TimerEvents, NEW in \in TimerPeriods, GuestSchedule(e, in)
          PROVE  TypeOK'
      BY <2>1 DEF TypeOK, GuestSchedule, Schedule, PutEvent, ScheduleDue, TimerEvents
    <2>2. ASSUME NEW i \in ImmEvents, GuestScheduleImm(i) PROVE TypeOK'
      BY <2>2 DEF TypeOK, GuestScheduleImm
    <2>3. ASSUME NEW e \in TimerEvents, NEW in \in TimerPeriods, HandlerStartsTimer(e, in)
          PROVE  TypeOK'
      BY <2>3 DEF TypeOK, HandlerStartsTimer, Schedule, PutEvent, ScheduleDue, TimerEvents
    <2>4. CASE GuestStamp
      BY <2>4 DEF TypeOK, GuestStamp
    <2>5. ASSUME NEW n \in 1 .. MaxSlice, AddCycles(n) PROVE TypeOK'
      BY <2>5 DEF TypeOK, AddCycles, EnterCheck, Wrap
    <2>6. CASE JumpToNextEvent
      BY <2>6 DEF TypeOK, JumpToNextEvent, EnterCheck
    <2>7. CASE ImmHandler
      BY <2>7 DEF TypeOK, ImmHandler, Schedule, PutEvent, ScheduleDue, TimerEvents
    <2>8. CASE ImmDone
      BY <2>8 DEF TypeOK, ImmDone
    <2>9. CASE TimedNotDue
      BY <2>9 DEF TypeOK, TimedNotDue
    <2>10. CASE GpuOnScanline256
      BY <2>10, Scanlines, DispatchType, RescheduleType, DueType DEF TypeOK, GpuOnScanline256
    <2>11. CASE GpuOnScanline355
      BY <2>11, Scanlines, DispatchType, RescheduleType, DueType DEF TypeOK, GpuOnScanline355
    <2>12. ASSUME NEW e \in GridEvents, GridHandler(e) PROVE TypeOK'
      <3>1. e \in Events /\ FromDue(events[e], GridPeriod) \in 0 .. MaxCycle
        BY <2>12, DispatchType, DueType DEF GridHandler
      <3> QED
        BY <2>12, <3>1, DispatchType, RescheduleType DEF TypeOK, GridHandler
    <2>13. ASSUME NEW e \in TimerEvents, TimerHandler(e) PROVE TypeOK'
      <3>1. Dispatch(e)
        BY <2>13 DEF TimerHandler
      <3>2. CASE active_events' = active_events \ {e} /\ UNCHANGED <<events, next_event_cycle>>
        BY <3>1, <3>2, DispatchType DEF TypeOK
      <3>3. ASSUME NEW in \in TimerPeriods, Reschedule(e, e, FromDue(events[e], in)) PROVE TypeOK'
        BY <3>1, <3>3, DispatchType, RescheduleType, DueType DEF TypeOK
      <3>4. ASSUME NEW in \in TimerPeriods, Reschedule(e, e, ScheduleDue(in)) PROVE TypeOK'
        BY <3>1, <3>4, DispatchType, RescheduleType, DueType DEF TypeOK
      <3> QED
        BY <2>13, <3>2, <3>3, <3>4 DEF TimerHandler
    <2>14. CASE TimedDone
      BY <2>14 DEF TypeOK, TimedDone
    <2>15. CASE CmOnOverflowEvent
      BY <2>15 DEF TypeOK, CmOnOverflowEvent, Wrap, SaturatingSub
    <2>16. CASE UNCHANGED vars
      BY <2>16 DEF TypeOK, vars
    <2> QED
      BY <2>1, <2>2, <2>3, <2>4, <2>5, <2>6, <2>7, <2>8, <2>9, <2>10, <2>11, <2>12, <2>13,
         <2>14, <2>15, <2>16
         DEF Next, Tick, Check
  <1> QED
    BY <1>1, <1>2, PTL DEF Spec

-----------------------------------------------------------------------------
\* One step keeps the gate at or before every scheduled event.
LEMMA GateStep ==
    TypeOK /\ NoPastDueAtRebase /\ NextCoversActive /\ [Next]_vars => NextCoversActive'
  <1> USE ConstantsAssumption
  <1> SUFFICES ASSUME TypeOK, NoPastDueAtRebase, NextCoversActive, [Next]_vars
               PROVE  NextCoversActive'
    OBVIOUS
  <1>1. ASSUME NEW e \in TimerEvents, NEW in \in TimerPeriods, GuestSchedule(e, in)
        PROVE  NextCoversActive'
    <2>1. ScheduleDue(in) \in 0 .. MaxCycle
      BY DueType, 0 \in 0 .. MaxCycle
    <2> QED
      BY <1>1, <2>1 DEF TypeOK, NextCoversActive, GuestSchedule, Schedule, PutEvent, TimerEvents
  <1>2. ASSUME NEW i \in ImmEvents, GuestScheduleImm(i) PROVE NextCoversActive'
    BY <1>2 DEF NextCoversActive, GuestScheduleImm
  <1>3. ASSUME NEW e \in TimerEvents, NEW in \in TimerPeriods, HandlerStartsTimer(e, in)
        PROVE  NextCoversActive'
    <2>1. ScheduleDue(in) \in 0 .. MaxCycle
      BY DueType, 0 \in 0 .. MaxCycle
    <2> QED
      BY <1>3, <2>1 DEF TypeOK, NextCoversActive, HandlerStartsTimer, Schedule, PutEvent, TimerEvents
  <1>4. CASE GuestStamp
    BY <1>4 DEF NextCoversActive, GuestStamp
  <1>5. ASSUME NEW n \in 1 .. MaxSlice, AddCycles(n) PROVE NextCoversActive'
    BY <1>5 DEF NextCoversActive, AddCycles, EnterCheck
  <1>6. CASE JumpToNextEvent
    BY <1>6 DEF NextCoversActive, JumpToNextEvent, EnterCheck
  <1>7. CASE ImmHandler
    <2>1. \A in \in TimerPeriods : ScheduleDue(in) \in 0 .. MaxCycle
      BY DueType, 0 \in 0 .. MaxCycle
    <2> QED
      BY <1>7, <2>1 DEF TypeOK, NextCoversActive, ImmHandler, Schedule, PutEvent, TimerEvents
  <1>8. CASE ImmDone
    BY <1>8 DEF NextCoversActive, ImmDone
  <1>9. CASE TimedNotDue
    <2>1. PICK e \in todo :
            /\ next_event_cycle' = IF events[e] < next_event_cycle THEN events[e]
                                    ELSE next_event_cycle
            /\ todo' = todo \ {e}
      BY <1>9 DEF TimedNotDue
    <2>2. /\ pc = "timed" /\ pc' = "timed" /\ active_events' = active_events /\ events' = events
          /\ events \in [Events -> 0 .. MaxCycle] /\ active_events \subseteq Events
          /\ next_event_cycle \in 0 .. MaxCycle
      BY <1>9 DEF TypeOK, TimedNotDue
    <2>3. e \in Events
      BY <2>2 DEF TypeOK
    <2> QED
      BY <2>1, <2>2, <2>3 DEF NextCoversActive
  <1>10. ASSUME NEW e, NEW f \in Events, NEW due \in 0 .. MaxCycle,
                Dispatch(e), Reschedule(e, f, due)
         PROVE  NextCoversActive'
    BY <1>10, DispatchType DEF TypeOK, NextCoversActive, Reschedule
  <1>11. CASE GpuOnScanline256
    BY <1>10, <1>11, Scanlines, DueType, 0 \in 0 .. MaxCycle DEF GpuOnScanline256
  <1>12. CASE GpuOnScanline355
    BY <1>10, <1>12, Scanlines, DueType, 0 \in 0 .. MaxCycle DEF GpuOnScanline355
  <1>13. ASSUME NEW e \in GridEvents, GridHandler(e) PROVE NextCoversActive'
    BY <1>10, <1>13, DispatchType, DueType DEF GridHandler
  <1>14. ASSUME NEW e \in TimerEvents, TimerHandler(e) PROVE NextCoversActive'
    <2>1. Dispatch(e)
      BY <1>14 DEF TimerHandler
    <2>2. CASE active_events' = active_events \ {e} /\ UNCHANGED <<events, next_event_cycle>>
      BY <2>1, <2>2, DispatchType DEF NextCoversActive
    <2>3. ASSUME NEW in \in TimerPeriods, Reschedule(e, e, FromDue(events[e], in))
          PROVE  NextCoversActive'
      BY <1>10, <2>1, <2>3, DispatchType, DueType
    <2>4. ASSUME NEW in \in TimerPeriods, Reschedule(e, e, ScheduleDue(in))
          PROVE  NextCoversActive'
      BY <1>10, <2>1, <2>4, DispatchType, DueType
    <2> QED
      BY <1>14, <2>2, <2>3, <2>4 DEF TimerHandler
  <1>15. CASE TimedDone
    BY <1>15 DEF NextCoversActive, TimedDone
  <1>16. CASE CmOnOverflowEvent
    BY <1>16 DEF TypeOK, NoPastDueAtRebase, NextCoversActive, CmOnOverflowEvent, Wrap
  <1>17. CASE UNCHANGED vars
    BY <1>17 DEF NextCoversActive, vars
  <1> QED
    BY <1>1, <1>2, <1>3, <1>4, <1>5, <1>6, <1>7, <1>8, <1>9, <1>11, <1>12, <1>13, <1>14,
       <1>15, <1>16, <1>17
       DEF Next, Tick, Check

\* The gate in front of the timed loop never hides a scheduled event, catch-up
\* reschedules into the past included, as long as no event is past due when
\* cm_on_overflow_event subtracts.  No assumption on slices or periods.
THEOREM GateCoversEvents == Spec /\ []NoPastDueAtRebase => []NextCoversActive
  <1>1. Init => NextCoversActive
    BY ConstantsAssumption
       DEF Init, NextCoversActive, Events, GpuEvents, GpuScanline256, GpuScanline355
  <1> QED
    BY <1>1, GateStep, TypeCorrect, PTL DEF Spec

-----------------------------------------------------------------------------
\* Between the bounds that SlicesFit states, schedule and schedule_from_due put
\* every event ahead of the clock.
LEMMA DueAhead ==
    ASSUME TypeOK, cycle_count < MaxCycle, NEW in \in Nat \ {0}
    PROVE  /\ ScheduleDue(in) \in 0 .. MaxCycle
           /\ ScheduleDue(in) > cycle_count
           /\ ScheduleDue(in) <= cycle_count + in
           /\ \A due \in 0 .. MaxCycle :
                /\ FromDue(due, in) \in 0 .. MaxCycle
                /\ (due > cycle_count - MaxSlice /\ MaxSlice <= in) => FromDue(due, in) > cycle_count
  BY ConstantsAssumption DEF TypeOK, ScheduleDue, FromDue

\* Scheduling a timer or alarm, from guest code or from a handler.
LEMMA TimerKeepsSchedulerInv ==
    ASSUME TypeOK, SchedulerInv, OneScanlineEvent,
           NEW e \in TimerEvents, NEW in \in TimerPeriods, Schedule(in, e),
           cycle_count' = cycle_count, pc' = pc,
           todo' = todo \/ pc = "imm"
    PROVE  SchedulerInv' /\ OneScanlineEvent'
  <1> USE ConstantsAssumption
  <1> DEFINE due == ScheduleDue(in)
  <1>1. due \in 0 .. MaxCycle /\ due > cycle_count
    BY DueAhead DEF SchedulerInv
  <1>2. e \in Events /\ e \notin GpuEvents
    BY DEF TimerEvents
  <1>3. /\ events' = [events EXCEPT ![e] = due]
        /\ active_events' = active_events \cup {e}
        /\ next_event_cycle' = IF due < next_event_cycle THEN due ELSE next_event_cycle
    BY DEF Schedule, PutEvent
  <1> HIDE DEF due
  <1>4. OneScanlineEvent'
    BY <1>2, <1>3 DEF OneScanlineEvent, GpuEvents
  <1>5. \A x \in active_events' :
          events'[x] > (IF pc' = "imm" \/ (pc' = "timed" /\ x \in todo') THEN cycle_count' - MaxSlice
                        ELSE cycle_count')
    BY <1>1, <1>2, <1>3 DEF TypeOK, SchedulerInv
  <1>6. \A x \in active_events' \cap GpuEvents :
          events'[x] <= MaxCycle - MaxSlice \/ (pc' = "timed" /\ cycle_count' > Half)
    BY <1>2, <1>3 DEF TypeOK, SchedulerInv
  <1>7. /\ pc' # "imm" => next_event_cycle' > cycle_count'
        /\ pc' = "timed" => todo' \subseteq active_events'
        /\ cycle_count' < MaxCycle
    BY <1>1, <1>3 DEF TypeOK, SchedulerInv
  <1> QED
    BY <1>4, <1>5, <1>6, <1>7 DEF SchedulerInv

\* A handler that reschedules ahead of the clock, the scanline chain kept.
LEMMA HandlerKeepsSchedulerInv ==
    ASSUME TypeOK, SchedulerInv,
           NEW e, NEW f \in Events, NEW due \in 0 .. MaxCycle,
           Dispatch(e), Reschedule(e, f, due), due > cycle_count,
           f \in GpuEvents => due <= MaxCycle - MaxSlice \/ cycle_count > Half
    PROVE  SchedulerInv'
  <1> USE ConstantsAssumption
  <1>1. /\ events' = [events EXCEPT ![f] = due]
        /\ active_events' = (active_events \ {e}) \cup {f}
        /\ next_event_cycle' = IF due < next_event_cycle THEN due ELSE next_event_cycle
    BY DEF Reschedule
  <1>2. /\ pc = "timed" /\ pc' = "timed" /\ cycle_count' = cycle_count
        /\ e \in todo /\ todo' = todo \ {e} /\ todo \subseteq active_events
    BY DispatchType DEF SchedulerInv
  <1>3. \A x \in active_events' :
          events'[x] > (IF x \in todo' THEN cycle_count' - MaxSlice ELSE cycle_count')
    BY <1>1, <1>2 DEF TypeOK, SchedulerInv
  <1>4. \A x \in active_events' \cap GpuEvents :
          events'[x] <= MaxCycle - MaxSlice \/ cycle_count' > Half
    BY <1>1, <1>2 DEF TypeOK, SchedulerInv
  <1>5. /\ next_event_cycle' > cycle_count'
        /\ todo' \subseteq active_events'
        /\ cycle_count' < MaxCycle
    BY <1>1, <1>2 DEF TypeOK, SchedulerInv
  <1> QED
    BY <1>2, <1>3, <1>4, <1>5 DEF SchedulerInv

\* One step keeps every event punctual and the scanline chain whole.
LEMMA SchedulerStep ==
    ASSUME SlicesFit
    PROVE  TypeOK /\ NextCoversActive /\ OneScanlineEvent /\ SchedulerInv /\ [Next]_vars
             => OneScanlineEvent' /\ SchedulerInv'
  <1> USE ConstantsAssumption
  <1> SUFFICES ASSUME TypeOK, NextCoversActive, OneScanlineEvent, SchedulerInv, [Next]_vars
               PROVE  OneScanlineEvent' /\ SchedulerInv'
    OBVIOUS
  <1>1. ASSUME NEW e \in TimerEvents, NEW in \in TimerPeriods, GuestSchedule(e, in)
        PROVE  OneScanlineEvent' /\ SchedulerInv'
    BY <1>1, TimerKeepsSchedulerInv DEF GuestSchedule
  <1>2. ASSUME NEW i \in ImmEvents, GuestScheduleImm(i) PROVE OneScanlineEvent' /\ SchedulerInv'
    BY <1>2 DEF OneScanlineEvent, SchedulerInv, GuestScheduleImm
  <1>3. ASSUME NEW e \in TimerEvents, NEW in \in TimerPeriods, HandlerStartsTimer(e, in)
        PROVE  OneScanlineEvent' /\ SchedulerInv'
    BY <1>3, TimerKeepsSchedulerInv DEF HandlerStartsTimer
  <1>4. CASE GuestStamp
    BY <1>4 DEF OneScanlineEvent, SchedulerInv, GuestStamp
  <1>5. ASSUME pc = "guest"
        PROVE  cycle_count + MaxSlice < MaxCycle /\ next_event_cycle <= MaxCycle - MaxSlice
    BY <1>5, Scanlines DEF TypeOK, NextCoversActive, OneScanlineEvent, SchedulerInv, GpuEvents
  <1>6. ASSUME NEW n \in 1 .. MaxSlice, AddCycles(n) PROVE OneScanlineEvent' /\ SchedulerInv'
    <2>1. cycle_count' = cycle_count + n /\ cycle_count' < MaxCycle
      BY <1>5, <1>6 DEF TypeOK, AddCycles, Wrap
    <2> QED
      BY <1>6, <2>1 DEF TypeOK, OneScanlineEvent, SchedulerInv, AddCycles, EnterCheck
  <1>7. CASE JumpToNextEvent
    <2>1. cycle_count' = next_event_cycle /\ next_event_cycle < MaxCycle
      BY <1>5, <1>7 DEF TypeOK, SchedulerInv, JumpToNextEvent
    <2> QED
      BY <1>7, <2>1
         DEF TypeOK, NextCoversActive, OneScanlineEvent, SchedulerInv, JumpToNextEvent, EnterCheck
  <1>8. CASE ImmHandler
    <2>1. ASSUME UNCHANGED <<events, next_event_cycle, active_events>>
          PROVE  OneScanlineEvent' /\ SchedulerInv'
      BY <1>8, <2>1 DEF OneScanlineEvent, SchedulerInv, ImmHandler
    <2>2. ASSUME NEW e \in TimerEvents, NEW in \in TimerPeriods, Schedule(in, e)
          PROVE  OneScanlineEvent' /\ SchedulerInv'
      BY <1>8, <2>2, TimerKeepsSchedulerInv DEF ImmHandler
    <2> QED
      BY <1>8, <2>1, <2>2 DEF ImmHandler
  <1>9. CASE ImmDone
    BY <1>9 DEF TypeOK, NextCoversActive, OneScanlineEvent, SchedulerInv, ImmDone
  <1>10. CASE TimedNotDue
    BY <1>10 DEF TypeOK, OneScanlineEvent, SchedulerInv, TimedNotDue
  <1>11. CASE GpuOnScanline256
    <2> DEFINE due == ScheduleDue(BlankPeriod)
    <2>1. due \in 0 .. MaxCycle /\ due > cycle_count /\ due <= cycle_count + BlankPeriod
      BY DueAhead DEF SchedulerInv
    <2>2. due <= MaxCycle - MaxSlice \/ cycle_count > Half
      BY <2>1 DEF SlicesFit, TypeOK
    <2>3. Dispatch(GpuScanline256) /\ Reschedule(GpuScanline256, GpuScanline355, due)
      BY <1>11 DEF GpuOnScanline256
    <2> HIDE DEF due
    <2>4. SchedulerInv'
      BY <2>1, <2>2, <2>3, Scanlines, HandlerKeepsSchedulerInv
    <2>5. GpuScanline256 \in active_events
      BY <2>3, DispatchType DEF SchedulerInv
    <2>6. OneScanlineEvent'
      BY <2>3, <2>5, Scanlines DEF OneScanlineEvent, Reschedule
    <2> QED
      BY <2>4, <2>6
  <1>12. CASE GpuOnScanline355
    <2> DEFINE due == ScheduleDue(VisiblePeriod)
    <2>1. due \in 0 .. MaxCycle /\ due > cycle_count /\ due <= cycle_count + VisiblePeriod
      BY DueAhead DEF SchedulerInv
    <2>2. due <= MaxCycle - MaxSlice \/ cycle_count > Half
      BY <2>1 DEF SlicesFit, TypeOK
    <2>3. Dispatch(GpuScanline355) /\ Reschedule(GpuScanline355, GpuScanline256, due)
      BY <1>12 DEF GpuOnScanline355
    <2> HIDE DEF due
    <2>4. SchedulerInv'
      BY <2>1, <2>2, <2>3, Scanlines, HandlerKeepsSchedulerInv
    <2>5. GpuScanline355 \in active_events
      BY <2>3, DispatchType DEF SchedulerInv
    <2>6. OneScanlineEvent'
      BY <2>3, <2>5, Scanlines DEF OneScanlineEvent, Reschedule
    <2> QED
      BY <2>4, <2>6
  <1>13. ASSUME NEW e \in Events \ GpuEvents, NEW in \in Nat \ {0}, Dispatch(e), MaxSlice <= in,
                \/ Reschedule(e, e, FromDue(events[e], in))
                \/ Reschedule(e, e, ScheduleDue(in))
         PROVE  OneScanlineEvent' /\ SchedulerInv'
    <2>1. PICK due : due \in {FromDue(events[e], in), ScheduleDue(in)} /\ Reschedule(e, e, due)
      BY <1>13
    <2>2. events[e] > cycle_count - MaxSlice /\ events[e] \in 0 .. MaxCycle
      BY <1>13, DispatchType DEF SchedulerInv
    <2>3. due \in 0 .. MaxCycle /\ due > cycle_count
      BY <1>13, <2>1, <2>2, DueAhead DEF SchedulerInv
    <2>4. SchedulerInv'
      BY <1>13, <2>1, <2>3, HandlerKeepsSchedulerInv
    <2>5. OneScanlineEvent'
      BY <1>13, <2>1 DEF OneScanlineEvent, Reschedule, GpuEvents
    <2> QED
      BY <2>4, <2>5
  <1>14. ASSUME NEW e \in GridEvents, GridHandler(e) PROVE OneScanlineEvent' /\ SchedulerInv'
    BY <1>13, <1>14 DEF GridHandler, SlicesFit
  <1>15. ASSUME NEW e \in TimerEvents, TimerHandler(e) PROVE OneScanlineEvent' /\ SchedulerInv'
    <2>1. Dispatch(e) /\ e \in Events \ GpuEvents
      BY <1>15 DEF TimerHandler, TimerEvents
    <2>2. CASE active_events' = active_events \ {e} /\ UNCHANGED <<events, next_event_cycle>>
      BY <2>1, <2>2, DispatchType DEF OneScanlineEvent, SchedulerInv, GpuEvents
    <2>3. ASSUME NEW in \in TimerPeriods,
                 Reschedule(e, e, FromDue(events[e], in)) \/ Reschedule(e, e, ScheduleDue(in))
          PROVE  OneScanlineEvent' /\ SchedulerInv'
      BY <1>13, <2>1, <2>3 DEF SlicesFit
    <2> QED
      BY <1>15, <2>2, <2>3 DEF TimerHandler
  <1>16. CASE TimedDone
    BY <1>16 DEF TypeOK, OneScanlineEvent, SchedulerInv, TimedDone
  <1>17. CASE CmOnOverflowEvent
    <2>1. /\ pc = "timed" /\ pc' = "guest" /\ todo = {} /\ cycle_count > Half /\ cycle_count' = 0
          /\ active_events' = active_events /\ todo' = todo
      BY <1>17 DEF CmOnOverflowEvent
    <2>2. \A e \in active_events : events'[e] = events[e] - cycle_count /\ events[e] > cycle_count
      BY <1>17, <2>1 DEF TypeOK, SchedulerInv, CmOnOverflowEvent, Wrap
    <2>3. next_event_cycle' > 0
      BY <1>17, <2>1 DEF TypeOK, SchedulerInv, CmOnOverflowEvent, Wrap
    <2>4. \A e \in active_events : events[e] - cycle_count <= MaxCycle - MaxSlice
      BY <2>1 DEF TypeOK, SlicesFit
    <2>5. \A e \in active_events : events'[e] > 0 /\ events'[e] <= MaxCycle - MaxSlice
      BY <2>1, <2>2, <2>4 DEF TypeOK
    <2> QED
      BY <2>1, <2>3, <2>5 DEF OneScanlineEvent, SchedulerInv
  <1>18. CASE UNCHANGED vars
    BY <1>18 DEF OneScanlineEvent, SchedulerInv, vars
  <1> QED
    BY <1>1, <1>2, <1>3, <1>4, <1>6, <1>7, <1>8, <1>9, <1>10, <1>11, <1>12, <1>14, <1>15,
       <1>16, <1>17, <1>18
       DEF Next, Tick, Check

\* When slices fit the periods, events are dispatched less than a slice late, the
\* clock never wraps in add_cycles, the rebase meets no past-due event, the
\* scanline chain is never broken and the gate hides no event.
THEOREM PunctualScheduler ==
    ASSUME SlicesFit
    PROVE  Spec => [](/\ NextCoversActive /\ NoPastDueAtRebase /\ DispatchWithinSlice
                      /\ OneScanlineEvent /\ ClockNeverWraps /\ SchedulerInv)
  <1> USE ConstantsAssumption
  <1>1. Init => NextCoversActive /\ OneScanlineEvent /\ SchedulerInv
    <2> SUFFICES ASSUME Init PROVE NextCoversActive /\ OneScanlineEvent /\ SchedulerInv
      OBVIOUS
    <2>1. OneScanlineEvent
      BY DEF Init, OneScanlineEvent, GpuEvents, GpuScanline256, GpuScanline355
    <2> QED
      BY <2>1, Scanlines
         DEF Init, NextCoversActive, SchedulerInv, SlicesFit, GpuEvents, GpuScanline256,
             GpuScanline355, Events
  <1>2. TypeOK /\ SchedulerInv => NoPastDueAtRebase /\ DispatchWithinSlice
    <2> SUFFICES ASSUME TypeOK, SchedulerInv PROVE NoPastDueAtRebase /\ DispatchWithinSlice
      OBVIOUS
    <2>1. NoPastDueAtRebase
      BY DEF TypeOK, SchedulerInv, NoPastDueAtRebase
    <2>2. ASSUME pc = "timed", NEW e \in todo PROVE cycle_count - events[e] < MaxSlice
      <3>1. e \in active_events /\ e \in Events /\ events[e] > cycle_count - MaxSlice
        BY <2>2 DEF TypeOK, SchedulerInv
      <3> QED
        BY <3>1 DEF TypeOK
    <2> QED
      BY <2>1, <2>2 DEF DispatchWithinSlice
  <1>3. TypeOK /\ SchedulerInv /\ OneScanlineEvent => ClockNeverWraps
    BY Scanlines DEF TypeOK, SchedulerInv, OneScanlineEvent, ClockNeverWraps, GpuEvents
  <1> QED
    BY <1>1, <1>2, <1>3, GateStep, SchedulerStep, TypeCorrect, PTL DEF Spec

-----------------------------------------------------------------------------
\* The timed loop only visits scheduled events.
SnapshotScheduled == pc = "timed" => todo \subseteq active_events

\* One step of the scanline chain: a dispatched event is off the schedule when
\* its handler schedules the other one.
LEMMA ChainStep ==
    TypeOK /\ OneScanlineEvent /\ SnapshotScheduled /\ [Next]_vars
      => OneScanlineEvent' /\ SnapshotScheduled'
  <1> USE ConstantsAssumption DEF SnapshotScheduled
  <1> DEFINE Goal == OneScanlineEvent' /\ SnapshotScheduled'
  <1> SUFFICES ASSUME TypeOK, OneScanlineEvent, SnapshotScheduled, [Next]_vars PROVE Goal
    OBVIOUS
  <1>1. ASSUME NEW e \in TimerEvents, NEW due, PutEvent(e, due), pc' = pc, todo' \subseteq todo
        PROVE  Goal
    <2>1. active_events' = active_events \cup {e} /\ e \notin GpuEvents
      BY <1>1 DEF PutEvent, TimerEvents
    <2> QED
      BY <1>1, <2>1 DEF OneScanlineEvent, GpuEvents
  <1>2. ASSUME NEW e \in TimerEvents, NEW in \in TimerPeriods,
               GuestSchedule(e, in) \/ HandlerStartsTimer(e, in)
        PROVE  Goal
    BY <1>1, <1>2 DEF GuestSchedule, HandlerStartsTimer, Schedule
  <1>3. ASSUME active_events' = active_events, pc' = pc, todo' \subseteq todo PROVE Goal
    BY <1>3 DEF OneScanlineEvent
  <1>4. ASSUME NEW i \in ImmEvents, GuestScheduleImm(i) PROVE Goal
    BY <1>3, <1>4 DEF GuestScheduleImm
  <1>5. CASE GuestStamp \/ UNCHANGED vars
    BY <1>3, <1>5 DEF GuestStamp, vars
  <1>6. CASE Tick
    BY <1>6 DEF Tick, AddCycles, JumpToNextEvent, EnterCheck, OneScanlineEvent
  <1>7. CASE ImmHandler
    BY <1>1, <1>3, <1>7 DEF ImmHandler, Schedule
  <1>8. CASE ImmDone
    BY <1>8 DEF ImmDone, OneScanlineEvent
  <1>9. CASE TimedNotDue
    BY <1>3, <1>9 DEF TimedNotDue
  <1>10. ASSUME NEW e, Dispatch(e)
         PROVE  /\ e \in active_events /\ pc' = "timed"
                /\ \A f : active_events' = (active_events \ {e}) \cup {f}
                            => todo' \subseteq active_events'
                /\ active_events' = active_events \ {e} => todo' \subseteq active_events'
    BY <1>10, DispatchType
  <1>11. CASE GpuOnScanline256
    BY <1>10, <1>11, Scanlines DEF GpuOnScanline256, Reschedule, OneScanlineEvent
  <1>12. CASE GpuOnScanline355
    BY <1>10, <1>12, Scanlines DEF GpuOnScanline355, Reschedule, OneScanlineEvent
  <1>13. ASSUME NEW e \in Events \ GpuEvents, Dispatch(e),
                active_events' \in {active_events \ {e}, (active_events \ {e}) \cup {e}}
         PROVE  Goal
    <2>1. \A f \in GpuEvents : f \in active_events' <=> f \in active_events
      BY <1>13
    <2>2. OneScanlineEvent'
      BY <2>1 DEF OneScanlineEvent, GpuEvents
    <2> QED
      BY <1>10, <1>13, <2>2
  <1>14. ASSUME NEW e \in GridEvents, GridHandler(e) PROVE Goal
    BY <1>13, <1>14 DEF GridHandler, Reschedule
  <1>15. ASSUME NEW e \in TimerEvents, TimerHandler(e) PROVE Goal
    <2>1. Dispatch(e) /\ e \in Events \ GpuEvents
      BY <1>15 DEF TimerHandler, TimerEvents
    <2>2. active_events' \in {active_events \ {e}, (active_events \ {e}) \cup {e}}
      BY <1>15 DEF TimerHandler, Reschedule
    <2> QED
      BY <1>13, <2>1, <2>2
  <1>16. CASE TimedDone \/ CmOnOverflowEvent
    BY <1>16 DEF TimedDone, CmOnOverflowEvent, OneScanlineEvent
  <1> QED
    BY <1>2, <1>4, <1>5, <1>6, <1>7, <1>8, <1>9, <1>11, <1>12, <1>14, <1>15, <1>16
       DEF Next, Check

\* Exactly one of the two scanline events is scheduled, for every clock width,
\* slice length and period: gpu_on_scanline256_event and gpu_on_scanline355_event
\* hand the chain to each other even when rebases wrap a due cycle.
THEOREM ScanlineChain == Spec => []OneScanlineEvent
  <1>1. Init => OneScanlineEvent /\ SnapshotScheduled
    BY ConstantsAssumption
       DEF Init, SnapshotScheduled, OneScanlineEvent, GpuEvents, GpuScanline256, GpuScanline355
  <1> QED
    BY <1>1, ChainStep, TypeCorrect, PTL DEF Spec

-----------------------------------------------------------------------------
\* One step never lets a kept clock reading overtake the clock.
LEMMA StampStep ==
    TypeOK /\ ClockNeverWraps /\ StampNotAhead /\ [Next]_vars => StampNotAhead'
  <1> USE ConstantsAssumption
  <1> SUFFICES ASSUME TypeOK, ClockNeverWraps, StampNotAhead, [Next]_vars PROVE StampNotAhead'
    OBVIOUS
  <1>1. ASSUME cycle_count' = cycle_count, stamp' = stamp PROVE StampNotAhead'
    BY <1>1 DEF StampNotAhead
  <1>2. ASSUME NEW e \in TimerEvents, NEW in \in TimerPeriods,
               GuestSchedule(e, in) \/ HandlerStartsTimer(e, in)
        PROVE  StampNotAhead'
    BY <1>1, <1>2 DEF GuestSchedule, HandlerStartsTimer
  <1>3. ASSUME NEW i \in ImmEvents, GuestScheduleImm(i) PROVE StampNotAhead'
    BY <1>1, <1>3 DEF GuestScheduleImm
  <1>4. CASE GuestStamp
    BY <1>4 DEF GuestStamp, StampNotAhead, TypeOK
  <1>5. ASSUME NEW n \in 1 .. MaxSlice, AddCycles(n) PROVE StampNotAhead'
    BY <1>5 DEF AddCycles, EnterCheck, StampNotAhead, TypeOK, ClockNeverWraps, Wrap
  <1>6. CASE JumpToNextEvent
    BY <1>6 DEF JumpToNextEvent, EnterCheck, StampNotAhead, TypeOK
  <1>7. CASE ImmHandler \/ ImmDone \/ TimedNotDue \/ TimedDone \/ UNCHANGED vars
    BY <1>1, <1>7 DEF ImmHandler, ImmDone, TimedNotDue, TimedDone, vars
  <1>8. ASSUME NEW e, Dispatch(e) PROVE StampNotAhead'
    BY <1>1, <1>8 DEF Dispatch
  <1>9. CASE GpuOnScanline256 \/ GpuOnScanline355
    BY <1>8, <1>9 DEF GpuOnScanline256, GpuOnScanline355
  <1>10. ASSUME NEW e, GridHandler(e) \/ TimerHandler(e) PROVE StampNotAhead'
    BY <1>8, <1>10 DEF GridHandler, TimerHandler
  <1>11. CASE CmOnOverflowEvent
    BY <1>11 DEF CmOnOverflowEvent, SaturatingSub, StampNotAhead, TypeOK
  <1> QED
    BY <1>2, <1>3, <1>4, <1>5, <1>6, <1>7, <1>9, <1>10, <1>11 DEF Next, Tick, Check

\* When slices fit the periods, the elapsed time that regs_3d_run_cmds and the
\* microphone compute from a kept reading never underflows: the clock is not
\* wrapped by add_cycles, and the rebase moves the reading with it.
THEOREM ReadingsStayBehind ==
    ASSUME SlicesFit
    PROVE  Spec => []StampNotAhead
  <1>1. Init => StampNotAhead
    BY DEF Init, StampNotAhead
  <1> QED
    BY <1>1, StampStep, TypeCorrect, PunctualScheduler, PTL DEF Spec

-----------------------------------------------------------------------------
\* Adding a period to a distance, or subtracting one, keeps it a whole number of
\* periods.
LEMMA WholePeriods ==
    ASSUME NEW g \in Nat \ {0}, NEW d \in Int, d % g = 0
    PROVE  (d + g) % g = 0 /\ (d - g) % g = 0
  <1> DEFINE k == d \div g
  <1>1. k \in Int /\ d = g * k + (d % g)
    BY SMTT(20)
  <1> HIDE DEF k
  <1>2. d = g * k
    BY <1>1
  <1>3. ASSUME NEW j \in Int PROVE (g * j) % g = 0
    BY SMTT(20)
  <1>4. d + g = g * (k + 1) /\ d - g = g * (k - 1)
    BY <1>1, <1>2, SMTT(20)
  <1>5. k + 1 \in Int /\ k - 1 \in Int
    BY <1>1
  <1>6. (g * (k + 1)) % g = 0 /\ (g * (k - 1)) % g = 0
    BY <1>3, <1>5
  <1> QED
    BY <1>4, <1>6

\* A distance of zero is a whole number of periods.
LEMMA NoPeriod == ASSUME NEW g \in Nat \ {0} PROVE 0 % g = 0
  OBVIOUS

\* The grid is kept by a step that moves one grid event on by a period.
LEMMA GridAdvance ==
    ASSUME TypeOK, GridAligned, NEW e \in GridEvents,
           events' = [events EXCEPT ![e] = events[e] + GridPeriod]
    PROVE  GridAligned'
  <1> USE ConstantsAssumption
  <1> SUFFICES ASSUME NEW x \in GridEvents, NEW y \in GridEvents
               PROVE  (events'[x] - events'[y]) % GridPeriod = 0
    BY DEF GridAligned
  <1>1. /\ events[e] \in Int /\ events[x] \in Int /\ events[y] \in Int
        /\ events'[x] = IF x = e THEN events[e] + GridPeriod ELSE events[x]
        /\ events'[y] = IF y = e THEN events[e] + GridPeriod ELSE events[y]
    BY DEF TypeOK
  <1> DEFINE d == events[x] - events[y]
  <1>2. d \in Int /\ d % GridPeriod = 0
    BY <1>1 DEF GridAligned
  <1>3. (d + GridPeriod) % GridPeriod = 0 /\ (d - GridPeriod) % GridPeriod = 0
    BY <1>2, WholePeriods
  <1>4. events'[x] - events'[y] \in {d, d + GridPeriod, d - GridPeriod}
    BY <1>1
  <1> HIDE DEF d
  <1> QED
    BY <1>2, <1>3, <1>4

\* The grid is kept by a step that leaves the grid events alone, or moves them all
\* by the same distance.
LEMMA GridShift ==
    ASSUME TypeOK, GridAligned, NEW n \in Int,
           \A e \in GridEvents : events'[e] = events[e] - n
    PROVE  GridAligned'
  <1> SUFFICES ASSUME NEW x \in GridEvents, NEW y \in GridEvents
               PROVE  (events'[x] - events'[y]) % GridPeriod = 0
    BY DEF GridAligned
  <1>1. events[x] \in Int /\ events[y] \in Int
    BY ConstantsAssumption DEF TypeOK
  <1>2. events'[x] - events'[y] = events[x] - events[y]
    BY <1>1
  <1> QED
    BY <1>2 DEF GridAligned

\* A step that schedules no grid and no scanline event, and does not move the clock.
LEMMA GridElsewhere ==
    ASSUME TypeOK, GridInv, pc' = pc, cycle_count' = cycle_count,
           active_events \ TimerEvents = active_events' \ TimerEvents,
           \A e \in Events \ TimerEvents : events'[e] = events[e]
    PROVE  GridInv'
  <1> USE ConstantsAssumption
  <1>1. /\ GridEvents \subseteq Events \ TimerEvents
        /\ GpuEvents \subseteq Events \ TimerEvents
    BY Scanlines DEF TimerEvents, GpuEvents
  <1>2. GridEvents \subseteq active_events' /\ active_events' \cap GpuEvents = active_events \cap GpuEvents
    BY <1>1 DEF GridInv
  <1>3. GridAligned'
    <2>1. \A e \in GridEvents : events'[e] = events[e] - 0
      BY <1>1 DEF TypeOK
    <2> QED
      BY <2>1, GridShift, 0 \in Int DEF GridInv
  <1>4. \A e \in active_events' \cap GpuEvents : e \in active_events \cap GpuEvents /\ events'[e] = events[e]
    BY <1>1, <1>2
  <1> QED
    BY <1>2, <1>3, <1>4 DEF GridInv

\* The handler of a scanline event schedules the other one.
LEMMA GridScanline ==
    ASSUME GridFits, TypeOK, GridInv, SchedulerInv, NEW e \in GpuEvents, NEW f \in GpuEvents,
           NEW p \in {VisiblePeriod, BlankPeriod},
           Dispatch(e), Reschedule(e, f, ScheduleDue(p))
    PROVE  GridInv'
  <1> USE ConstantsAssumption
  <1> DEFINE due == ScheduleDue(p)
  <1>1. due \in 0 .. MaxCycle /\ due <= cycle_count + p
    BY DueAhead DEF SchedulerInv
  <1>2. due <= MaxCycle - MaxSlice - GridPeriod \/ cycle_count > Half
    BY <1>1 DEF GridFits, TypeOK
  <1>3. /\ events' = [events EXCEPT ![f] = due] /\ active_events' = (active_events \ {e}) \cup {f}
        /\ pc' = "timed" /\ pc = "timed" /\ cycle_count' = cycle_count
    BY DispatchType DEF Reschedule
  <1> HIDE DEF due
  <1>4. \A g \in GridEvents : g \notin GpuEvents /\ g \in Events
    OBVIOUS
  <1>5. GridEvents \subseteq active_events'
    BY <1>3, <1>4 DEF GridInv
  <1>6. \A g \in GridEvents : events'[g] = events[g] - 0
    BY <1>3, <1>4 DEF TypeOK
  <1>7. GridAligned'
    BY <1>6, GridShift, 0 \in Int DEF GridInv
  <1>8. f \in Events
    BY Scanlines DEF GpuEvents
  <1>9. \A g \in active_events' \cap GpuEvents :
          events'[g] <= MaxCycle - MaxSlice - GridPeriod \/ (pc' = "timed" /\ cycle_count' > Half)
    BY <1>1, <1>2, <1>3, <1>8 DEF TypeOK, GridInv
  <1> QED
    BY <1>3, <1>5, <1>7, <1>9 DEF GridInv

\* One step keeps the grid events on their grid, on the schedule and unclamped.
LEMMA GridStep ==
    ASSUME GridFits
    PROVE  TypeOK /\ NextCoversActive /\ OneScanlineEvent /\ SchedulerInv /\ ClockNeverWraps /\ GridInv
             /\ [Next]_vars => GridInv'
  <1> USE ConstantsAssumption
  <1> SUFFICES ASSUME TypeOK, NextCoversActive, OneScanlineEvent, SchedulerInv, ClockNeverWraps,
                      GridInv, [Next]_vars
               PROVE  GridInv'
    OBVIOUS
  <1>1. ASSUME NEW e \in TimerEvents, NEW due, PutEvent(e, due), pc' = pc, cycle_count' = cycle_count
        PROVE  GridInv'
    <2>1. active_events \ TimerEvents = active_events' \ TimerEvents
      BY <1>1 DEF PutEvent
    <2>2. \A x \in Events \ TimerEvents : events'[x] = events[x]
      BY <1>1 DEF PutEvent, TypeOK
    <2> QED
      BY <1>1, <2>1, <2>2, GridElsewhere
  <1>2. ASSUME NEW e \in TimerEvents, NEW in \in TimerPeriods,
               GuestSchedule(e, in) \/ HandlerStartsTimer(e, in)
        PROVE  GridInv'
    BY <1>1, <1>2 DEF GuestSchedule, HandlerStartsTimer, Schedule
  <1>3. ASSUME pc' = pc, cycle_count' = cycle_count, events' = events, active_events' = active_events
        PROVE  GridInv'
    BY <1>3, GridElsewhere
  <1>4. ASSUME NEW i \in ImmEvents, GuestScheduleImm(i) PROVE GridInv'
    BY <1>3, <1>4 DEF GuestScheduleImm
  <1>5. CASE GuestStamp \/ TimedNotDue \/ UNCHANGED vars
    BY <1>3, <1>5 DEF GuestStamp, TimedNotDue, vars
  <1>6. ASSUME events' = events, active_events' = active_events,
               cycle_count' <= MaxCycle - GridPeriod,
               pc # "timed" \/ cycle_count <= Half
        PROVE  GridInv'
    <2>1. GridAligned'
      BY <1>6 DEF GridInv, GridAligned
    <2>2. \A e \in active_events' \cap GpuEvents : events'[e] <= MaxCycle - MaxSlice - GridPeriod
      BY <1>6 DEF GridInv, TypeOK
    <2> QED
      BY <1>6, <2>1, <2>2 DEF GridInv
  <1>7. CASE Tick
    <2>1. pc = "guest" /\ events' = events /\ active_events' = active_events
      BY <1>7 DEF Tick, AddCycles, JumpToNextEvent, EnterCheck
    <2>2. PICK g \in active_events \cap GpuEvents : TRUE
      BY Scanlines DEF OneScanlineEvent, GpuEvents
    <2>3. /\ events[g] \in 0 .. MaxCycle
          /\ cycle_count < events[g] /\ events[g] <= MaxCycle - MaxSlice - GridPeriod
          /\ next_event_cycle <= events[g]
      BY <2>1, <2>2 DEF TypeOK, GridInv, SchedulerInv, NextCoversActive
    <2>4. cycle_count' <= MaxCycle - GridPeriod
      BY <1>7, <2>1, <2>3
         DEF Tick, AddCycles, JumpToNextEvent, Wrap, TypeOK, ClockNeverWraps
    <2> QED
      BY <1>6, <2>1, <2>4
  <1>8. CASE ImmHandler
    BY <1>1, <1>3, <1>8 DEF ImmHandler, Schedule
  <1>9. CASE ImmDone \/ TimedDone
    <2>1. events' = events /\ active_events' = active_events /\ cycle_count' = cycle_count
      BY <1>9 DEF ImmDone, TimedDone
    <2>2. pc # "timed" \/ cycle_count <= Half
      BY <1>9 DEF ImmDone, TimedDone
    <2> QED
      BY <1>6, <2>1, <2>2 DEF GridInv
  <1>10. CASE GpuOnScanline256
    BY <1>10, GridScanline DEF GpuOnScanline256, GpuEvents
  <1>11. CASE GpuOnScanline355
    BY <1>11, GridScanline DEF GpuOnScanline355, GpuEvents
  <1>12. ASSUME NEW e \in GridEvents, GridHandler(e) PROVE GridInv'
    <2>1. /\ events[e] \in 0 .. MaxCycle /\ events[e] <= cycle_count
          /\ pc' = pc /\ cycle_count' = cycle_count /\ e \in Events
      BY <1>12, DispatchType DEF GridHandler
    <2>2. FromDue(events[e], GridPeriod) = events[e] + GridPeriod
      BY <2>1 DEF FromDue, GridInv, TypeOK
    <2>3. events' = [events EXCEPT ![e] = events[e] + GridPeriod] /\ active_events' = active_events
      BY <1>12, <2>2 DEF GridHandler, Reschedule, GridInv
    <2>4. GridAligned'
      BY <2>3, GridAdvance DEF GridInv
    <2>5. \A g \in active_events \cap GpuEvents : events'[g] = events[g]
      BY <2>3 DEF TypeOK
    <2> QED
      BY <2>1, <2>3, <2>4, <2>5 DEF GridInv
  <1>13. ASSUME NEW e \in TimerEvents, TimerHandler(e) PROVE GridInv'
    <2>1. /\ pc' = pc /\ cycle_count' = cycle_count
          /\ active_events' \in {active_events \ {e}, (active_events \ {e}) \cup {e}}
      BY <1>13, DispatchType DEF TimerHandler, Reschedule
    <2>2. \A x \in Events \ TimerEvents : events'[x] = events[x]
      BY <1>13 DEF TimerHandler, Reschedule, TypeOK
    <2>3. active_events \ TimerEvents = active_events' \ TimerEvents
      BY <2>1
    <2> QED
      BY <2>1, <2>2, <2>3, GridElsewhere
  <1>14. CASE CmOnOverflowEvent
    <2>1. /\ pc = "timed" /\ todo = {} /\ cycle_count > Half /\ cycle_count' = 0
          /\ active_events' = active_events
      BY <1>14 DEF CmOnOverflowEvent
    <2>2. \A e \in active_events : events'[e] = events[e] - cycle_count /\ events[e] > cycle_count
      BY <1>14, <2>1 DEF TypeOK, SchedulerInv, CmOnOverflowEvent, Wrap
    <2>3. GridAligned'
      BY <2>2, GridShift DEF GridInv, TypeOK
    <2>4. \A e \in active_events : events'[e] <= MaxCycle - MaxSlice - GridPeriod
      BY <2>1, <2>2 DEF TypeOK, GridFits
    <2> QED
      BY <2>1, <2>3, <2>4 DEF GridInv
  <1> QED
    BY <1>2, <1>4, <1>5, <1>7, <1>8, <1>9, <1>10, <1>11, <1>12, <1>13, <1>14 DEF Next, Check

\* When slices fit the periods and one more grid period fits behind the rebase, the
\* events that reschedule from their due cycle (spu_on_sample_event,
\* sound_nitro_on_cmd_event) keep their phase for ever, through any overshoot and
\* any number of rebases.
THEOREM GridsStayAligned ==
    ASSUME SlicesFit, GridFits
    PROVE  Spec => []GridAligned
  <1> USE ConstantsAssumption
  <1>1. Init => GridInv
    <2> SUFFICES ASSUME Init PROVE GridInv
      OBVIOUS
    <2>1. \A e \in GridEvents : events[e] = GridPeriod /\ e \in active_events
      BY Scanlines DEF Init, GpuEvents
    <2>2. GridAligned
      BY <2>1, NoPeriod DEF GridAligned
    <2>3. \A e \in active_events \cap GpuEvents : events[e] = FirstLinePeriod
      BY Scanlines DEF Init, GpuEvents
    <2> QED
      BY <2>1, <2>2, <2>3 DEF Init, GridInv, GridFits
  <1>2. GridInv => GridAligned
    BY DEF GridInv
  <1> QED
    BY <1>1, <1>2, GridStep, TypeCorrect, PunctualScheduler, PTL DEF Spec

=============================================================================
