--------------------------- MODULE RenderHandshake ---------------------------
(***************************************************************************)
(* How the CPU thread hands finished frames to the main thread, which      *)
(* draws them with the help of the 3D thread, and how pausing, savestates  *)
(* and quitting stop and release the CPU thread                            *)
(* (src/core/graphics/gpu_renderer.rs, gpu.rs, lib.rs).                    *)
(*                                                                         *)
(* The threads share plain and atomic flags, two mutexes with condition    *)
(* variables, and the one park token of the CPU thread, which the audio    *)
(* thread uses as well (src/core/spu.rs).  Each flag a thread reads        *)
(* without a lock is read in a step of its own.  Condition variables are   *)
(* waited on in loops, so a wait is a guard.                               *)
(***************************************************************************)

EXTENDS Naturals

CONSTANT
    Patient     \* menus are left only after the CPU thread has parked

ASSUME HandshakeAssumption == Patient \in BOOLEAN

VARIABLES
    cpu, main, t3d,         \* where each thread is
    rendering, processed,   \* under the two mutexes
    rendering3d, vramReady, \* this frame has 3D; its memory is readable
    sample, ready,          \* sample_2d, ready_2d
    busy, dirty,            \* renderer_vram_busy, renderer_3d.dirty
    pause, quit,
    token,                  \* the CPU thread's park token
    waiting,                \* SoundSampler.waiting
    request,                \* what the main thread renders this frame for
    op,                     \* savestate request: "none", "queued", "done"
    line,                   \* next of lines 192 and 262 the CPU reaches
    frames,                 \* history: frames started since the savestate wake
    active,                 \* cpu_active
    late                    \* history: the main thread gave up waiting for the 3D thread

handover == <<rendering, processed, rendering3d, vramReady>>
snapshot == <<sample, ready, busy, dirty>>
control == <<pause, quit, token, waiting, request, op, line, frames, active>>
vars == <<late, cpu, main, t3d, handover, snapshot, control>>

Init ==
    /\ cpu = "run" /\ main = "poll" /\ t3d = "idle"
    /\ rendering = FALSE /\ processed = FALSE
    /\ rendering3d = FALSE /\ vramReady = FALSE
    /\ sample = TRUE /\ ready = FALSE /\ busy = FALSE /\ dirty = FALSE
    /\ pause = FALSE /\ quit = FALSE /\ token = FALSE /\ waiting = FALSE
    /\ request = "play" /\ op = "none" /\ line = 192 /\ frames = 0 /\ active = TRUE
    /\ late = FALSE

\* The CPU thread holds the mutex of rendering, while it is parked too.
CpuHolds == {"parked", "swap", "mark", "start", "handoff"}
LockFree == cpu \notin CpuHolds

-----------------------------------------------------------------------------
(* The CPU thread.                                                         *)

\* on_scanline_finish at line 192, up to the lock.
VBlank ==
    /\ cpu = "run" /\ line = 192
    /\ line' = 262
    /\ frames' = IF request # "state" THEN 0 ELSE IF frames = 2 THEN 2 ELSE frames + 1
    /\ cpu' = IF sample THEN "snapshot" ELSE "lock"
    /\ UNCHANGED <<late, main, t3d, handover, snapshot, pause, quit, token, waiting,
                   request, op, active>>

Snapshot ==
    /\ cpu = "snapshot"
    /\ ready' = TRUE
    /\ sample' \in BOOLEAN      \* sync_3d, a setting
    /\ cpu' = "lock"
    /\ UNCHANGED <<late, main, t3d, handover, busy, dirty, control>>

Lock ==
    /\ cpu = "lock"
    /\ cpu' = IF rendering \/ ~ready THEN "post" ELSE IF pause THEN "parked" ELSE "swap"
    /\ UNCHANGED <<late, main, t3d, handover, snapshot, control>>

Wake ==
    /\ cpu = "parked" /\ token
    /\ token' = FALSE
    /\ cpu' = IF quit THEN "post" ELSE "swap"
    /\ UNCHANGED <<late, main, t3d, handover, snapshot, pause, quit, waiting, request, op,
                   line, frames, active>>

\* use_queued_vram and, for a frame with 3D, finish_scanline.
Swap ==
    /\ cpu = "swap"
    /\ dirty' = FALSE
    /\ cpu' = IF dirty THEN "mark" ELSE "start"
    /\ UNCHANGED <<late, main, t3d, handover, sample, ready, busy, control>>

Mark ==
    /\ cpu = "mark"
    /\ rendering3d' = TRUE
    /\ cpu' = "start"
    /\ UNCHANGED <<late, main, t3d, rendering, processed, vramReady, snapshot, control>>

\* Mutant of Start: vram_ready is not reset.
StartKeepsReady ==
    /\ cpu = "start"
    /\ ready' = FALSE /\ sample' = FALSE
    /\ cpu' = "handoff"
    /\ UNCHANGED <<late, main, t3d, handover, busy, dirty, control>>

Start ==
    /\ cpu = "start"
    /\ ready' = FALSE /\ sample' = FALSE
    /\ vramReady' = FALSE
    /\ cpu' = "handoff"
    /\ UNCHANGED <<late, main, t3d, rendering, processed, rendering3d, busy, dirty, control>>

Handoff ==
    /\ cpu = "handoff"
    /\ busy' = TRUE
    /\ rendering' = TRUE
    /\ cpu' = "post"
    /\ UNCHANGED <<late, main, t3d, processed, rendering3d, vramReady, sample, ready, dirty, control>>

\* Mutant of VBlankHook: a savestate request is left for another frame.
VBlankHookSkips ==
    /\ cpu = "post"
    /\ dirty' \in {dirty, TRUE}
    /\ cpu' = "check"
    /\ UNCHANGED <<late, main, t3d, handover, sample, ready, busy, control>>

\* The rest of line 192: new polygons may mark the 3D renderer dirty, and a
\* savestate request is carried out.
VBlankHook ==
    /\ cpu = "post"
    /\ dirty' \in {dirty, TRUE}
    /\ op' = IF op = "queued" THEN "done" ELSE op
    /\ cpu' = "check"
    /\ UNCHANGED <<late, main, t3d, handover, sample, ready, busy, pause, quit, token, waiting,
                   request, line, frames, active>>

\* Mutant of ReloadRegisters: sampling starts while memory is being read.
ReloadRegistersBusy ==
    /\ cpu = "run" /\ line = 262
    /\ line' = 192
    /\ sample' = (sample \/ ~ready)
    /\ cpu' = "check"
    /\ UNCHANGED <<late, main, t3d, handover, ready, busy, dirty, pause, quit, token, waiting,
                   request, op, frames, active>>

\* reload_registers at line 262.
ReloadRegisters ==
    /\ cpu = "run" /\ line = 262
    /\ line' = 192
    /\ sample' = (sample \/ (~ready /\ ~busy))
    /\ cpu' = "check"
    /\ UNCHANGED <<late, main, t3d, handover, ready, busy, dirty, pause, quit, token, waiting,
                   request, op, frames, active>>

\* SoundSampler::push with both buffers full.
SamplerPark ==
    /\ cpu = "run"
    /\ waiting' = TRUE
    /\ cpu' = "sampler"
    /\ UNCHANGED <<late, main, t3d, handover, snapshot, pause, quit, token, request, op, line,
                   frames, active>>

SamplerWake ==
    /\ cpu = "sampler" /\ token
    /\ token' = FALSE
    /\ cpu' = "check"
    /\ UNCHANGED <<late, main, t3d, handover, snapshot, pause, quit, waiting, request, op, line,
                   frames, active>>

\* The quit flag is read once per turn of execute_jit.
CheckQuit ==
    /\ cpu = "check"
    /\ cpu' = IF quit THEN "done" ELSE "run"
    /\ UNCHANGED <<late, main, t3d, handover, snapshot, control>>

-----------------------------------------------------------------------------
(* The audio thread.                                                       *)

\* Mutant of Consume: the CPU thread is released without being asked for.
ConsumeAlways ==
    /\ waiting' = FALSE
    /\ token' = TRUE
    /\ UNCHANGED <<late, cpu, main, t3d, handover, snapshot, pause, quit, request, op, line,
                   frames, active>>

\* SoundSampler::consume releases a CPU thread that waits.
Consume ==
    /\ waiting
    /\ waiting' = FALSE
    /\ token' = TRUE
    /\ UNCHANGED <<late, cpu, main, t3d, handover, snapshot, pause, quit, request, op, line,
                   frames, active>>

-----------------------------------------------------------------------------
(* The main thread.                                                        *)

Poll ==
    /\ main = "poll"
    /\ request' \in {"play", "pause", "quit"}
    /\ main' = "wait"
    /\ UNCHANGED <<late, cpu, t3d, handover, snapshot, pause, quit, token, waiting, op, line,
                   frames, active>>

\* render_loop: wait for a frame.
AwaitFrame ==
    /\ main = "wait" /\ LockFree /\ rendering
    /\ main' = "read"
    /\ UNCHANGED <<late, cpu, t3d, handover, snapshot, control>>

\* Mutant of ReadMemory: the snapshot stays busy.
ReadMemoryStaysBusy ==
    /\ main = "read"
    /\ vramReady' = (vramReady \/ rendering3d)
    /\ main' = "draw"
    /\ UNCHANGED <<late, cpu, t3d, rendering, processed, rendering3d, snapshot, control>>

\* read_all is done; the 3D thread and the CPU may have the memory.
ReadMemory ==
    /\ main = "read"
    /\ vramReady' = (vramReady \/ rendering3d)
    /\ busy' = FALSE
    /\ main' = "draw"
    /\ UNCHANGED <<late, cpu, t3d, rendering, processed, rendering3d, sample, ready, dirty, control>>

Draw2d ==
    /\ main = "draw"
    /\ rendering3d' = FALSE
    /\ main' = IF rendering3d THEN "wait3d" ELSE "finish"
    /\ UNCHANGED <<late, cpu, t3d, rendering, processed, vramReady, snapshot, control>>

\* Mutant of Await3d: the main thread does not wait.
Await3dNot ==
    /\ main = "wait3d"
    /\ main' = "render3d"
    /\ UNCHANGED <<late, cpu, t3d, handover, snapshot, control>>

Await3d ==
    /\ main = "wait3d"
    /\ late' = (late \/ ~processed)
    /\ main' = "render3d"
    /\ UNCHANGED <<cpu, t3d, handover, snapshot, control>>

Render3d ==
    /\ main = "render3d"
    /\ main' = "finish"
    /\ UNCHANGED <<late, cpu, t3d, handover, snapshot, control>>

FinishFrame ==
    /\ main = "finish" /\ LockFree
    /\ pause' = (request # "play")
    /\ rendering' = FALSE
    /\ main' = "reset"
    /\ UNCHANGED <<late, cpu, t3d, processed, rendering3d, vramReady, snapshot, quit, token, waiting,
                   request, op, line, frames, active>>

\* Where the main loop goes after a frame.
AfterFrame ==
    [play |-> "poll", pause |-> "menu", state |-> "saving", quit |-> "quitting"]

Reset3d ==
    /\ main = "reset"
    /\ processed' = FALSE
    /\ main' = AfterFrame[request]
    /\ UNCHANGED <<late, cpu, t3d, rendering, rendering3d, vramReady, snapshot, control>>

MenuAllowed == Patient => cpu = "parked"

MenuResume ==
    /\ main = "menu" /\ MenuAllowed
    /\ request' = "play"
    /\ main' = "unpause"
    /\ UNCHANGED <<late, cpu, t3d, handover, snapshot, pause, quit, token, waiting, op, line,
                   frames, active>>

\* The menu queued a savestate: wake the CPU with pause still set.
MenuSavestate ==
    /\ main = "menu" /\ MenuAllowed
    /\ op' = "queued"
    /\ token' = TRUE
    /\ request' = "state"
    /\ main' = "wait"
    /\ UNCHANGED <<late, cpu, t3d, handover, snapshot, pause, quit, waiting, line, frames, active>>

\* The savestate's result was shown for a while.
SavestateShown ==
    /\ main = "saving" /\ op = "done" /\ MenuAllowed
    /\ op' = "none"
    /\ request' = "play"
    /\ main' = "unpause"
    /\ UNCHANGED <<late, cpu, t3d, handover, snapshot, pause, quit, token, waiting, line, frames,
                   active>>

\* From the menu or by the close event.
SetQuit ==
    /\ main = "quitting" \/ (main = "menu" /\ MenuAllowed)
    /\ quit' = TRUE
    /\ main' = "unpause"
    /\ UNCHANGED <<late, cpu, t3d, handover, snapshot, pause, token, waiting, request, op, line,
                   frames, active>>

Unpause ==
    /\ main = "unpause"
    /\ pause' = FALSE
    /\ main' = "unpark"
    /\ UNCHANGED <<late, cpu, t3d, handover, snapshot, quit, token, waiting, request, op, line,
                   frames, active>>

\* Mutant of Unpark: the mutex is asked for before the CPU thread is released.
UnparkAfterLock ==
    /\ main = "unpark" /\ (quit => LockFree)
    /\ token' = TRUE
    /\ main' = IF quit THEN "release" ELSE "poll"
    /\ UNCHANGED <<late, cpu, t3d, handover, snapshot, pause, quit, waiting, request, op, line,
                   frames, active>>

Unpark ==
    /\ main = "unpark"
    /\ token' = TRUE
    /\ main' = IF quit THEN "release" ELSE "poll"
    /\ UNCHANGED <<late, cpu, t3d, handover, snapshot, pause, quit, waiting, request, op, line,
                   frames, active>>

\* unpause on quit: the 3D thread is released from both its waits.
Release ==
    /\ main = "release" /\ LockFree
    /\ rendering' = TRUE
    /\ main' = "release3d"
    /\ UNCHANGED <<late, cpu, t3d, processed, rendering3d, vramReady, snapshot, control>>

Release3d ==
    /\ main = "release3d"
    /\ processed' = FALSE
    /\ main' = "join"
    /\ UNCHANGED <<late, cpu, t3d, rendering, rendering3d, vramReady, snapshot, control>>

JoinCpu ==
    /\ main = "join" /\ cpu = "done"
    /\ active' = FALSE
    /\ main' = "join3d"
    /\ UNCHANGED <<late, cpu, t3d, handover, snapshot, pause, quit, token, waiting, request, op,
                   line, frames>>

Join3d ==
    /\ main = "join3d" /\ t3d = "done"
    /\ main' = "end"
    /\ UNCHANGED <<late, cpu, t3d, handover, snapshot, control>>

-----------------------------------------------------------------------------
(* The 3D thread: process_3d_loop.                                         *)

T3dAwaitFrame ==
    /\ t3d = "idle" /\ LockFree /\ rendering
    /\ t3d' = "awake"
    /\ UNCHANGED <<late, cpu, main, handover, snapshot, control>>

T3dCheckQuit ==
    /\ t3d = "awake"
    /\ t3d' = IF quit THEN "loop" ELSE "flag"
    /\ UNCHANGED <<late, cpu, main, handover, snapshot, control>>

\* Polygons made for other display settings are not processed.
T3dReadFlag ==
    /\ t3d = "flag"
    /\ t3d' \in IF rendering3d THEN {"process", "mark"} ELSE {"mark"}
    /\ UNCHANGED <<late, cpu, main, handover, snapshot, control>>

T3dProcess ==
    /\ t3d = "process"
    /\ t3d' = "spin"
    /\ UNCHANGED <<late, cpu, main, handover, snapshot, control>>

T3dSpin ==
    /\ t3d = "spin" /\ vramReady
    /\ t3d' = "populate"
    /\ UNCHANGED <<late, cpu, main, handover, snapshot, control>>

T3dPopulate ==
    /\ t3d = "populate"
    /\ t3d' = "mark"
    /\ UNCHANGED <<late, cpu, main, handover, snapshot, control>>

T3dMark ==
    /\ t3d = "mark"
    /\ processed' = TRUE
    /\ t3d' = "rest"
    /\ UNCHANGED <<late, cpu, main, rendering, rendering3d, vramReady, snapshot, control>>

\* Mutant of T3dRest: the next frame is started without a reset.
T3dRestNot ==
    /\ t3d = "rest"
    /\ t3d' = "loop"
    /\ UNCHANGED <<late, cpu, main, handover, snapshot, control>>

T3dRest ==
    /\ t3d = "rest" /\ ~processed
    /\ t3d' = "loop"
    /\ UNCHANGED <<late, cpu, main, handover, snapshot, control>>

T3dLoop ==
    /\ t3d = "loop"
    /\ t3d' = IF active THEN "idle" ELSE "done"
    /\ UNCHANGED <<late, cpu, main, handover, snapshot, control>>

-----------------------------------------------------------------------------

CpuSteps ==
    \/ Snapshot \/ Lock \/ Wake \/ Swap \/ Mark \/ Start \/ Handoff \/ VBlankHook
    \/ SamplerWake \/ CheckQuit

CpuEvents == VBlank \/ ReloadRegisters

Cpu == CpuSteps \/ CpuEvents \/ SamplerPark

MainSteps ==
    \/ Poll \/ AwaitFrame \/ ReadMemory \/ Draw2d \/ Await3d \/ Render3d \/ FinishFrame
    \/ Reset3d \/ SetQuit \/ MenuResume \/ MenuSavestate \/ SavestateShown
    \/ Unpause \/ Unpark \/ Release \/ Release3d \/ JoinCpu \/ Join3d

T3dSteps ==
    \/ T3dAwaitFrame \/ T3dCheckQuit \/ T3dReadFlag \/ T3dProcess \/ T3dSpin
    \/ T3dPopulate \/ T3dMark \/ T3dRest \/ T3dLoop

Next == Cpu \/ Consume \/ MainSteps \/ T3dSteps

Spec == Init /\ [][Next]_vars

\* Every thread is scheduled, and emulated time goes on between two waits of
\* the sound sampler, so the lines 192 and 262 come.  Nobody has to leave a
\* menu.
FairSpec ==
    /\ Spec
    /\ WF_vars(CpuSteps) /\ SF_vars(CpuEvents) /\ WF_vars(Consume)
    /\ WF_vars(MainSteps /\ main # "menu") /\ WF_vars(T3dSteps)

-----------------------------------------------------------------------------
(* Properties                                                              *)

CpuPlaces == {"run", "snapshot", "lock", "post", "sampler", "check", "done"} \cup CpuHolds
MainPlaces ==
    {"poll", "wait", "read", "draw", "wait3d", "render3d", "finish", "reset", "menu",
     "saving", "quitting", "unpause", "unpark", "release", "release3d", "join", "join3d", "end"}
Busy3d == {"process", "spin", "populate"}
T3dPlaces == {"idle", "awake", "flag", "mark", "rest", "loop", "done"} \cup Busy3d

FlagsOK ==
    /\ rendering \in BOOLEAN /\ processed \in BOOLEAN
    /\ rendering3d \in BOOLEAN /\ vramReady \in BOOLEAN
    /\ sample \in BOOLEAN /\ ready \in BOOLEAN /\ busy \in BOOLEAN /\ dirty \in BOOLEAN
    /\ pause \in BOOLEAN /\ quit \in BOOLEAN /\ token \in BOOLEAN /\ waiting \in BOOLEAN
    /\ active \in BOOLEAN /\ late \in BOOLEAN

PlacesOK ==
    /\ cpu \in CpuPlaces /\ main \in MainPlaces /\ t3d \in T3dPlaces
    /\ request \in {"play", "pause", "quit", "state"} /\ op \in {"none", "queued", "done"}
    /\ line \in {192, 262} /\ frames \in 0 .. 2

\* Every thread is at a place of its code and every flag is a flag.
TypeOK == FlagsOK /\ PlacesOK

\* The video memory, palettes and sprites the main thread reads without a lock
\* are not being replaced by the CPU thread's next snapshot or handover.
SnapshotStable == main = "read" => cpu \notin {"snapshot", "swap"}

\* While the 3D thread works on the polygons, the CPU thread does not swap new
\* ones in and the main thread does not draw them half done, unless the main
\* thread gave up waiting.
PolygonsStable == ~late /\ t3d \in Busy3d => cpu # "swap" /\ main # "render3d"

\* The 3D thread fills its texture cache only from memory the main thread has
\* finished copying, although vram_ready is reset late in the handover and may
\* still be set from an earlier frame.
TexturesStable == ~late /\ t3d = "populate" => main # "read"

Drawing == {"draw", "wait3d", "render3d", "finish"}
Leaving == {"release3d", "join", "join3d", "end"}

\* The 3D thread's part, which a timeout breaks.
Handshake3d ==
    /\ t3d \in Busy3d => rendering3d \/ main = "wait3d"
    /\ main = "render3d" => processed
    /\ main = "finish" /\ vramReady => processed
    /\ vramReady /\ t3d \in {"awake", "flag"} \cup Busy3d => main \in {"draw", "wait3d"} \cup Leaving
    /\ t3d = "populate" => main \in {"draw", "wait3d"} \cup Leaving

\* What keeps the threads apart: only an undrawn frame is marked as rendering, a
\* snapshot that is handed over is busy until it has been read, busy memory is
\* not sampled into, and 3D work belongs to the frame that is being drawn.
HandshakeInv ==
    /\ cpu \in CpuHolds => ~rendering
    /\ main \in {"read"} \cup Drawing => rendering
    /\ rendering /\ main \notin Drawing \cup Leaving => busy
    /\ busy \/ cpu = "handoff" => ~sample /\ ~ready
    /\ cpu = "snapshot" => sample
    /\ t3d # "rest" => ~processed
    /\ rendering3d => main \notin {"wait3d", "render3d", "finish"}
    /\ rendering3d => rendering \/ cpu \in {"start", "handoff"}
    /\ rendering /\ main \notin Drawing \cup Leaving => ~vramReady
    /\ cpu = "handoff" => ~vramReady
    /\ main = "draw" /\ vramReady => rendering3d
    /\ ~late => Handshake3d

\* The park token the sound sampler shares with the pause never releases a CPU
\* thread that is parked for a menu.
PauseHolds == cpu = "parked" /\ main \in {"menu", "saving"} => ~token

\* The strengthening behind PauseHolds, for users who leave a menu only after the
\* CPU thread has parked.  Until quit is set, the token is the answer to the wait
\* the CPU thread is in: the audio thread's to the sampler's, the main thread's to
\* the pause, and the main thread gets no further than its own wait before the
\* answer is taken.  Once quit is set no menu comes back.
PauseInv ==
    /\ ~quit /\ token => cpu \in {"sampler", "parked"}
    /\ ~quit /\ token /\ cpu = "parked" => main \in {"poll", "wait"}
    /\ ~quit /\ waiting => cpu = "sampler" /\ ~token
    /\ ~quit /\ main \in {"unpause", "unpark"} => cpu = "parked" /\ ~token
    /\ quit => main \in {"unpause", "unpark", "release"} \cup Leaving

\* A main thread that waits for a frame gets one, also the one frame a
\* savestate wakes the CPU thread for.
FramesFlow == main = "wait" ~> main = "read"

\* A savestate queued in the menu is carried out.
SavestateCompletes == op = "queued" ~> op = "done"

\* Once quit is set the CPU thread ends, wherever it was parked, and the main
\* thread gets past the mutex the CPU thread may have been parked with.
CpuStops == quit ~> main \in {"join3d", "end"}

\* The CPU thread is woken "for exactly one frame" (savestate.rs).
OneFrame == frames <= 1

=============================================================================
