------------------------ MODULE RenderHandshakeProofs ------------------------
(***************************************************************************)
(* The threads of RenderHandshake never touch a snapshot or the polygons   *)
(* at the same time.  Type correctness and HandshakeInv are proved         *)
(* together, one step per action; PauseInv, about the park token, rests on *)
(* type correctness only.                                                  *)
(***************************************************************************)
EXTENDS RenderHandshake, TLAPS

Inv == TypeOK /\ HandshakeInv

\* The places and groups of variables every step needs.
USE DEF handover, snapshot, control, CpuHolds, LockFree, CpuPlaces, MainPlaces,
        T3dPlaces, Busy3d, Drawing, Leaving, Handshake3d

\* A fresh renderer, as GpuRenderer::init leaves it, satisfies the invariant.
LEMMA InitInv == Init => Inv
  <1> SUFFICES ASSUME Init PROVE Inv
    OBVIOUS
  <1>1. FlagsOK
    BY Zenon DEF Init, FlagsOK
  <1>2. PlacesOK
    BY DEF Init, PlacesOK
  <1>3. HandshakeInv
    BY DEF Init, HandshakeInv
  <1> QED
    BY <1>1, <1>2, <1>3 DEF Inv, TypeOK

\* The steps of the CPU thread and of the audio thread keep the invariant.
LEMMA CpuKeepsInv == Inv /\ (Cpu \/ Consume) => Inv'
  <1> SUFFICES ASSUME Inv, Cpu \/ Consume PROVE Inv'
    OBVIOUS
  <1> USE HandshakeAssumption DEF Inv
  <1>1. CASE VBlank
    <2>1. PlacesOK'
      BY <1>1 DEF VBlank, TypeOK, PlacesOK
    <2>2. FlagsOK'
      BY <1>1 DEF VBlank, TypeOK, FlagsOK
    <2>3. HandshakeInv'
      BY <1>1 DEF VBlank, TypeOK, HandshakeInv
    <2> QED
      BY <2>1, <2>2, <2>3 DEF TypeOK
  <1>2. CASE Snapshot
    <2>1. PlacesOK'
      BY <1>2 DEF Snapshot, TypeOK, PlacesOK
    <2>2. FlagsOK'
      BY <1>2 DEF Snapshot, TypeOK, FlagsOK
    <2>3. HandshakeInv'
      BY <1>2 DEF Snapshot, TypeOK, HandshakeInv
    <2> QED
      BY <2>1, <2>2, <2>3 DEF TypeOK
  <1>3. CASE Lock
    <2>1. PlacesOK'
      BY <1>3 DEF Lock, TypeOK, PlacesOK
    <2>2. FlagsOK'
      BY <1>3 DEF Lock, TypeOK, FlagsOK
    <2>3. HandshakeInv'
      BY <1>3 DEF Lock, TypeOK, HandshakeInv
    <2> QED
      BY <2>1, <2>2, <2>3 DEF TypeOK
  <1>4. CASE Wake
    <2>1. PlacesOK'
      BY <1>4 DEF Wake, TypeOK, PlacesOK
    <2>2. FlagsOK'
      <3>1. token' \in BOOLEAN
        BY <1>4, Zenon DEF Wake
      <3> QED
        BY <1>4, <3>1 DEF Wake, TypeOK, FlagsOK
    <2>3. HandshakeInv'
      BY <1>4 DEF Wake, TypeOK, HandshakeInv
    <2> QED
      BY <2>1, <2>2, <2>3 DEF TypeOK
  <1>5. CASE Swap
    <2>1. PlacesOK'
      BY <1>5 DEF Swap, TypeOK, PlacesOK
    <2>2. FlagsOK'
      <3>1. dirty' \in BOOLEAN
        BY <1>5, Zenon DEF Swap
      <3> QED
        BY <1>5, <3>1 DEF Swap, TypeOK, FlagsOK
    <2>3. HandshakeInv'
      BY <1>5 DEF Swap, TypeOK, HandshakeInv
    <2> QED
      BY <2>1, <2>2, <2>3 DEF TypeOK
  <1>6. CASE Mark
    <2>1. PlacesOK'
      BY <1>6 DEF Mark, TypeOK, PlacesOK
    <2>2. FlagsOK'
      BY <1>6 DEF Mark, TypeOK, FlagsOK
    <2>3. HandshakeInv'
      BY <1>6 DEF Mark, TypeOK, HandshakeInv
    <2> QED
      BY <2>1, <2>2, <2>3 DEF TypeOK
  <1>7. CASE Start
    <2>1. PlacesOK'
      BY <1>7 DEF Start, TypeOK, PlacesOK
    <2>2. FlagsOK'
      <3>1. ready' \in BOOLEAN /\ sample' \in BOOLEAN /\ vramReady' \in BOOLEAN
        BY <1>7, Zenon DEF Start
      <3> QED
        BY <1>7, <3>1 DEF Start, TypeOK, FlagsOK
    <2>3. HandshakeInv'
      BY <1>7 DEF Start, TypeOK, HandshakeInv
    <2> QED
      BY <2>1, <2>2, <2>3 DEF TypeOK
  <1>8. CASE Handoff
    <2>1. PlacesOK'
      BY <1>8 DEF Handoff, TypeOK, PlacesOK
    <2>2. FlagsOK'
      BY <1>8 DEF Handoff, TypeOK, FlagsOK
    <2>3. HandshakeInv'
      BY <1>8 DEF Handoff, TypeOK, HandshakeInv
    <2> QED
      BY <2>1, <2>2, <2>3 DEF TypeOK
  <1>9. CASE VBlankHook
    <2>1. PlacesOK'
      BY <1>9 DEF VBlankHook, TypeOK, PlacesOK
    <2>2. FlagsOK'
      <3>1. dirty' \in BOOLEAN
        BY <1>9, Zenon DEF VBlankHook, TypeOK, FlagsOK
      <3> QED
        BY <1>9, <3>1 DEF VBlankHook, TypeOK, FlagsOK
    <2>3. HandshakeInv'
      BY <1>9 DEF VBlankHook, TypeOK, HandshakeInv
    <2> QED
      BY <2>1, <2>2, <2>3 DEF TypeOK
  <1>10. CASE ReloadRegisters
    <2>1. PlacesOK'
      BY <1>10 DEF ReloadRegisters, TypeOK, PlacesOK
    <2>2. FlagsOK'
      BY <1>10 DEF ReloadRegisters, TypeOK, FlagsOK
    <2>3. HandshakeInv'
      BY <1>10 DEF ReloadRegisters, TypeOK, HandshakeInv
    <2> QED
      BY <2>1, <2>2, <2>3 DEF TypeOK
  <1>11. CASE SamplerPark
    <2>1. PlacesOK'
      BY <1>11 DEF SamplerPark, TypeOK, PlacesOK
    <2>2. FlagsOK'
      BY <1>11 DEF SamplerPark, TypeOK, FlagsOK
    <2>3. HandshakeInv'
      BY <1>11 DEF SamplerPark, TypeOK, HandshakeInv
    <2> QED
      BY <2>1, <2>2, <2>3 DEF TypeOK
  <1>12. CASE SamplerWake
    <2>1. PlacesOK'
      BY <1>12 DEF SamplerWake, TypeOK, PlacesOK
    <2>2. FlagsOK'
      <3>1. token' \in BOOLEAN
        BY <1>12, Zenon DEF SamplerWake
      <3> QED
        BY <1>12, <3>1 DEF SamplerWake, TypeOK, FlagsOK
    <2>3. HandshakeInv'
      BY <1>12 DEF SamplerWake, TypeOK, HandshakeInv
    <2> QED
      BY <2>1, <2>2, <2>3 DEF TypeOK
  <1>13. CASE CheckQuit
    <2>1. PlacesOK'
      BY <1>13 DEF CheckQuit, TypeOK, PlacesOK
    <2>2. FlagsOK'
      BY <1>13 DEF CheckQuit, TypeOK, FlagsOK
    <2>3. HandshakeInv'
      BY <1>13 DEF CheckQuit, TypeOK, HandshakeInv
    <2> QED
      BY <2>1, <2>2, <2>3 DEF TypeOK
  <1>14. CASE Consume
    <2>1. PlacesOK'
      BY <1>14 DEF Consume, TypeOK, PlacesOK
    <2>2. FlagsOK'
      <3>1. waiting' \in BOOLEAN /\ token' \in BOOLEAN
        BY <1>14, Zenon DEF Consume
      <3> QED
        BY <1>14, <3>1 DEF Consume, TypeOK, FlagsOK
    <2>3. HandshakeInv'
      BY <1>14 DEF Consume, TypeOK, HandshakeInv
    <2> QED
      BY <2>1, <2>2, <2>3 DEF TypeOK
  <1> QED
    BY <1>1, <1>2, <1>3, <1>4, <1>5, <1>6, <1>7, <1>8, <1>9, <1>10, <1>11, <1>12, <1>13, <1>14 DEF Cpu, CpuSteps, CpuEvents

\* The steps of the main thread keep the invariant.
LEMMA MainKeepsInv == Inv /\ (MainSteps) => Inv'
  <1> SUFFICES ASSUME Inv, MainSteps PROVE Inv'
    OBVIOUS
  <1> USE HandshakeAssumption DEF Inv
  <1>1. CASE Poll
    <2>1. PlacesOK'
      BY <1>1 DEF Poll, TypeOK, PlacesOK
    <2>2. FlagsOK'
      BY <1>1 DEF Poll, TypeOK, FlagsOK
    <2>3. HandshakeInv'
      BY <1>1 DEF Poll, TypeOK, HandshakeInv
    <2> QED
      BY <2>1, <2>2, <2>3 DEF TypeOK
  <1>2. CASE AwaitFrame
    <2>1. PlacesOK'
      BY <1>2 DEF AwaitFrame, TypeOK, PlacesOK
    <2>2. FlagsOK'
      BY <1>2 DEF AwaitFrame, TypeOK, FlagsOK
    <2>3. HandshakeInv'
      BY <1>2 DEF AwaitFrame, TypeOK, HandshakeInv
    <2> QED
      BY <2>1, <2>2, <2>3 DEF TypeOK
  <1>3. CASE ReadMemory
    <2>1. PlacesOK'
      BY <1>3 DEF ReadMemory, TypeOK, PlacesOK
    <2>2. FlagsOK'
      <3>1. vramReady' \in BOOLEAN /\ busy' \in BOOLEAN
        BY <1>3, Zenon DEF ReadMemory
      <3> QED
        BY <1>3, <3>1 DEF ReadMemory, TypeOK, FlagsOK
    <2>3. HandshakeInv'
      BY <1>3 DEF ReadMemory, TypeOK, HandshakeInv
    <2> QED
      BY <2>1, <2>2, <2>3 DEF TypeOK
  <1>4. CASE Draw2d
    <2>1. PlacesOK'
      BY <1>4 DEF Draw2d, TypeOK, PlacesOK
    <2>2. FlagsOK'
      <3>1. rendering3d' \in BOOLEAN
        BY <1>4, Zenon DEF Draw2d
      <3> QED
        BY <1>4, <3>1 DEF Draw2d, TypeOK, FlagsOK
    <2>3. HandshakeInv'
      BY <1>4 DEF Draw2d, TypeOK, HandshakeInv
    <2> QED
      BY <2>1, <2>2, <2>3 DEF TypeOK
  <1>5. CASE Await3d
    <2>1. PlacesOK'
      BY <1>5 DEF Await3d, TypeOK, PlacesOK
    <2>2. FlagsOK'
      BY <1>5 DEF Await3d, TypeOK, FlagsOK
    <2>3. HandshakeInv'
      BY <1>5 DEF Await3d, TypeOK, HandshakeInv
    <2> QED
      BY <2>1, <2>2, <2>3 DEF TypeOK
  <1>6. CASE Render3d
    <2>1. PlacesOK'
      BY <1>6 DEF Render3d, TypeOK, PlacesOK
    <2>2. FlagsOK'
      BY <1>6 DEF Render3d, TypeOK, FlagsOK
    <2>3. HandshakeInv'
      BY <1>6 DEF Render3d, TypeOK, HandshakeInv
    <2> QED
      BY <2>1, <2>2, <2>3 DEF TypeOK
  <1>7. CASE FinishFrame
    <2>1. PlacesOK'
      BY <1>7 DEF FinishFrame, TypeOK, PlacesOK
    <2>2. FlagsOK'
      <3>1. pause' \in BOOLEAN /\ rendering' \in BOOLEAN
        BY <1>7, Zenon DEF FinishFrame
      <3> QED
        BY <1>7, <3>1 DEF FinishFrame, TypeOK, FlagsOK
    <2>3. HandshakeInv'
      BY <1>7 DEF FinishFrame, TypeOK, HandshakeInv
    <2> QED
      BY <2>1, <2>2, <2>3 DEF TypeOK
  <1>8. CASE Reset3d
    <2>1. PlacesOK'
      BY <1>8 DEF Reset3d, TypeOK, PlacesOK, AfterFrame
    <2>2. FlagsOK'
      <3>1. processed' \in BOOLEAN
        BY <1>8, Zenon DEF Reset3d
      <3> QED
        BY <1>8, <3>1 DEF Reset3d, TypeOK, FlagsOK
    <2>3. HandshakeInv'
      BY <1>8 DEF Reset3d, TypeOK, PlacesOK, HandshakeInv, AfterFrame
    <2> QED
      BY <2>1, <2>2, <2>3 DEF TypeOK
  <1>9. CASE SetQuit
    <2>1. PlacesOK'
      BY <1>9 DEF SetQuit, TypeOK, PlacesOK
    <2>2. FlagsOK'
      BY <1>9 DEF SetQuit, TypeOK, FlagsOK
    <2>3. HandshakeInv'
      BY <1>9 DEF SetQuit, TypeOK, HandshakeInv
    <2> QED
      BY <2>1, <2>2, <2>3 DEF TypeOK
  <1>10. CASE MenuResume
    <2>1. PlacesOK'
      BY <1>10 DEF MenuResume, TypeOK, PlacesOK
    <2>2. FlagsOK'
      BY <1>10 DEF MenuResume, TypeOK, FlagsOK
    <2>3. HandshakeInv'
      BY <1>10 DEF MenuResume, TypeOK, HandshakeInv
    <2> QED
      BY <2>1, <2>2, <2>3 DEF TypeOK
  <1>11. CASE MenuSavestate
    <2>1. PlacesOK'
      BY <1>11 DEF MenuSavestate, TypeOK, PlacesOK
    <2>2. FlagsOK'
      BY <1>11 DEF MenuSavestate, TypeOK, FlagsOK
    <2>3. HandshakeInv'
      BY <1>11 DEF MenuSavestate, TypeOK, HandshakeInv
    <2> QED
      BY <2>1, <2>2, <2>3 DEF TypeOK
  <1>12. CASE SavestateShown
    <2>1. PlacesOK'
      BY <1>12 DEF SavestateShown, TypeOK, PlacesOK
    <2>2. FlagsOK'
      BY <1>12 DEF SavestateShown, TypeOK, FlagsOK
    <2>3. HandshakeInv'
      BY <1>12 DEF SavestateShown, TypeOK, HandshakeInv
    <2> QED
      BY <2>1, <2>2, <2>3 DEF TypeOK
  <1>13. CASE Unpause
    <2>1. PlacesOK'
      BY <1>13 DEF Unpause, TypeOK, PlacesOK
    <2>2. FlagsOK'
      <3>1. pause' \in BOOLEAN
        BY <1>13, Zenon DEF Unpause
      <3> QED
        BY <1>13, <3>1 DEF Unpause, TypeOK, FlagsOK
    <2>3. HandshakeInv'
      BY <1>13 DEF Unpause, TypeOK, HandshakeInv
    <2> QED
      BY <2>1, <2>2, <2>3 DEF TypeOK
  <1>14. CASE Unpark
    <2>1. PlacesOK'
      BY <1>14 DEF Unpark, TypeOK, PlacesOK
    <2>2. FlagsOK'
      BY <1>14 DEF Unpark, TypeOK, FlagsOK
    <2>3. HandshakeInv'
      BY <1>14 DEF Unpark, TypeOK, HandshakeInv
    <2> QED
      BY <2>1, <2>2, <2>3 DEF TypeOK
  <1>15. CASE Release
    <2>1. PlacesOK'
      BY <1>15 DEF Release, TypeOK, PlacesOK
    <2>2. FlagsOK'
      BY <1>15 DEF Release, TypeOK, FlagsOK
    <2>3. HandshakeInv'
      BY <1>15 DEF Release, TypeOK, HandshakeInv
    <2> QED
      BY <2>1, <2>2, <2>3 DEF TypeOK
  <1>16. CASE Release3d
    <2>1. PlacesOK'
      BY <1>16 DEF Release3d, TypeOK, PlacesOK
    <2>2. FlagsOK'
      <3>1. processed' \in BOOLEAN
        BY <1>16, Zenon DEF Release3d
      <3> QED
        BY <1>16, <3>1 DEF Release3d, TypeOK, FlagsOK
    <2>3. HandshakeInv'
      BY <1>16 DEF Release3d, TypeOK, HandshakeInv
    <2> QED
      BY <2>1, <2>2, <2>3 DEF TypeOK
  <1>17. CASE JoinCpu
    <2>1. PlacesOK'
      BY <1>17 DEF JoinCpu, TypeOK, PlacesOK
    <2>2. FlagsOK'
      <3>1. active' \in BOOLEAN
        BY <1>17, Zenon DEF JoinCpu
      <3> QED
        BY <1>17, <3>1 DEF JoinCpu, TypeOK, FlagsOK
    <2>3. HandshakeInv'
      BY <1>17 DEF JoinCpu, TypeOK, HandshakeInv
    <2> QED
      BY <2>1, <2>2, <2>3 DEF TypeOK
  <1>18. CASE Join3d
    <2>1. PlacesOK'
      BY <1>18 DEF Join3d, TypeOK, PlacesOK
    <2>2. FlagsOK'
      BY <1>18 DEF Join3d, TypeOK, FlagsOK
    <2>3. HandshakeInv'
      BY <1>18 DEF Join3d, TypeOK, HandshakeInv
    <2> QED
      BY <2>1, <2>2, <2>3 DEF TypeOK
  <1> QED
    BY <1>1, <1>2, <1>3, <1>4, <1>5, <1>6, <1>7, <1>8, <1>9, <1>10, <1>11, <1>12, <1>13, <1>14, <1>15, <1>16, <1>17, <1>18 DEF MainSteps

\* The steps of the 3D thread keep the invariant.
LEMMA T3dKeepsInv == Inv /\ (T3dSteps) => Inv'
  <1> SUFFICES ASSUME Inv, T3dSteps PROVE Inv'
    OBVIOUS
  <1> USE HandshakeAssumption DEF Inv
  <1>1. CASE T3dAwaitFrame
    <2>1. PlacesOK'
      BY <1>1 DEF T3dAwaitFrame, TypeOK, PlacesOK
    <2>2. FlagsOK'
      BY <1>1 DEF T3dAwaitFrame, TypeOK, FlagsOK
    <2>3. HandshakeInv'
      BY <1>1 DEF T3dAwaitFrame, TypeOK, HandshakeInv
    <2> QED
      BY <2>1, <2>2, <2>3 DEF TypeOK
  <1>2. CASE T3dCheckQuit
    <2>1. PlacesOK'
      BY <1>2 DEF T3dCheckQuit, TypeOK, PlacesOK
    <2>2. FlagsOK'
      BY <1>2 DEF T3dCheckQuit, TypeOK, FlagsOK
    <2>3. HandshakeInv'
      BY <1>2 DEF T3dCheckQuit, TypeOK, HandshakeInv
    <2> QED
      BY <2>1, <2>2, <2>3 DEF TypeOK
  <1>3. CASE T3dReadFlag
    <2>1. PlacesOK'
      BY <1>3 DEF T3dReadFlag, TypeOK, PlacesOK
    <2>2. FlagsOK'
      BY <1>3 DEF T3dReadFlag, TypeOK, FlagsOK
    <2>3. HandshakeInv'
      BY <1>3 DEF T3dReadFlag, TypeOK, HandshakeInv
    <2> QED
      BY <2>1, <2>2, <2>3 DEF TypeOK
  <1>4. CASE T3dProcess
    <2>1. PlacesOK'
      BY <1>4 DEF T3dProcess, TypeOK, PlacesOK
    <2>2. FlagsOK'
      BY <1>4 DEF T3dProcess, TypeOK, FlagsOK
    <2>3. HandshakeInv'
      BY <1>4 DEF T3dProcess, TypeOK, HandshakeInv
    <2> QED
      BY <2>1, <2>2, <2>3 DEF TypeOK
  <1>5. CASE T3dSpin
    <2>1. PlacesOK'
      BY <1>5 DEF T3dSpin, TypeOK, PlacesOK
    <2>2. FlagsOK'
      BY <1>5 DEF T3dSpin, TypeOK, FlagsOK
    <2>3. HandshakeInv'
      BY <1>5 DEF T3dSpin, TypeOK, HandshakeInv
    <2> QED
      BY <2>1, <2>2, <2>3 DEF TypeOK
  <1>6. CASE T3dPopulate
    <2>1. PlacesOK'
      BY <1>6 DEF T3dPopulate, TypeOK, PlacesOK
    <2>2. FlagsOK'
      BY <1>6 DEF T3dPopulate, TypeOK, FlagsOK
    <2>3. HandshakeInv'
      BY <1>6 DEF T3dPopulate, TypeOK, HandshakeInv
    <2> QED
      BY <2>1, <2>2, <2>3 DEF TypeOK
  <1>7. CASE T3dMark
    <2>1. PlacesOK'
      BY <1>7 DEF T3dMark, TypeOK, PlacesOK
    <2>2. FlagsOK'
      BY <1>7 DEF T3dMark, TypeOK, FlagsOK
    <2>3. HandshakeInv'
      BY <1>7 DEF T3dMark, TypeOK, HandshakeInv
    <2> QED
      BY <2>1, <2>2, <2>3 DEF TypeOK
  <1>8. CASE T3dRest
    <2>1. PlacesOK'
      BY <1>8 DEF T3dRest, TypeOK, PlacesOK
    <2>2. FlagsOK'
      BY <1>8 DEF T3dRest, TypeOK, FlagsOK
    <2>3. HandshakeInv'
      BY <1>8 DEF T3dRest, TypeOK, HandshakeInv
    <2> QED
      BY <2>1, <2>2, <2>3 DEF TypeOK
  <1>9. CASE T3dLoop
    <2>1. PlacesOK'
      BY <1>9 DEF T3dLoop, TypeOK, PlacesOK
    <2>2. FlagsOK'
      BY <1>9 DEF T3dLoop, TypeOK, FlagsOK
    <2>3. HandshakeInv'
      BY <1>9 DEF T3dLoop, TypeOK, HandshakeInv
    <2> QED
      BY <2>1, <2>2, <2>3 DEF TypeOK
  <1> QED
    BY <1>1, <1>2, <1>3, <1>4, <1>5, <1>6, <1>7, <1>8, <1>9 DEF T3dSteps

\* A step that changes nothing keeps the invariant.
LEMMA StutterKeepsInv == Inv /\ UNCHANGED vars => Inv'
  BY DEF Inv, TypeOK, FlagsOK, PlacesOK, HandshakeInv, vars

\* The invariant of the handover holds in every reachable state, for patient
\* and hasty users and with or without timeouts.
THEOREM HandshakeSafe == Spec => [](TypeOK /\ HandshakeInv)
  <1>1. Inv /\ [Next]_vars => Inv'
    BY CpuKeepsInv, MainKeepsInv, T3dKeepsInv, StutterKeepsInv DEF Next
  <1> QED
    BY InitInv, <1>1, PTL DEF Spec, Inv

\* on_scanline_finish never replaces the memory render_loop is reading.
THEOREM SnapshotSafe == Spec => []SnapshotStable
  <1>1. TypeOK /\ HandshakeInv => SnapshotStable
    BY DEF HandshakeInv, SnapshotStable
  <1> QED
    BY <1>1, HandshakeSafe, PTL

\* finish_scanline and renderer_3d.render never meet process_polygons, as long
\* as the wait for the 3D thread does not time out.
THEOREM PolygonsSafe == Spec => []PolygonsStable
  <1>1. TypeOK /\ HandshakeInv => PolygonsStable
    BY DEF HandshakeInv, PolygonsStable
  <1> QED
    BY <1>1, HandshakeSafe, PTL

\* populate_tex_cache never reads memory that read_all is still copying.
THEOREM TexturesSafe == Spec => []TexturesStable
  <1>1. TypeOK /\ HandshakeInv => TexturesStable
    BY DEF HandshakeInv, TexturesStable
  <1> QED
    BY <1>1, HandshakeSafe, PTL

-----------------------------------------------------------------------------
\* One step keeps every token with the wait it answers.
LEMMA PauseStep ==
    ASSUME Patient
    PROVE  TypeOK /\ PauseInv /\ [Next]_vars => PauseInv'
  <1> SUFFICES ASSUME TypeOK, PauseInv, [Next]_vars PROVE PauseInv'
    OBVIOUS
  <1> USE DEF TypeOK, PauseInv
  <1>1. CASE VBlank
    BY <1>1 DEF VBlank
  <1>2. CASE Snapshot
    BY <1>2 DEF Snapshot
  <1>3. CASE Lock
    BY <1>3 DEF Lock
  <1>4. CASE Wake
    BY <1>4 DEF Wake
  <1>5. CASE Swap
    BY <1>5 DEF Swap
  <1>6. CASE Mark
    BY <1>6 DEF Mark
  <1>7. CASE Start
    BY <1>7 DEF Start
  <1>8. CASE Handoff
    BY <1>8 DEF Handoff
  <1>9. CASE VBlankHook
    BY <1>9 DEF VBlankHook
  <1>10. CASE ReloadRegisters
    BY <1>10 DEF ReloadRegisters
  <1>11. CASE SamplerPark
    BY <1>11 DEF SamplerPark
  <1>12. CASE SamplerWake
    BY <1>12 DEF SamplerWake
  <1>13. CASE CheckQuit
    BY <1>13 DEF CheckQuit
  <1>14. CASE Consume
    BY <1>14 DEF Consume
  <1>15. CASE Poll
    BY <1>15 DEF Poll
  <1>16. CASE AwaitFrame
    BY <1>16 DEF AwaitFrame
  <1>17. CASE ReadMemory
    BY <1>17 DEF ReadMemory
  <1>18. CASE Draw2d
    BY <1>18 DEF Draw2d
  <1>19. CASE Await3d
    BY <1>19 DEF Await3d
  <1>20. CASE Render3d
    BY <1>20 DEF Render3d
  <1>21. CASE FinishFrame
    BY <1>21 DEF FinishFrame
  <1>22. CASE Reset3d
    BY <1>22 DEF Reset3d, PlacesOK, AfterFrame
  <1>23. CASE SetQuit
    BY <1>23 DEF SetQuit, MenuAllowed
  <1>24. CASE MenuResume
    BY <1>24 DEF MenuResume, MenuAllowed
  <1>25. CASE MenuSavestate
    BY <1>25 DEF MenuSavestate, MenuAllowed
  <1>26. CASE SavestateShown
    BY <1>26 DEF SavestateShown, MenuAllowed
  <1>27. CASE Unpause
    BY <1>27 DEF Unpause
  <1>28. CASE Unpark
    BY <1>28 DEF Unpark
  <1>29. CASE Release
    BY <1>29 DEF Release
  <1>30. CASE Release3d
    BY <1>30 DEF Release3d
  <1>31. CASE JoinCpu
    BY <1>31 DEF JoinCpu
  <1>32. CASE Join3d
    BY <1>32 DEF Join3d
  <1>33. CASE T3dSteps
    BY <1>33
       DEF T3dSteps, T3dAwaitFrame, T3dCheckQuit, T3dReadFlag, T3dProcess, T3dSpin,
           T3dPopulate, T3dMark, T3dRest, T3dLoop
  <1>34. CASE UNCHANGED vars
    BY <1>34 DEF vars
  <1> QED
    BY <1>1, <1>2, <1>3, <1>4, <1>5, <1>6, <1>7, <1>8, <1>9, <1>10, <1>11, <1>12, <1>13, <1>14,
       <1>15, <1>16, <1>17, <1>18, <1>19, <1>20, <1>21, <1>22, <1>23, <1>24, <1>25, <1>26, <1>27, <1>28,
       <1>29, <1>30, <1>31, <1>32, <1>33, <1>34
       DEF Next, Cpu, CpuSteps, CpuEvents, MainSteps

\* A CPU thread parked for a menu or a savestate display stays parked until the
\* user resumes: the token the audio thread hands out in SoundSampler::consume is
\* always taken by the sampler's own park.  For users who leave a menu only after
\* the CPU thread has parked.
THEOREM PauseSafe ==
    ASSUME Patient
    PROVE  Spec => []PauseHolds
  <1>1. Init => PauseInv
    BY DEF Init, PauseInv
  <1>2. PauseInv => PauseHolds
    BY DEF PauseInv, PauseHolds
  <1> QED
    BY <1>1, <1>2, PauseStep, HandshakeSafe, PTL DEF Spec

=============================================================================
