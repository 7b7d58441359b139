--------------------------- MODULE DockHide_proofs ---------------------------
(***************************************************************************)
(* What holds of the dock's hiding for any screens, popups and hide modes.  *)
(***************************************************************************)
EXTENDS DockHide, TLAPS

\* The areas the dock wakes up by are screens.
LEMMA WantedType == \A scr, prim, only, up : Wanted(scr, prim, only, up) \subseteq Screens
  BY DEF Wanted

\* The number of moves under way is a number.
LEMMA MovesCounted == TypeOK => Len(shots) \in Nat
<1> SUFFICES ASSUME TypeOK PROVE Len(shots) \in Nat
  OBVIOUS
<1>1. shots \in Seq(Screens)
  BY DEF TypeOK
<1> QED
  BY <1>1

\* Starting the hide timer keeps the types.
LEMMA HideStarts == TypeOK /\ StartHide => hideTimer' \in BOOLEAN /\ ahead' \in Nat
  BY MovesCounted, Zenon DEF StartHide

\* Closing the popups, too.
LEMMA PopupsCloseTyped ==
  ASSUME TypeOK, NEW c \in BOOLEAN, PopupsClosed(c)
  PROVE  /\ shows' \subseteq Popups /\ enters' \subseteq {Root} \cup Popups
         /\ hideTimer' \in BOOLEAN /\ ahead' \in Nat
<1>1. CASE c /\ shows # {}
  <2>1. shows' = {} /\ enters' = enters \ shows /\ StartHide
    BY <1>1 DEF PopupsClosed
  <2> QED
    BY <2>1, HideStarts DEF TypeOK
<1>2. CASE ~(c /\ shows # {})
  BY <1>2 DEF PopupsClosed, TypeOK
<1> QED
  BY <1>1, <1>2

\* The types, and the areas that go with the hide state.
HideInv == TypeOK /\ Callable

\* They hold of a dock that has just started.
LEMMA InitHideInv == Init => HideInv
<1> SUFFICES ASSUME Init PROVE HideInv
  OBVIOUS
<1>1. TypeOK
  <2>1. dockScreen \in Screens
    BY DEF Init
  <2>2. wake \subseteq Screens
    BY WantedType DEF Init
  <2>3. shots \in Seq(Screens)
    <3>1. shots = <<>>
      BY DEF Init
    <3>2. <<>> \in Seq(Screens)
      OBVIOUS
    <3> QED
      BY <3>1, <3>2
  <2> QED
    BY <2>1, <2>2, <2>3 DEF Init, TypeOK
<1>2. Callable
  BY DEF Init, Callable, Shown
<1> QED
  BY <1>1, <1>2 DEF HideInv

\* A change of the hide state leaves types and areas in order.
LEMMA HideStateChanges ==
  ASSUME TypeOK, NEW h \in {"Show", "Hide"}, SetHideState(h), Callable,
         UNCHANGED <<launcherShown, place>>
  PROVE  /\ hideState' \in {"Show", "Hide"} /\ visible' \in BOOLEAN
         /\ wake' \subseteq Screens /\ moved' \in BOOLEAN
         /\ Callable'
<1>1. CASE h = hideState
  BY <1>1 DEF SetHideState, TypeOK, Callable, place
<1>2. CASE h # hideState
  <2>1. StateChanged(h, launcherShown) /\ hideState' = h
    BY <1>2 DEF SetHideState
  <2>2. visible' \in BOOLEAN
    BY <2>1 DEF StateChanged, TypeOK, Shown
  <2> QED
    BY <2>1, <2>2, WantedType DEF StateChanged, Callable, place
<1> QED
  BY <1>1, <1>2

\* Every step of the dock keeps them.
LEMMA NextHideInv == HideInv /\ [Next]_vars => HideInv'
<1> SUFFICES ASSUME HideInv, [Next]_vars PROVE HideInv'
  OBVIOUS
<1> USE DEF HideInv
<1>0. \A h \in {"Show", "Hide"} :
        SetHideState(h) /\ UNCHANGED <<launcherShown, place>> =>
          /\ hideState' \in {"Show", "Hide"} /\ visible' \in BOOLEAN
          /\ wake' \subseteq Screens /\ moved' \in BOOLEAN
          /\ Callable'
  BY HideStateChanges
<1>1. ASSUME NEW w \in {Root} \cup Popups, Enter(w) PROVE HideInv'
  BY <1>1 DEF Enter, TypeOK, Callable, panel, place, told
<1>2. ASSUME NEW w \in {Root} \cup Popups, Leave(w) PROVE HideInv'
  <2>1. hideTimer' \in BOOLEAN /\ ahead' \in Nat
    BY <1>2, HideStarts DEF Leave
  <2> QED
    BY <1>2, <2>1 DEF Leave, TypeOK, Callable, panel, place, told, moves
<1>3. ASSUME NEW w \in Popups, ShowPopup(w) PROVE HideInv'
  BY <1>3 DEF ShowPopup, TypeOK, Callable, panel, place, told, moves
<1>4. ASSUME NEW w \in Popups, HidePopup(w) PROVE HideInv'
  <2>1. hideTimer' \in BOOLEAN /\ ahead' \in Nat
    BY <1>4, HideStarts DEF HidePopup
  <2> QED
    BY <1>4, <2>1 DEF HidePopup, TypeOK, Callable, panel, place, told, moves
<1>5. ASSUME NEW s \in Screens, EnterWake(s) PROVE HideInv'
  <2>1. CASE SetHideState("Show") /\ UNCHANGED shots
    BY <1>5, <2>1, <1>0 DEF EnterWake, TypeOK, panel, place, told
  <2>2. CASE shots' = Append(shots, s) /\ UNCHANGED <<hideState, wake, moved, visible>>
    BY <1>5, <2>2 DEF EnterWake, TypeOK, Callable, panel, place, told
  <2> QED
    BY <1>5, <2>1, <2>2 DEF EnterWake
<1>6. CASE LeaveWake
  <2>1. hideTimer' \in BOOLEAN /\ ahead' \in Nat
    BY <1>6, HideStarts DEF LeaveWake
  <2> QED
    BY <1>6, <2>1 DEF LeaveWake, TypeOK, Callable, panel, place, told
<1>7. CASE HideTimeout
  <2>1. SetHideState("Hide") \/ SetHideState(hideState)
    BY <1>7 DEF HideTimeout, CheckNeedHide
  <2> QED
    BY <1>7, <2>1, <1>0 DEF HideTimeout, TypeOK, panel, place, told, moves
<1>8. CASE ShowTimeout
  <2>1. SetHideState("Show") \/ SetHideState(hideState)
    BY <1>8 DEF ShowTimeout, CheckNeedShow
  <2> QED
    BY <1>8, <2>1, <1>0 DEF ShowTimeout, TypeOK, panel, place, told, moves
<1>9. CASE MoveTimeout
  <2>1. /\ shots' \in Seq(Screens) /\ dockScreen' \in Screens
    BY <1>9 DEF MoveTimeout, TypeOK
  <2>2. shows' \subseteq Popups /\ enters' \subseteq {Root} \cup Popups
    BY <1>9 DEF MoveTimeout, TypeOK
  <2>3. hideTimer' \in BOOLEAN /\ ahead' \in Nat
    <3>1. Len(shots') \in Nat
      BY <2>1
    <3>2. CASE shows' # shows
      BY <1>9, <3>1, <3>2 DEF MoveTimeout
    <3>3. CASE shows' = shows
      BY <1>9, <3>3 DEF MoveTimeout, TypeOK
    <3> QED
      BY <3>2, <3>3
  <2>4. wake' \subseteq Screens
    BY <1>9, WantedType DEF MoveTimeout
  <2>5. TypeOK'
    BY <1>9, <2>1, <2>2, <2>3, <2>4 DEF MoveTimeout, TypeOK, panel, told
  <2>6. Callable'
    BY <1>9 DEF MoveTimeout, Callable, Shown, panel
  <2> QED
    BY <2>5, <2>6
<1>10. CASE HideRoot
  BY <1>10 DEF HideRoot, TypeOK, Callable, panel, place, told, moves
<1>11. ASSUME NEW s \in Screens, SetPrimary(s) PROVE HideInv'
  <2>1. /\ shows' \subseteq Popups /\ enters' \subseteq {Root} \cup Popups
        /\ hideTimer' \in BOOLEAN /\ ahead' \in Nat
    BY <1>11, PopupsCloseTyped DEF SetPrimary
  <2> QED
    BY <1>11, <2>1 DEF SetPrimary, TypeOK, Callable, panel, told, moves
<1>12. ASSUME NEW b \in BOOLEAN, SetShowInPrimary(b) PROVE HideInv'
  <2>1. /\ shows' \subseteq Popups /\ enters' \subseteq {Root} \cup Popups
        /\ hideTimer' \in BOOLEAN /\ ahead' \in Nat
    BY <1>12, PopupsCloseTyped DEF SetShowInPrimary
  <2>2. wake' \subseteq Screens
    BY <1>12, WantedType DEF SetShowInPrimary
  <2>3. TypeOK'
    BY <1>12, <2>1, <2>2 DEF SetShowInPrimary, TypeOK, panel, told, moves
  <2>4. Callable'
    BY <1>12 DEF SetShowInPrimary, Callable, panel
  <2> QED
    BY <2>3, <2>4
<1>13. ASSUME NEW m \in Modes, NEW o \in BOOLEAN, SetHideMode(m, o) PROVE HideInv'
  <2>1. hideState' \in {"Show", "Hide"} /\ StateChanged(hideState', launcherShown)
    BY <1>13 DEF SetHideMode, TypeOK
  <2>2. wake' \subseteq Screens /\ visible' \in BOOLEAN /\ moved' = FALSE
    BY <2>1, WantedType DEF StateChanged, TypeOK, Shown
  <2>3. TypeOK'
    <3>1. hideTimer' \in BOOLEAN /\ ahead' \in Nat
      BY <1>13, HideStarts DEF SetHideMode
    <3> QED
      BY <1>13, <2>1, <2>2, <3>1 DEF SetHideMode, TypeOK, place, moves
  <2>4. Callable'
    BY <1>13, <2>1 DEF SetHideMode, StateChanged, Callable, place
  <2> QED
    BY <2>3, <2>4
<1>14. ASSUME NEW b \in BOOLEAN, OverlapChanged(b) PROVE HideInv'
  <2>1. hideTimer' \in BOOLEAN /\ ahead' \in Nat
    BY <1>14, HideStarts DEF OverlapChanged, TypeOK
  <2>2. showTimer' \in BOOLEAN
    BY <1>14 DEF OverlapChanged, TypeOK
  <2> QED
    BY <1>14, <2>1, <2>2 DEF OverlapChanged, TypeOK, Callable, panel, place, moves
<1>15. ASSUME NEW b \in BOOLEAN, FullscreenChanged(b) PROVE HideInv'
  <2>1. SetHideState("Hide") \/ SetHideState("Show") \/ SetHideState(hideState)
    BY <1>15 DEF FullscreenChanged, CheckNeedHide, CheckNeedShow
  <2> QED
    BY <1>15, <2>1, <1>0 DEF FullscreenChanged, TypeOK, panel, place, moves
<1>16. ASSUME NEW b \in BOOLEAN, MultitaskStateChanged(b) PROVE HideInv'
  <2>1. SetHideState("Hide") \/ SetHideState("Show") \/ SetHideState(hideState)
    BY <1>16 DEF MultitaskStateChanged, CheckNeedHide, CheckNeedShow
  <2> QED
    BY <1>16, <2>1, <1>0 DEF MultitaskStateChanged, TypeOK, panel, place, moves
<1>17. ASSUME NEW b \in BOOLEAN, LauncherVisibleChanged(b) PROVE HideInv'
  <2>1. CASE Shown(hideState, b) # Shown(hideState, launcherShown)
    <3>1. StateChanged(hideState, b)
      BY <1>17, <2>1 DEF LauncherVisibleChanged
    <3>2. wake' \subseteq Screens /\ visible' \in BOOLEAN /\ moved' = FALSE
      BY <3>1, WantedType DEF StateChanged, TypeOK, Shown
    <3>3. TypeOK'
      BY <1>17, <3>2 DEF LauncherVisibleChanged, TypeOK, place, told, moves
    <3>4. Callable'
      BY <1>17, <3>1 DEF LauncherVisibleChanged, StateChanged, Callable, place
    <3> QED
      BY <3>3, <3>4
  <2>2. CASE Shown(hideState, b) = Shown(hideState, launcherShown)
    <3>1. TypeOK'
      BY <1>17, <2>2 DEF LauncherVisibleChanged, TypeOK, place, told, moves
    <3>2. Callable'
      BY <1>17, <2>2 DEF LauncherVisibleChanged, Callable, place
    <3> QED
      BY <3>1, <3>2
  <2> QED
    BY <2>1, <2>2
<1>18. ASSUME NEW b \in BOOLEAN, SetContextDragging(b) PROVE HideInv'
  <2>1. CASE b
    BY <1>18, <2>1 DEF SetContextDragging, TypeOK, Callable, place, told, moves
  <2>2. CASE ~b
    <3>1. SetHideState("Hide") \/ SetHideState(hideState)
      BY <1>18, <2>2 DEF SetContextDragging, CheckNeedHide
    <3> QED
      BY <1>18, <3>1, <1>0 DEF SetContextDragging, TypeOK, place, told, moves
  <2> QED
    BY <2>1, <2>2
<1>19. CASE UNCHANGED vars
  BY <1>19 DEF vars, TypeOK, Callable, panel, place, told, moves
<1> QED
  BY <1>1, <1>2, <1>3, <1>4, <1>5, <1>6, <1>7, <1>8, <1>9, <1>10, <1>11, <1>12, <1>13,
     <1>14, <1>15, <1>16, <1>17, <1>18, <1>19
  DEF Next, Pointer, Timers, Settings, Told

\* Types are kept and, as long as the primary screen stays, the dock can be
\* called exactly where it may be and is not (updateAllDockWakeArea): the
\* invariant is inductive.
THEOREM SpecHideInv == Spec => []HideInv
<1>1. Init => HideInv
  BY InitHideInv
<1>2. HideInv /\ [Next]_vars => HideInv'
  BY NextHideInv
<1> QED
  BY <1>1, <1>2, PTL DEF Spec

\* Every variable of the dock's hiding keeps its type.
THEOREM DockTypeCorrect == Spec => []TypeOK
<1>1. HideInv => TypeOK
  BY DEF HideInv
<1> QED
  BY <1>1, SpecHideInv, PTL

\* However the timers, the pointer and the settings interleave, on any number of
\* screens: the wake-up areas go with the hide state, so that a hidden dock can
\* be called back.
THEOREM AlwaysCallable == Spec => []Callable
<1>1. HideInv => Callable
  BY DEF HideInv
<1> QED
  BY <1>1, SpecHideInv, PTL

=============================================================================
