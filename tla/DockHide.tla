------------------------------ MODULE DockHide ------------------------------
(***************************************************************************)
(* When the dock is shown and when it hides: panels/dock/dockhelper.cpp and  *)
(* the hide state of dockpanel.cpp, on the main thread.                      *)
(*                                                                           *)
(* The window system tells where the pointer is, which popups are open and   *)
(* whether windows overlap the dock; most of it is acted upon when one of    *)
(* two timers of 400 ms fires.  On each screen where the dock could be shown *)
(* and is not, a wake-up area waits for the pointer; the area of another     *)
(* screen moves the dock there after 200 ms.                                 *)
(*                                                                           *)
(* The pointer is in one window at a time, and leaves it before it enters    *)
(* another; only the area the dock has covered may be entered away from.     *)
(***************************************************************************)
EXTENDS Integers, Sequences

CONSTANTS
  Screens,
  Popups,  \* windows whose top transient parent is the dock
  Root,    \* the window of the dock
  Modes,   \* hide modes in use
  MaxShots \* bound: moves to another screen under way

ASSUME WindowsAssumption == Root \notin Popups
ASSUME ModesAssumption == Modes \subseteq {"KeepShowing", "SmartHide", "KeepHidden"}
ASSUME ScreensAssumption == Screens # {} /\ Modes # {} /\ MaxShots \in Nat

VARIABLES
  mode, hideState, launcherShown, dragging,  \* of DockPanel
  dockScreen, primary, inPrimary,            \* m_dockScreen, primaryScreen, showInPrimary
  visible,                                   \* the dock's window is mapped
  enters, shows,                             \* m_enters, m_transientChildShows
  overlap, fullscreen, multitask,            \* what the window system last said
  hideTimer, showTimer,                      \* running
  wake,                                      \* screens with an open wake-up area
  onWake,                                    \* the areas the pointer is in
  shots,                                     \* screens of the moves under way
  ahead,                                     \* moves due before the hide timer is
  moved                                      \* history: primary changed, areas not updated

panel == <<mode, launcherShown, dragging>>
place == <<dockScreen, primary, inPrimary>>
told  == <<overlap, fullscreen, multitask>>
moves == <<onWake, shots>>
vars  == <<panel, place, told, moves, hideState, visible, enters, shows, hideTimer,
           showTimer, wake, ahead, moved>>

-----------------------------------------------------------------------------
(* The hide state and what follows from its change.                          *)

\* hideState(): the launcher shows the dock whatever the state is.
Shown(h, l) == l \/ h = "Show"

\* wakeUpAreaNeedShowOnThisScreen.
Wanted(scr, prim, only, up) == {s \in Screens : (only => s = prim) /\ ~(scr = s /\ up)}

\* hideStateChanged: updateAllDockWakeArea, and the window is mapped to be shown.
StateChanged(h, l) ==
  /\ wake' = Wanted(dockScreen, primary, inPrimary, Shown(h, l))
  /\ moved' = FALSE
  /\ visible' = (visible \/ Shown(h, l))

\* setHideState.
SetHideState(h) ==
  /\ hideState' = h
  /\ IF h = hideState THEN UNCHANGED <<wake, moved, visible>>
     ELSE StateChanged(h, launcherShown)

StartHide == hideTimer' = TRUE /\ ahead' = Len(shots)

\* checkNeedHideOrNot, for the given dragging, multitask and fullscreen.
NeedHide(d, m, f) ==
  /\ mode = "KeepShowing" => f
  /\ mode = "SmartHide" => overlap
  /\ ~d /\ enters = {} /\ shows = {} /\ ~m

\* Defect: what need not hide has no known state.
CheckNeedHideUnknown(d, m, f) ==
  SetHideState(IF NeedHide(d, m, f) THEN "Hide" ELSE "Unknown")

CheckNeedHide(d, m, f) ==
  SetHideState(IF NeedHide(d, m, f) THEN "Hide" ELSE hideState)

\* checkNeedShowOrNot.
NeedShow(m, f) ==
  \/ mode = "KeepShowing" /\ ~f
  \/ mode = "SmartHide" /\ ~overlap
  \/ enters # {}
  \/ m

CheckNeedShow(m, f) ==
  SetHideState(IF NeedShow(m, f) THEN "Show" ELSE hideState)

-----------------------------------------------------------------------------
(* The pointer and the windows of the dock: eventFilter.                     *)

Away == enters = {}

Enter(w) ==
  /\ Away
  /\ onWake = {} \/ (w = Root /\ onWake = {dockScreen})
  /\ (w = Root /\ visible) \/ w \in shows
  /\ enters' = {w}
  /\ onWake' = {}
  /\ hideTimer' = FALSE /\ showTimer' = TRUE /\ ahead' = 0
  /\ UNCHANGED <<panel, place, told, shots, hideState, visible, shows, wake, moved>>

Leave(w) ==
  /\ w \in enters
  /\ enters' = enters \ {w}
  /\ showTimer' = FALSE /\ StartHide
  /\ UNCHANGED <<panel, place, told, moves, hideState, visible, shows, wake, moved>>

ShowPopup(w) ==
  /\ w \in Popups \ shows /\ visible
  /\ shows' = shows \cup {w}
  /\ hideTimer' = FALSE /\ ahead' = 0
  /\ UNCHANGED <<panel, place, told, moves, hideState, visible, enters, showTimer, wake,
                 moved>>

\* Defect: a popup that hides starts no timer.
HidePopupAndStay(w) ==
  /\ w \in shows
  /\ shows' = shows \ {w}
  /\ enters' = enters \ {w}
  /\ UNCHANGED <<panel, place, told, moves, hideState, visible, hideTimer, showTimer, wake,
                 ahead, moved>>

HidePopup(w) ==
  /\ w \in shows
  /\ shows' = shows \ {w}
  /\ enters' = enters \ {w}
  /\ StartHide
  /\ UNCHANGED <<panel, place, told, moves, hideState, visible, showTimer, wake, moved>>

\* The hiding animation is over.
HideRoot ==
  /\ visible /\ ~Shown(hideState, launcherShown)
  /\ visible' = FALSE
  /\ enters' = enters \ {Root}
  /\ UNCHANGED <<panel, place, told, moves, hideState, shows, hideTimer, showTimer, wake,
                 ahead, moved>>

-----------------------------------------------------------------------------
(* The timers.                                                               *)

HideTimeout ==
  /\ hideTimer /\ ahead = 0
  /\ hideTimer' = FALSE
  /\ CheckNeedHide(dragging, multitask, fullscreen)
  /\ UNCHANGED <<panel, place, told, moves, enters, shows, showTimer, ahead>>

ShowTimeout ==
  /\ showTimer
  /\ showTimer' = FALSE
  /\ CheckNeedShow(multitask, fullscreen)
  /\ UNCHANGED <<panel, place, told, moves, enters, shows, hideTimer, ahead>>

-----------------------------------------------------------------------------
(* Screens.                                                                  *)

\* dockScreenChanged: the popups of the dock are closed.
PopupsClosed(changed) ==
  IF changed /\ shows # {}
    THEN shows' = {} /\ enters' = enters \ shows /\ StartHide
    ELSE UNCHANGED <<shows, enters, hideTimer, ahead>>

\* enterScreen: shows the dock here, or moves it here later unless a popup is open.
EnterWake(s) ==
  /\ Away /\ onWake = {}
  /\ s \in wake
  /\ onWake' = {s}
  /\ IF dockScreen = s \/ shows # {}
       THEN SetHideState("Show") /\ UNCHANGED shots
       ELSE /\ Len(shots) < MaxShots
            /\ shots' = Append(shots, s)
            /\ UNCHANGED <<hideState, wake, moved, visible>>
  /\ UNCHANGED <<panel, place, told, enters, shows, hideTimer, showTimer, ahead>>

\* leaveScreen.
LeaveWake ==
  /\ onWake # {}
  /\ onWake' = {}
  /\ StartHide
  /\ UNCHANGED <<panel, place, told, shots, hideState, visible, enters, shows, showTimer,
                 wake, moved>>

\* The 200 ms of a move are over.
MoveTimeout ==
  /\ shots # <<>>
  /\ shots' = Tail(shots)
  /\ dockScreen' = Head(shots)
  /\ shows' = IF dockScreen' = dockScreen THEN shows ELSE {}
  /\ enters' = enters \ (shows \ shows')
  /\ IF shows' # shows THEN hideTimer' = TRUE /\ ahead' = Len(shots')
     ELSE ahead' = (IF ahead = 0 THEN 0 ELSE ahead - 1) /\ UNCHANGED hideTimer
  /\ hideState' = "Show"
  /\ visible' = TRUE
  /\ wake' = Wanted(dockScreen', primary, inPrimary, TRUE)
  /\ moved' = FALSE
  /\ UNCHANGED <<panel, primary, inPrimary, told, onWake, showTimer>>

\* primaryScreenChanged; updateDockScreen is connected only with showInPrimary.
SetPrimary(s) ==
  /\ s # primary
  /\ primary' = s
  /\ dockScreen' = IF inPrimary THEN s ELSE dockScreen
  /\ PopupsClosed(dockScreen' # dockScreen)
  /\ moved' = TRUE
  /\ UNCHANGED <<panel, inPrimary, told, moves, hideState, visible, showTimer, wake>>

\* setShowInPrimary: updateDockScreen, then the areas.
SetShowInPrimary(on) ==
  /\ on # inPrimary
  /\ inPrimary' = on
  /\ dockScreen' = primary
  /\ PopupsClosed(dockScreen' # dockScreen)
  /\ wake' = Wanted(primary, primary, on, Shown(hideState, launcherShown))
  /\ moved' = FALSE
  /\ UNCHANGED <<panel, primary, told, moves, hideState, visible, showTimer>>

-----------------------------------------------------------------------------
(* What the dock is told.                                                    *)

\* setHideMode; what overlaps is looked up anew.
SetHideMode(m, o) ==
  /\ m # mode
  /\ mode' = m
  /\ overlap' = o
  /\ StartHide /\ showTimer' = TRUE
  /\ hideState' = IF m = "KeepShowing" THEN "Show" ELSE hideState
  /\ StateChanged(hideState', launcherShown)
  /\ UNCHANGED <<launcherShown, dragging, place, fullscreen, multitask, moves, enters, shows>>

\* isWindowOverlapChanged, also of the same value.
OverlapChanged(o) ==
  /\ overlap' = o
  /\ IF o THEN StartHide /\ UNCHANGED showTimer
     ELSE showTimer' = TRUE /\ UNCHANGED <<hideTimer, ahead>>
  /\ UNCHANGED <<panel, place, fullscreen, multitask, moves, hideState, visible, enters,
                 shows, wake, moved>>

FullscreenChanged(f) ==
  /\ fullscreen' = f
  /\ IF f THEN CheckNeedHide(dragging, multitask, f) ELSE CheckNeedShow(multitask, f)
  /\ UNCHANGED <<panel, place, overlap, multitask, moves, enters, shows, hideTimer,
                 showTimer, ahead>>

\* Defect: the view does not show the dock.
MultitaskStateChangedHides(m) ==
  /\ m # multitask
  /\ multitask' = m
  /\ CheckNeedHide(dragging, m, fullscreen)
  /\ UNCHANGED <<panel, place, overlap, fullscreen, moves, enters, shows, hideTimer,
                 showTimer, ahead>>

MultitaskStateChanged(m) ==
  /\ m # multitask
  /\ multitask' = m
  /\ IF m THEN CheckNeedShow(m, fullscreen) ELSE CheckNeedHide(dragging, m, fullscreen)
  /\ UNCHANGED <<panel, place, overlap, fullscreen, moves, enters, shows, hideTimer,
                 showTimer, ahead>>

\* Defect: the launcher comes and goes without a signal.
LauncherVisibleChangedQuietly(l) ==
  /\ l # launcherShown
  /\ launcherShown' = l
  /\ UNCHANGED <<mode, dragging, place, told, moves, hideState, visible, enters, shows,
                 hideTimer, showTimer, wake, ahead, moved>>

LauncherVisibleChanged(l) ==
  /\ l # launcherShown
  /\ launcherShown' = l
  /\ IF Shown(hideState, l) # Shown(hideState, launcherShown)
       THEN StateChanged(hideState, l) ELSE UNCHANGED <<wake, moved, visible>>
  /\ UNCHANGED <<mode, dragging, place, told, moves, hideState, enters, shows, hideTimer,
                 showTimer, ahead>>

SetContextDragging(d) ==
  /\ d # dragging
  /\ dragging' = d
  /\ IF d THEN UNCHANGED <<hideState, wake, moved, visible>>
     ELSE CheckNeedHide(d, multitask, fullscreen)
  /\ UNCHANGED <<mode, launcherShown, place, told, moves, enters, shows, hideTimer,
                 showTimer, ahead>>

-----------------------------------------------------------------------------
Init ==
  /\ mode \in Modes /\ hideState = "Show"
  /\ launcherShown = FALSE /\ dragging = FALSE
  /\ primary \in Screens /\ inPrimary \in BOOLEAN
  /\ dockScreen \in (IF inPrimary THEN {primary} ELSE Screens)
  /\ visible = TRUE /\ enters = {} /\ shows = {}
  /\ overlap = FALSE /\ fullscreen = FALSE /\ multitask = FALSE
  /\ hideTimer = FALSE /\ showTimer = FALSE
  /\ wake = Wanted(dockScreen, primary, inPrimary, TRUE)
  /\ onWake = {} /\ shots = <<>> /\ ahead = 0
  /\ moved = FALSE

Pointer ==
  \/ \E w \in {Root} \cup Popups : Enter(w) \/ Leave(w)
  \/ \E w \in Popups : ShowPopup(w) \/ HidePopup(w)
  \/ \E s \in Screens : EnterWake(s)
  \/ LeaveWake

Timers == HideTimeout \/ ShowTimeout \/ MoveTimeout

Settings ==
  \/ \E s \in Screens : SetPrimary(s)
  \/ \E b \in BOOLEAN : SetShowInPrimary(b)
  \/ \E m \in Modes, o \in BOOLEAN : SetHideMode(m, o)

Told ==
  \E b \in BOOLEAN :
    \/ OverlapChanged(b) \/ FullscreenChanged(b) \/ MultitaskStateChanged(b)
    \/ LauncherVisibleChanged(b) \/ SetContextDragging(b)

Next == Pointer \/ Timers \/ HideRoot \/ Settings \/ Told

Spec == Init /\ [][Next]_vars

\* Timers that run fire.
FairSpec == Spec /\ WF_vars(HideTimeout) /\ WF_vars(ShowTimeout) /\ WF_vars(MoveTimeout)

-----------------------------------------------------------------------------
(* Properties.                                                               *)

\* Every variable keeps its type.
TypeOK ==
  /\ mode \in Modes /\ hideState \in {"Show", "Hide"}
  /\ launcherShown \in BOOLEAN /\ dragging \in BOOLEAN
  /\ dockScreen \in Screens /\ primary \in Screens /\ inPrimary \in BOOLEAN
  /\ visible \in BOOLEAN
  /\ enters \subseteq {Root} \cup Popups /\ shows \subseteq Popups
  /\ overlap \in BOOLEAN /\ fullscreen \in BOOLEAN /\ multitask \in BOOLEAN
  /\ hideTimer \in BOOLEAN /\ showTimer \in BOOLEAN
  /\ wake \subseteq Screens /\ onWake \subseteq Screens
  /\ shots \in Seq(Screens) /\ ahead \in Nat /\ moved \in BOOLEAN

\* Unless the primary screen changed since the areas were last updated, the dock
\* can be called on every screen where it may be and is not, and nowhere else.
Callable ==
  ~moved => wake = Wanted(dockScreen, primary, inPrimary, Shown(hideState, launcherShown))

\* Nothing needs the dock any more.
Quiet ==
  /\ enters = {} /\ onWake = {} /\ shows = {} /\ ~dragging /\ ~multitask
  /\ mode = "SmartHide" => overlap
  /\ mode = "KeepShowing" => fullscreen

\* The pointer has run into the dock while it hides and is to move elsewhere.
Caught == shots # <<>> /\ Root \in enters /\ ~Shown(hideState, launcherShown)

\* When something needed the dock, or the mode was another, and nothing needs it
\* any more in the mode it stays in, it hides for good: the timers that were
\* stopped and started meanwhile leave none out (eventFilter, enterScreen,
\* leaveScreen, checkNeedHideOrNot).
HidesInTheEnd ==
  []~Caught =>
    \A m \in Modes :
      <>~(Quiet /\ mode = m) /\ <>[](Quiet /\ mode = m) => <>[](hideState = "Hide")

\* What calls for the dock whatever windows overlap it.
Called ==
  enters # {} \/ multitask \/ (mode = "KeepShowing" /\ ~fullscreen)

\* When the dock is called, it shows.
ShowsInTheEnd == <>[]Called => <>[](hideState = "Show")

=============================================================================
