----------------------------- MODULE DockWindow -----------------------------
(***************************************************************************)
(* How the dock's window shows, hides and changes its place:                   *)
(* panels/dock/package/main.qml with DockPanel's setters, on X11, where the      *)
(* animations move the content of the window.                                *)
(*                                                                           *)
(* Two animations work on it and their handlers start one another: one for the     *)
(* hide state, one for a change of the position, which hides the dock where it       *)
(* was and shows it where it will be.  A timer, menus and the dragging of the        *)
(* edge come in between.  A handler runs to its end at once, with what it stops        *)
(* and starts.                                                               *)
(***************************************************************************)
EXTENDS Naturals

CONSTANTS
  Position,  \* the positions in use
  Sizes,     \* of the dock
  OtherMenu  \* a menu that is not the dock's own

VARIABLES
  position, hideMode, hideState, locked, contextMenuEnabled, panelSize,  \* of the panel
  w,         \* the window and its animations, see WindowState
  menu,      \* MenuHelper.activeMenu
  pressed, isDragging,  \* the edge, by the pointer and for the dock
  dockSize,  \* of the dock in QML
  ignored    \* history: the hide timer fired during a drag and nothing came of it

panel == <<position, hideMode, hideState, locked, contextMenuEnabled, panelSize>>
drag  == <<pressed, isDragging, dockSize>>
vars  == <<panel, w, menu, drag, ignored>>

AxisOf(p) == IF p \in {"left", "right"} THEN "x" ELSE "y"

\* Where the content is when the dock is hidden.
Hidden(p) == IF p \in {"left", "top"} THEN "before" ELSE "after"

Places == {"in", "before", "after", "between"}
Run == [running : BOOLEAN, showing : BOOLEAN, axis : {"x", "y"}, to : Places]
WindowState == [at : Position,            \* positionForAnimation
                place : [{"x", "y"} -> Places],  \* dockTransform
                visible : BOOLEAN, hideTimer : BOOLEAN,
                hideShow : Run,           \* hideShowAnimation; showing: not hiding
                moving : Run,             \* dockAnimation
                changing : BOOLEAN]       \* isPositionChanging

-----------------------------------------------------------------------------
(* The animations.                                                           *)

Started(v, showing, to) ==
  [running |-> TRUE, showing |-> showing, axis |-> AxisOf(v.at), to |-> to]

\* hideShowAnimation.start, for the hide state h.
StartHideShow(v, h) ==
  IF v.hideShow.running THEN v
  ELSE [v EXCEPT !.visible = TRUE,
                 !.hideShow = Started(v, h = "Show", IF h = "Show" THEN "in" ELSE Hidden(v.at))]

\* hideShowAnimation.onStopped, with the content where the animation left it.
HideShowStopped(v, place) ==
  LET left == [v EXCEPT !.place[v.hideShow.axis] = place, !.hideShow.running = FALSE]
  IN  [left EXCEPT !.visible = left.place[AxisOf(v.at)] = "in"]

StopHideShow(v) == IF v.hideShow.running THEN HideShowStopped(v, "between") ELSE v

\* startAnimation: one that runs goes on as it was started.
StartAnimation(v, showing) ==
  IF v.moving.running THEN [v EXCEPT !.moving.showing = showing]
  ELSE [v EXCEPT !.visible = TRUE,
                 !.moving = Started(v, showing, IF showing THEN "in" ELSE Hidden(v.at))]

SetTransformToHiddenPosition(v) ==
  [v EXCEPT !.place = [a \in {"x", "y"} |-> IF a = AxisOf(v.at) THEN Hidden(v.at) ELSE "in"]]

\* Defect: the hidden state is not looked at after the move.
MovedForgetful(v, place, p, h) ==
  LET left == [v EXCEPT !.place[v.moving.axis] = place, !.moving.running = FALSE,
                        !.visible = TRUE, !.at = p]
  IN  IF v.changing /\ ~v.moving.showing
      THEN StartAnimation(SetTransformToHiddenPosition([left EXCEPT !.changing = FALSE]), TRUE)
      ELSE left

\* dockAnimation.onStopped, for the position p and the hide state h.
MovingStopped(v, place, p, h) ==
  LET left == [v EXCEPT !.place[v.moving.axis] = place, !.moving.running = FALSE,
                        !.visible = TRUE, !.at = p]
  IN  IF v.changing /\ ~v.moving.showing
      THEN StartAnimation(SetTransformToHiddenPosition([left EXCEPT !.changing = FALSE]), TRUE)
      ELSE [left EXCEPT !.hideTimer = @ \/ (v.moving.showing /\ h = "Hide")]

StopMoving(v, p, h) == IF v.moving.running THEN MovingStopped(v, "between", p, h) ELSE v

-----------------------------------------------------------------------------
(* The panel's signals.                                                      *)

\* onHideStateChanged
HideStateChanged(v, h) ==
  IF h = "Hide" THEN [v EXCEPT !.hideTimer = TRUE]
  ELSE LET stopped == [v EXCEPT !.hideTimer = FALSE]
           again   == ~v.hideShow.running \/ ~v.hideShow.showing \/ ~v.visible
       IN  [(IF again THEN StartHideShow(StopHideShow(stopped), h) ELSE stopped)
              EXCEPT !.visible = TRUE]

\* onBeforePositionChanged, at the old position p.
BeforePositionChanged(v, p, h) ==
  LET quiet == StopHideShow(StopMoving([v EXCEPT !.hideTimer = FALSE], p, h))
      old   == [quiet EXCEPT !.at = p]
  IN  IF h = "Hide" /\ ~quiet.visible THEN [old EXCEPT !.changing = FALSE]
      ELSE StartAnimation([old EXCEPT !.changing = TRUE], FALSE)

\* onPositionChanged, with the new one.
PositionChanged(v, p) ==
  IF v.changing \/ v.visible THEN v
  ELSE StartAnimation(SetTransformToHiddenPosition([v EXCEPT !.at = p]), TRUE)

SetHideState(h) ==
  /\ h # hideState /\ hideState' = h /\ w' = HideStateChanged(w, h)
  /\ ignored' = FALSE
  /\ UNCHANGED <<position, hideMode, locked, contextMenuEnabled, panelSize, menu, drag>>

\* setHideMode announces the hide state again, after what hideModeChanged made of it.
SetHideMode(m) ==
  /\ hideMode' = m
  /\ hideState' = IF m = "KeepShowing" /\ m # hideMode THEN "Show" ELSE hideState
  /\ w' = HideStateChanged(IF hideState' # hideState THEN HideStateChanged(w, hideState') ELSE w,
                           hideState')
  /\ ignored' = FALSE
  /\ UNCHANGED <<position, locked, contextMenuEnabled, panelSize, menu, drag>>

SetPosition(p) ==
  /\ p # position /\ position' = p
  /\ w' = PositionChanged(BeforePositionChanged(w, position, hideState), p)
  /\ UNCHANGED <<hideMode, hideState, locked, contextMenuEnabled, panelSize, menu, drag, ignored>>

-----------------------------------------------------------------------------
(* Time.                                                                     *)

\* The timer and the animation of the hide state take 500 ms, a move 250 ms either way; a
\* move stops the timer, and what stops the other animation or starts it stops the timer or
\* starts it anew.  So the timer fires after the end of what ran when it started.
HideTimerFires ==
  /\ w.hideTimer /\ ~w.hideShow.running /\ (w.moving.running => w.moving.showing)
  /\ LET fired == [w EXCEPT !.hideTimer = FALSE]
     IN  w' = IF isDragging \/ menu # "none" THEN fired ELSE StartHideShow(fired, hideState)
  /\ ignored' = (ignored \/ isDragging)
  /\ UNCHANGED <<panel, menu, drag>>

HideShowEnds ==
  /\ w.hideShow.running /\ w' = HideShowStopped(w, w.hideShow.to)
  /\ UNCHANGED <<panel, menu, drag, ignored>>

MovingEnds ==
  /\ w.moving.running /\ w' = MovingStopped(w, w.moving.to, position, hideState)
  /\ UNCHANGED <<panel, menu, drag, ignored>>

-----------------------------------------------------------------------------
(* The user.                                                                 *)

\* Defect: the timer is started again in the modes that hide only.
MenuClosedKeeping(v) ==
  IF menu = "none" \/ hideMode = "KeepShowing" THEN v ELSE [v EXCEPT !.hideTimer = TRUE]

\* onMenuClosed
MenuClosed(v) ==
  IF menu = "none" \/ (hideMode = "KeepShowing" /\ hideState = "Show") THEN v
  ELSE [v EXCEPT !.hideTimer = TRUE]

\* The right button: the current menu closes, and the dock's own opens unless it was it.
RightTapped ==
  /\ w.visible
  /\ IF contextMenuEnabled /\ menu # "dock"
     THEN menu' = "dock" /\ w' = [MenuClosed(w) EXCEPT !.hideTimer = FALSE]
     ELSE menu' = "none" /\ w' = MenuClosed(w)
  /\ UNCHANGED <<panel, drag, ignored>>

\* The left button, or the menu's own end.
CloseCurrent ==
  /\ menu # "none" /\ menu' = "none" /\ w' = MenuClosed(w)
  /\ UNCHANGED <<panel, drag, ignored>>

\* An item of the dock opens its menu, instead of the one there is.
OpenMenu ==
  /\ w.visible /\ menu' = OtherMenu /\ w' = MenuClosed(w)
  /\ UNCHANGED <<panel, drag, ignored>>

ContextMenuEnabledChanged ==
  /\ contextMenuEnabled' = ~contextMenuEnabled
  /\ IF contextMenuEnabled /\ menu = "dock" THEN menu' = "none" /\ w' = MenuClosed(w)
     ELSE UNCHANGED <<menu, w>>
  /\ UNCHANGED <<position, hideMode, hideState, locked, panelSize, drag, ignored>>

\* The edge.  It is off while the dock is locked.
Press ==
  /\ w.visible /\ ~locked /\ ~pressed /\ pressed' = TRUE /\ isDragging' = TRUE
  /\ UNCHANGED <<panel, w, menu, dockSize, ignored>>

Drag(n) ==
  /\ pressed /\ isDragging /\ dockSize' = n
  /\ UNCHANGED <<panel, w, menu, pressed, isDragging, ignored>>

\* Defect: what was dragged is not handed to the panel.
ReleaseUnsaved ==
  /\ pressed /\ pressed' = FALSE /\ isDragging' = FALSE
  /\ UNCHANGED <<panel, w, menu, dockSize, ignored>>

Release ==
  /\ pressed /\ pressed' = FALSE /\ isDragging' = FALSE /\ panelSize' = dockSize
  /\ UNCHANGED <<position, hideMode, hideState, locked, contextMenuEnabled, w, menu, dockSize,
                 ignored>>

\* Locking takes the pointer from the edge, which does not hear of its end.
SetLocked ==
  /\ locked' = ~locked /\ pressed' = FALSE
  /\ UNCHANGED <<position, hideMode, hideState, contextMenuEnabled, panelSize, w, menu,
                 isDragging, dockSize, ignored>>

\* setDockSize, from elsewhere.
SetDockSize(n) ==
  /\ n # panelSize /\ panelSize' = n /\ dockSize' = n
  /\ UNCHANGED <<position, hideMode, hideState, locked, contextMenuEnabled, w, menu, pressed,
                 isDragging, ignored>>

Init ==
  /\ position \in Position /\ hideMode \in {"KeepShowing", "Hides"}
  /\ hideState \in {"Show", "Hide"} /\ locked = FALSE /\ contextMenuEnabled = TRUE
  /\ panelSize \in Sizes /\ dockSize = panelSize
  /\ w = [at |-> position, place |-> [a \in {"x", "y"} |-> "in"],
          visible |-> hideState = "Show", hideTimer |-> FALSE,
          hideShow |-> [running |-> FALSE, showing |-> TRUE, axis |-> "x", to |-> "in"],
          moving |-> [running |-> FALSE, showing |-> FALSE, axis |-> "x", to |-> "in"],
          changing |-> FALSE]
  /\ menu = "none" /\ pressed = FALSE /\ isDragging = FALSE /\ ignored = FALSE

Next ==
  \/ \E h \in {"Show", "Hide"} : SetHideState(h)
  \/ \E m \in {"KeepShowing", "Hides"} : SetHideMode(m)
  \/ \E p \in Position : SetPosition(p)
  \/ HideTimerFires \/ HideShowEnds \/ MovingEnds
  \/ RightTapped \/ CloseCurrent \/ OpenMenu \/ ContextMenuEnabledChanged
  \/ Press \/ Release \/ SetLocked
  \/ \E n \in Sizes : Drag(n) \/ SetDockSize(n)

Spec == Init /\ [][Next]_vars

-----------------------------------------------------------------------------
(* Properties.                                                               *)

\* Every variable keeps its type.
TypeOK ==
  /\ position \in Position /\ hideState \in {"Show", "Hide"} /\ w \in WindowState
  /\ menu \in {"none", "dock", OtherMenu} /\ {panelSize, dockSize} \subseteq Sizes
  /\ {locked, contextMenuEnabled, pressed, isDragging, ignored} \subseteq BOOLEAN

Idle ==
  /\ ~w.hideTimer /\ ~w.hideShow.running /\ ~w.moving.running
  /\ menu = "none" /\ ~isDragging /\ ~ignored

\* When nothing moves and nothing is to come, the dock is shown when it should be and only
\* then, all of it, at the panel's position: whatever was started, stopped and turned round
\* on the way.
Settled ==
  Idle => /\ w.visible <=> hideState = "Show"
          /\ w.at = position /\ ~w.changing
          /\ w.visible => \A a \in {"x", "y"} : w.place[a] = "in"

\* The dock that is not dragged has the panel's size, and a finished drag has saved it.
SizeKept == ~isDragging => dockSize = panelSize

\* The window follows the panel.
WindowFollows == TypeOK /\ Settled /\ SizeKept
=============================================================================
