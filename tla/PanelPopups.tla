----------------------------- MODULE PanelPopups -----------------------------
(***************************************************************************)
(* The popups of a panel, which share one window: frame/qml/PanelPopup.qml and      *)
(* PanelPopupWindow.qml, frame/popupwindow.cpp.  A popup is shown in two steps, one    *)
(* loop of events apart, when the window has its size; it closes when the window       *)
(* loses the focus, unless somebody has only grabbed the keyboard for a while.          *)
(*                                                                           *)
(* readyBinding, and so popup.visible, is TRUE of the control that is the window's      *)
(* current item.  The size the window is asked for is the current item's.               *)
(***************************************************************************)
EXTENDS Naturals, Sequences, SequencesExt

CONSTANTS
  Control, NoControl,
  MaxLater, MaxSettle   \* bounds: callbacks and timers under way when something else happens

VARIABLES
  visible, current, geometry,  \* the window, its currentItem, the item it has the size of
  settle,        \* timers of onVisibleChanged under way
  focus,         \* "in", "out", or "grabbed" by another client, for the X server
  active,        \* the window's, which follows
  transition,    \* x11GrabFocusTransition
  openPending, grabPending,  \* the controls that have them
  later,         \* Qt.callLater
  due,           \* history: the control that was opened and not closed since
  unfocused      \* history: the window had the focus and lost it

vars == <<visible, current, geometry, settle, focus, active, transition, openPending,
          grabPending, later, due, unfocused>>

Geometry == [do |-> "geometry", for |-> NoControl]

\* requestUpdateGeometry: once, as long as it is under way.
Ask(queue) == IF Contains(queue, Geometry) THEN queue ELSE Append(queue, Geometry)

\* The queue once the window has another item, and so another size to ask for.
WithItem(c, queue) == IF c = current THEN queue ELSE Ask(queue)

\* The window hides, and forgets a grab.
Hide ==
  /\ visible' = FALSE /\ settle' = settle + (IF visible THEN 1 ELSE 0)
  /\ transition' = (transition /\ ~visible) /\ focus' = "out" /\ unfocused' = FALSE
KeepWindow == UNCHANGED <<visible, settle, transition, focus, unfocused>>

\* close
Close(c, queue) ==
  /\ openPending' = openPending \ {c} /\ grabPending' = grabPending \ {c}
  /\ due' = IF due = c THEN NoControl ELSE due
  /\ UNCHANGED <<geometry, active>>
  /\ IF current # c THEN KeepWindow /\ later' = queue /\ UNCHANGED current
     ELSE Hide /\ current' = NoControl /\ later' = WithItem(NoControl, queue)

\* open.  What another popup shows is closed first, and this one opens a loop later.
Open(c, queue) ==
  /\ current # c /\ due' = c
  /\ UNCHANGED <<geometry, active, grabPending>>
  /\ \/ /\ visible /\ Hide /\ current' = NoControl
        /\ later' = Append(WithItem(NoControl, queue), [do |-> "open", for |-> c])
        /\ UNCHANGED openPending
     \/ /\ ~visible /\ KeepWindow /\ current' = c /\ openPending' = openPending \cup {c}
        /\ later' = Append(WithItem(c, queue), [do |-> "ask", for |-> c])

-----------------------------------------------------------------------------
(* Users, clients and the panel.                                             *)

Roomy == Len(later) <= MaxLater /\ settle <= MaxSettle

\* A click on the item: it opens or closes its popup.
Click(c) == Roomy /\ (Open(c, later) \/ (current = c /\ Close(c, later)))

\* The client takes its popup back.
SurfaceDestroyed(c) == Roomy /\ Close(c, later)

\* The window is closed otherwise: requestClosePopup, or a click outside.
WindowCloses ==
  /\ Roomy /\ visible /\ Hide /\ due' = NoControl
  /\ UNCHANGED <<current, geometry, active, openPending, grabPending, later>>

\* The panel moves, or its screen changes.
PanelMoves ==
  /\ Roomy /\ later' = Ask(later)
  /\ KeepWindow /\ UNCHANGED <<current, geometry, active, openPending, grabPending, due>>

-----------------------------------------------------------------------------
(* What was put off.                                                         *)

Nothing == KeepWindow /\ UNCHANGED <<current, geometry, active, openPending, grabPending, due>>

\* updateGeometryer: the window takes the size of what it shows.
UpdateGeometry == geometry' = current

\* That, then finalizeOpen of each.
FinalizeOpen(queue) ==
  /\ UpdateGeometry
  /\ openPending' = openPending \ {current} /\ visible' = (visible \/ current \in openPending)
  /\ settle' = settle + (IF visible' = visible THEN 0 ELSE 1)
  /\ later' = queue /\ UNCHANGED <<current, active, focus, transition, grabPending, due, unfocused>>

CallLater ==
  /\ later # <<>>
  /\ LET do == Head(later).do
         c == Head(later).for
         rest == Tail(later)
     IN  \/ do = "geometry" /\ FinalizeOpen(rest)
         \/ do = "ask" /\ Nothing
            /\ later' = IF current = c /\ c \in openPending THEN Ask(rest) ELSE rest
         \/ do = "open" /\ (Open(c, rest) \/ (current = c /\ Nothing /\ later' = rest))
         \/ do = "inactive" /\ (IF active THEN Nothing /\ later' = rest ELSE Close(c, rest))
         \/ /\ do = "ungrab"
            /\ IF current = c /\ c \notin grabPending /\ ~active THEN Close(c, rest)
               ELSE Nothing /\ later' = rest

\* onVisibleChanged, 200 ms after.
Settle ==
  /\ settle > 0 /\ settle' = settle - 1
  /\ IF visible THEN UNCHANGED <<current, later, due>>
     ELSE current' = NoControl /\ later' = WithItem(NoControl, later)
          /\ due' = IF due = current THEN NoControl ELSE due
  /\ UNCHANGED <<visible, geometry, focus, active, transition, openPending, grabPending, unfocused>>

-----------------------------------------------------------------------------
(* The focus.                                                                *)

FocusIn ==
  /\ Roomy /\ visible /\ focus = "out" /\ focus' = "in" /\ transition' = FALSE
  /\ UNCHANGED <<visible, current, geometry, settle, active, openPending, grabPending, later,
                 due, unfocused>>

\* Also while it is grabbed, of which the window hears nothing.
FocusOut ==
  /\ Roomy /\ focus \in {"in", "grabbed"} /\ focus' = "out"
  /\ UNCHANGED <<visible, current, geometry, settle, active, transition, openPending,
                 grabPending, later, due, unfocused>>

\* nativeEvent, onX11FocusOutByGrab
FocusOutByGrab ==
  /\ Roomy /\ focus = "in" /\ focus' = "grabbed" /\ transition' = TRUE
  /\ grabPending' = grabPending \cup ({current} \ {NoControl})
  /\ UNCHANGED <<visible, current, geometry, settle, active, openPending, later, due, unfocused>>

\* nativeEvent, onX11FocusInByUngrab
FocusInByUngrab ==
  /\ Roomy /\ focus = "grabbed" /\ focus' = "in" /\ transition' = FALSE
  /\ grabPending' = grabPending \ {current}
  /\ later' = IF current \in grabPending THEN Append(later, [do |-> "ungrab", for |-> current])
              ELSE later
  /\ UNCHANGED <<visible, current, geometry, settle, active, openPending, due, unfocused>>

\* onActiveChanged of each control.
ActiveChanged ==
  /\ Roomy /\ active # (focus = "in") /\ active' = ~active
  /\ grabPending' = IF active' THEN {} ELSE grabPending \cap {current}
  /\ later' = IF active' \/ current = NoControl \/ current \in grabPending \/ transition THEN later
              ELSE Append(later, [do |-> "inactive", for |-> current])
  /\ unfocused' = (visible /\ ~active')
  /\ UNCHANGED <<visible, current, geometry, settle, focus, transition, openPending, due>>

\* grabInactiveTimer, 200 ms after the grab; by then the window knows of the focus.
GrabInactive(c) ==
  /\ Roomy /\ c \in grabPending /\ active = (focus = "in")
  /\ \/ current = c /\ ~active /\ Close(c, later)
     \/ /\ current # c \/ active
        /\ grabPending' = grabPending \ {c}
        /\ KeepWindow /\ UNCHANGED <<current, geometry, active, openPending, due, later>>

-----------------------------------------------------------------------------

Init ==
  /\ visible = FALSE /\ current = NoControl /\ geometry = NoControl /\ settle = 0
  /\ focus = "out" /\ active = FALSE /\ transition = FALSE
  /\ openPending = {} /\ grabPending = {} /\ later = <<>>
  /\ due = NoControl /\ unfocused = FALSE

Next ==
  \/ \E c \in Control : Click(c) \/ SurfaceDestroyed(c) \/ GrabInactive(c)
  \/ WindowCloses \/ PanelMoves \/ CallLater \/ Settle
  \/ FocusIn \/ FocusOut \/ FocusOutByGrab \/ FocusInByUngrab \/ ActiveChanged

Spec == Init /\ [][Next]_vars

-----------------------------------------------------------------------------
(* Properties.                                                               *)

TypeOK ==
  /\ {visible, active, transition, unfocused} \subseteq BOOLEAN /\ settle \in Nat
  /\ {current, geometry, due} \subseteq Control \cup {NoControl}
  /\ focus \in {"in", "out", "grabbed"}
  /\ openPending \subseteq Control /\ grabPending \subseteq Control
  /\ \A i \in DOMAIN later :
       later[i] \in [do : {"geometry", "ask", "open", "inactive", "ungrab"},
                     for : Control \cup {NoControl}]

\* The window is shown with the popup of one control, never empty and never with the size
\* of another once it is at rest; and a popup that was opened and not closed is shown then.
ShowsOne ==
  /\ visible => current # NoControl
  /\ visible /\ later = <<>> => geometry = current
  /\ later = <<>> /\ due # NoControl => visible /\ current = due

\* At rest, a popup whose window has lost the focus is closed, also when it was lost while
\* the keyboard was grabbed.
ClosesUnfocused ==
  later = <<>> /\ active = (focus = "in") /\ grabPending = {} => ~unfocused

PopupsSound == TypeOK /\ ShowsOne /\ ClosesUnfocused
=============================================================================
