--------------------------- MODULE TreelandWindows ---------------------------
(***************************************************************************)
(* The windows and the window previews of the task manager under Treeland:    *)
(* treelandwindowmonitor.cpp and treelandwindow.cpp.                         *)
(*                                                                           *)
(* The compositor announces a handle for each window, with the window's        *)
(* identifier before done; a window that opens anew may have an identifier that   *)
(* was used before.  A preview is shown and closed on request, and the compositor  *)
(* says when the pointer enters and leaves it; what it says takes its time.       *)
(***************************************************************************)
EXTENDS Naturals, Sequences

CONSTANTS
  Handle,    \* handles of the compositor, each used once
  Window,    \* identifiers
  NoHandle,
  NoWindow,
  MaxEvents  \* bound: enter and leave under way

VARIABLES
  active,      \* ForeignToplevelManager::isActive
  unused,      \* handles that were not announced yet
  identifier,  \* handle -> m_identifier, or NoWindow
  ready,       \* handles that had their done
  states,      \* handles with Fullscreen in m_states
  windows,     \* m_windows: window -> its handle, or NoHandle
  tracked,     \* m_trackedWindows
  fullscreen,  \* m_fullscreenState
  unheard,     \* history: windows that were fullscreen when they came
  preview,     \* m_dockPreview: "none", "closed" or "shown", as last asked for
  mouseArea,   \* m_isDockMouseAreaEnter
  entered,     \* m_isPreviewEntered
  hideTimer,   \* m_hideTimer runs
  timeouts,    \* its queued timeout
  pointer,     \* the window whose item it is over, "preview" or "away"
  events,      \* enter and leave under way
  left         \* history: an item without windows was left, and took nothing back

monitor == <<active, unused, identifier, ready, states, windows, tracked,
             fullscreen, unheard>>
context == <<preview, mouseArea, entered, hideTimer, timeouts, events>>
vars    == <<monitor, context, pointer, left>>

Live(h)      == identifier[h] # NoWindow
IsFullscreen(w) == windows[w] # NoHandle /\ windows[w] \in states

\* updateFullscreenState
UpdateFullscreenState ==
  /\ fullscreen' = \E w \in Window : IsFullscreen(w)'
  /\ unheard' = {}

-----------------------------------------------------------------------------
(* Windows.                                                                  *)

\* treeland_foreign_toplevel_manager_v1_toplevel, and the identifier.
Toplevel(h, w) ==
  /\ active /\ h \in unused /\ unused' = unused \ {h}
  /\ \A g \in Handle : identifier[g] # w
  /\ identifier' = [identifier EXCEPT ![h] = w]
  /\ UNCHANGED <<active, ready, states, windows, tracked, fullscreen, unheard>>

\* treeland_foreign_toplevel_handle_v1_state
State(h, full) ==
  /\ Live(h) /\ states' = IF full THEN states \cup {h} ELSE states \ {h}
  /\ UNCHANGED <<active, unused, identifier, ready, windows, tracked>>
  /\ IF windows[identifier[h]] = h THEN UpdateFullscreenState
                                    ELSE UNCHANGED <<fullscreen, unheard>>

\* treeland_foreign_toplevel_handle_v1_done and handleForeignToplevelHandleAdded: the
\* fullscreen state is left to the next change of a state.
Done(h) ==
  LET w == identifier[h]
  IN  /\ Live(h) /\ h \notin ready /\ ready' = ready \cup {h}
      /\ windows' = [windows EXCEPT ![w] = h]
      /\ tracked' = Append(tracked, w)
      /\ unheard' = IF h \in states THEN unheard \cup {w} ELSE unheard
      /\ UNCHANGED <<active, unused, identifier, states, fullscreen>>

\* destroyWindow: the row of w is removed.
Untracked(w) ==
  IF \E i \in DOMAIN tracked : tracked[i] = w
  THEN LET pos == CHOOSE i \in DOMAIN tracked : tracked[i] = w /\ \A j \in 1..(i - 1) : tracked[j] # w
       IN  [i \in 1..Len(tracked) - 1 |-> tracked[IF i < pos THEN i ELSE i + 1]]
  ELSE tracked

\* Defect: the fullscreen state is not looked at.
HandleRemovedQuietly(w) ==
  /\ tracked' = Untracked(w) /\ windows' = [windows EXCEPT ![w] = NoHandle]
  /\ UNCHANGED <<fullscreen, unheard>>

\* handleForeignToplevelHandleRemoved
HandleRemoved(w) ==
  /\ tracked' = Untracked(w) /\ windows' = [windows EXCEPT ![w] = NoHandle]
  /\ UpdateFullscreenState

\* treeland_foreign_toplevel_handle_v1_closed: the handle of a window goes with it, one
\* that had no done is heard by nobody.
Closed(h) ==
  /\ Live(h) /\ identifier' = [identifier EXCEPT ![h] = NoWindow]
  /\ ready' = ready \ {h} /\ states' = states \ {h} /\ UNCHANGED <<active, unused>>
  /\ IF h \in ready THEN HandleRemoved(identifier[h])
                    ELSE UNCHANGED <<windows, tracked, fullscreen, unheard>>

-----------------------------------------------------------------------------
(* The preview.                                                              *)

\* hideWindowsPreview, if there is a context.
HideItemPreview ==
  IF preview = "none" THEN UNCHANGED <<mouseArea, hideTimer>>
                      ELSE mouseArea' = FALSE /\ hideTimer' = TRUE

\* AppItem's onExited
Exited ==
  IF pointer \in Window /\ windows[pointer] # NoHandle
  THEN HideItemPreview /\ UNCHANGED left
  ELSE UNCHANGED <<mouseArea, hideTimer>> /\ left' = (left \/ pointer \in Window)

\* The pointer moves.  The compositor shows the preview until it is told to close it.
PointerTo(p) ==
  /\ p # pointer /\ pointer' = p /\ Len(events) < MaxEvents
  /\ p = "preview" => preview = "shown"
  /\ p \in Window => windows[p] # NoHandle
  /\ Exited
  /\ events' = IF p = "preview" THEN Append(events, "enter")
               ELSE IF pointer = "preview" THEN Append(events, "leave") ELSE events
  /\ UNCHANGED <<monitor, preview, entered, timeouts>>

\* requestPreview of the item under the pointer, when it has been there for a while.  An
\* item whose window is gone takes the request back.
RequestPreview ==
  /\ pointer \in Window
  /\ IF windows[pointer] = NoHandle THEN HideItemPreview /\ UNCHANGED <<preview, left>>
     ELSE /\ active /\ preview' = "shown" /\ mouseArea' = TRUE /\ left' = FALSE
          /\ UNCHANGED hideTimer
  /\ UNCHANGED <<monitor, entered, timeouts, events, pointer>>

\* The item is pressed, and takes the request back.
Pressed ==
  /\ pointer \in Window /\ windows[pointer] # NoHandle /\ HideItemPreview
  /\ UNCHANGED <<monitor, preview, entered, timeouts, events, pointer, left>>

\* treeland_dock_preview_context_v1_enter and _leave
PreviewEvent ==
  /\ events # <<>> /\ events' = Tail(events)
  /\ IF preview = "none" THEN UNCHANGED <<entered, hideTimer>>
     ELSE /\ entered' = (Head(events) = "enter")
          /\ hideTimer' = (hideTimer \/ Head(events) = "leave")
  /\ UNCHANGED <<monitor, preview, mouseArea, timeouts, pointer, left>>

\* The timer fires; its slot is queued.
TimerFires ==
  /\ hideTimer /\ hideTimer' = FALSE /\ timeouts' = TRUE
  /\ UNCHANGED <<monitor, preview, mouseArea, entered, events, pointer, left>>

\* The slot: the preview is closed unless the pointer is on an item or in it.  A pointer
\* that has entered it meanwhile is told that it left.
Timeout ==
  /\ timeouts /\ timeouts' = FALSE
  /\ IF mouseArea \/ entered THEN UNCHANGED <<preview, pointer, events>>
     ELSE /\ preview' = "closed"
          /\ pointer' = IF pointer = "preview" THEN "away" ELSE pointer
          /\ events' = IF pointer = "preview" THEN Append(events, "leave") ELSE events
  /\ UNCHANGED <<monitor, mouseArea, entered, hideTimer, left>>

\* The context goes with its timer and its flags.
DropContext ==
  /\ preview' = "none" /\ mouseArea' = FALSE /\ entered' = FALSE /\ hideTimer' = FALSE
  /\ timeouts' = FALSE /\ events' = <<>> /\ left' = FALSE
  /\ pointer' = IF pointer = "preview" THEN "away" ELSE pointer

\* The dock's window is shown or hidden.
VisibleChanged == preview # "none" /\ DropContext /\ UNCHANGED monitor

\* activeChanged: clear() when the compositor's manager goes.
ActiveChanged ==
  /\ active' = ~active /\ UNCHANGED unused
  /\ IF active
     THEN /\ DropContext /\ tracked' = <<>> /\ windows' = [w \in Window |-> NoHandle]
          /\ identifier' = [h \in Handle |-> NoWindow] /\ ready' = {} /\ states' = {}
          /\ UpdateFullscreenState
     ELSE /\ UNCHANGED <<identifier, ready, states, windows, tracked, fullscreen, unheard>>
          /\ UNCHANGED <<context, pointer, left>>

Init ==
  /\ active = TRUE /\ unused = Handle /\ identifier = [h \in Handle |-> NoWindow]
  /\ ready = {} /\ states = {} /\ windows = [w \in Window |-> NoHandle]
  /\ tracked = <<>> /\ fullscreen = FALSE /\ unheard = {}
  /\ preview = "none" /\ mouseArea = FALSE /\ entered = FALSE
  /\ hideTimer = FALSE /\ timeouts = FALSE /\ pointer = "away" /\ events = <<>>
  /\ left = FALSE

WindowsNext ==
  \E h \in Handle : \/ \E w \in Window : Toplevel(h, w)
                    \/ \E full \in BOOLEAN : State(h, full)
                    \/ Done(h) \/ Closed(h)

Next ==
  \/ WindowsNext /\ UNCHANGED <<context, pointer, left>>
  \/ \E p \in Window \cup {"preview", "away"} : PointerTo(p)
  \/ RequestPreview \/ Pressed \/ PreviewEvent \/ TimerFires \/ Timeout
  \/ VisibleChanged \/ ActiveChanged

Spec == Init /\ [][Next]_vars

-----------------------------------------------------------------------------
(* Properties.                                                               *)

\* The rows are the windows whose handle is ready, each once, and each window has the
\* handle that stands for it.
RowsRight ==
  /\ \A i, j \in DOMAIN tracked : tracked[i] = tracked[j] => i = j
  /\ {tracked[i] : i \in DOMAIN tracked} = {identifier[h] : h \in ready}
  /\ \A w \in Window, h \in Handle : windows[w] = h <=> (h \in ready /\ identifier[h] = w)

\* The dock is told that a window is fullscreen exactly when one is, but for those that
\* came so.
FullscreenRight ==
  /\ fullscreen => \E w \in Window : IsFullscreen(w)
  /\ \A w \in Window : IsFullscreen(w) /\ ~fullscreen => w \in unheard

\* A preview that is shown is held by the pointer, or its closing is under way: an item
\* that lost its windows under the pointer keeps it until another item is left.
PreviewHides ==
  preview = "shown" =>
    \/ hideTimer \/ timeouts \/ events # <<>> \/ left
    \/ mouseArea /\ pointer \in Window
    \/ entered /\ pointer = "preview"

\* What the dock knows of the compositor's windows, and what it left there.
TreelandSound == RowsRight /\ FullscreenRight /\ PreviewHides
=============================================================================
