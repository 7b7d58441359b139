---------------------------- MODULE TaskWindows ----------------------------
(***************************************************************************)
(* The windows of the task manager under X11: X11WindowMonitor with its        *)
(* X11Windows, the rows of AbstractWindowMonitor, and the AppItems that        *)
(* TaskManager makes of windows and of docked apps.                           *)
(*                                                                           *)
(* The X server is asked for a window's state when it is first needed, and     *)
(* afterwards only on a PropertyNotify, which it sends for the windows whose   *)
(* events the monitor has selected.  It goes its own way between the requests  *)
(* of one handler.                                                           *)
(***************************************************************************)
EXTENDS Lists

CONSTANTS
  Window,    \* window ids
  Own,       \* those of dde-shell itself
  AppOf,     \* the app of each window
  MaxItems,  \* bound: AppItems at a time
  MaxEvents, \* bound: X events under way when something changes at the server
  NoWindow

VARIABLES
  open,     \* _NET_CLIENT_LIST of the root window
  state,    \* _NET_WM_STATE of each window
  selected, \* windows whose events the server sends
  events,   \* X events that have not been handled
  todo,     \* requests the handler of a client list still makes
  listed,   \* the client list it was given
  known,    \* m_windows of the monitor
  tracked,  \* m_trackedWindows, the rows of the model
  cache,    \* m_windowStates of the X11Windows that have been asked for it
  items,    \* the AppItems in the order they were made
  docked,   \* apps docked in the settings
  split     \* TaskManagerSettings::isWindowSplit

server  == <<open, state, selected>>
monitor == <<todo, listed, known, tracked, cache>>
vars    == <<server, events, monitor, items, docked, split>>

Apps == {AppOf[w] : w \in Window \ Own}
WindowState == [skip : BOOLEAN, active : BOOLEAN]

AppItem(a) == [app |-> a, windows |-> <<>>, current |-> NoWindow, doomed |-> FALSE]

\* getAppItem of the app's desktop file parser.
ItemsOf(I, a) == {i \in DOMAIN I : I[i].app = a}
FirstItem(I, a) == CHOOSE i \in ItemsOf(I, a) : \A j \in ItemsOf(I, a) : i <= j

-----------------------------------------------------------------------------
(* AppItem                                                                   *)

\* checkAppItemNeedDeleteAndDelete
Checked(item) == [item EXCEPT !.doomed = @ \/ (item.windows = <<>> /\ item.app \notin docked')]

\* appendWindow: the item shows the window if it is the only one, or active.
AppendWindow(item, w, active) ==
  [item EXCEPT !.windows = Append(@, w),
               !.current = IF active \/ Len(item.windows) = 0 THEN w ELSE @]

\* removeWindow, for those of gone the item has, in any order: when the one it shows goes
\* it shows the last of what is left, which is the last to the end or goes too.
RemoveWindow(item, gone) ==
  LET rest == Only(item.windows, Window \ gone)
  IN  [item EXCEPT !.windows = rest,
                   !.current = IF @ \notin gone THEN @
                               ELSE IF rest = <<>> THEN NoWindow ELSE Last(rest)]

\* onWindowDestroyed of the item of each window of gone.
WindowsDestroyed(gone) ==
  [i \in DOMAIN items |->
     IF ToSet(items[i].windows) \cap gone = {} THEN items[i]
     ELSE Checked(RemoveWindow(items[i], gone))]

\* TaskManager::handleWindowAdded
HandleWindowAdded(w, skip, active) ==
  LET mine == ItemsOf(items, AppOf[w])
      i    == FirstItem(items, AppOf[w])
  IN  IF skip THEN items
      ELSE IF mine = {} \/ (split /\ items[i].windows # <<>>)
           THEN Append(items, AppendWindow(AppItem(AppOf[w]), w, active))
           ELSE [items EXCEPT ![i] = AppendWindow(@, w, active)]

-----------------------------------------------------------------------------
(* What happens at the server.                                               *)

Room == Len(events) < MaxEvents

\* Every window that is still to be tracked may need an AppItem.
ItemRoom == Len(items) + Cardinality(open \ (ToSet(tracked) \cup Own)) < MaxItems

\* A window is mapped; it may have been before.
Map(w) ==
  /\ Room /\ ItemRoom /\ w \notin open
  /\ open' = open \cup {w}
  /\ events' = Append(events, <<"list", NoWindow>>)
  /\ UNCHANGED <<state, selected, monitor, items, docked, split>>

\* It is withdrawn, when it is not the active one.
Withdraw(w) ==
  /\ Room /\ w \in open /\ ~state[w].active
  /\ open' = open \ {w}
  /\ events' = Append(events, <<"list", NoWindow>>)
  /\ UNCHANGED <<state, selected, monitor, items, docked, split>>

\* Its state changes.  One window is active at most.
SetState(w, s) ==
  /\ Room /\ w \notin Own /\ s # state[w]
  /\ s.active => w \in open /\ \A v \in Window \ {w} : ~state[v].active
  /\ state' = [state EXCEPT ![w] = s]
  /\ events' = IF w \in selected THEN Append(events, <<"state", w>>) ELSE events
  /\ UNCHANGED <<open, selected, monitor, items, docked, split>>

-----------------------------------------------------------------------------
(* X11WindowMonitor                                                          *)

\* Defect: a window is read before its events are selected.
RequestsReadFirst(news) ==
  [n \in 1..2 * Len(news) |->
     <<IF n % 2 = 1 THEN "track" ELSE "select", news[(n + 1) \div 2]>>]

\* onWindowMapped, for each window that is new in the list: two requests.
Requests(news) ==
  [n \in 1..2 * Len(news) |->
     <<IF n % 2 = 1 THEN "select" ELSE "track", news[(n + 1) \div 2]>>]

\* handleRootWindowClientListChanged: the list is read now, whatever it was when
\* the event was sent.  An own window is in m_windows, but that is all.
HandleClientList ==
  /\ todo = <<>> /\ events # <<>> /\ Head(events)[1] = "list"
  /\ events' = Tail(events)
  /\ listed' = open
  /\ known' = known \cup open
  /\ todo' = Append(Requests(SetToSeq(open \ (known \cup Own))), <<"rest", NoWindow>>)
  /\ UNCHANGED <<server, tracked, cache, items, docked, split>>

Select ==
  /\ todo # <<>> /\ Head(todo)[1] = "select"
  /\ selected' = selected \cup {Head(todo)[2]}
  /\ todo' = Tail(todo)
  /\ UNCHANGED <<open, state, events, listed, known, tracked, cache, items, docked, split>>

\* updateWindowState
UpdateWindowState(w) == [v \in DOMAIN cache \cup {w} |-> IF v = w THEN state[w] ELSE cache[v]]

\* trackWindow, which makes the models read the window's state, and windowAdded.
Track ==
  /\ todo # <<>> /\ Head(todo)[1] = "track"
  /\ LET w == Head(todo)[2]
     IN  /\ tracked' = Append(tracked, w)
         /\ cache' = UpdateWindowState(w)
         /\ items' = HandleWindowAdded(w, state[w].skip, state[w].active)
  /\ todo' = Tail(todo)
  /\ UNCHANGED <<server, events, listed, known, docked, split>>

\* destroyWindow
Rows(gone) == Only(tracked, Window \ gone)

\* The second loop of handleRootWindowClientListChanged.
Gone == known \ listed

\* onWindowDestroyed, for each window that is not in the list.
Rest ==
  /\ todo # <<>> /\ Head(todo)[1] = "rest"
  /\ LET gone == Gone
     IN  /\ known' = known \ gone
         /\ tracked' = Rows(gone)
         /\ cache' = [w \in DOMAIN cache \ gone |-> cache[w]]
         /\ docked' = docked
         /\ items' = WindowsDestroyed(gone)
  /\ todo' = <<>>
  /\ UNCHANGED <<server, events, listed, split>>

\* AppItem hears that the window's state changed.
StateChanged(item, w) ==
  IF Contains(item.windows, w) /\ state[w].active THEN [item EXCEPT !.current = w] ELSE item

HandleState ==
  /\ todo = <<>> /\ events # <<>> /\ Head(events)[1] = "state"
  /\ LET w == Head(events)[2]
     IN  IF w \notin known THEN UNCHANGED <<cache, items>>
         ELSE /\ cache' = UpdateWindowState(w)
              /\ items' = [i \in DOMAIN items |-> StateChanged(items[i], w)]
  /\ events' = Tail(events)
  /\ UNCHANGED <<server, todo, listed, known, tracked, docked, split>>

-----------------------------------------------------------------------------
(* Docking, and the end of an AppItem.                                       *)

\* dockedChanged of the parser: its items are checked.
AllChecked(a) == [i \in DOMAIN items |-> IF items[i].app = a THEN Checked(items[i]) ELSE items[i]]

\* TaskManager::RequestDock
RequestDock(a) ==
  /\ todo = <<>> /\ docked' = docked \cup {a}
  /\ IF ItemsOf(items, a) # {} THEN items' = AllChecked(a)
     ELSE ItemRoom /\ items' = Append(items, AppItem(a))
  /\ UNCHANGED <<server, events, monitor, split>>

\* TaskManager::RequestUndock
RequestUndock(a) ==
  /\ todo = <<>> /\ docked' = docked \ {a}
  /\ items' = AllChecked(a)
  /\ UNCHANGED <<server, events, monitor, split>>

\* The dock's menu changes the settings, and no parser tells of it.
ToggleDocked(a) ==
  /\ todo = <<>>
  /\ docked' = IF a \in docked THEN docked \ {a} ELSE docked \cup {a}
  /\ UNCHANGED <<server, events, monitor, items, split>>

\* The deletion of an AppItem, as the event loop comes to it.
Deleted(i) ==
  /\ todo = <<>> /\ items[i].doomed
  /\ items' = RemoveAt(items, i)
  /\ UNCHANGED <<server, events, monitor, docked, split>>

Init ==
  /\ open = {} /\ state = [w \in Window |-> [skip |-> FALSE, active |-> FALSE]]
  /\ selected = {} /\ events = << <<"list", NoWindow>> >>
  /\ todo = <<>> /\ listed = {} /\ known = {} /\ tracked = <<>> /\ cache = <<>>
  /\ items = <<>> /\ docked = {} /\ split \in BOOLEAN

Next ==
  \/ \E w \in Window : Map(w) \/ Withdraw(w) \/ \E s \in WindowState : SetState(w, s)
  \/ HandleClientList \/ Select \/ Track \/ Rest \/ HandleState
  \/ \E a \in Apps : RequestDock(a) \/ RequestUndock(a) \/ ToggleDocked(a)
  \/ \E i \in DOMAIN items : Deleted(i)

Spec == Init /\ [][Next]_vars

-----------------------------------------------------------------------------
(* Properties.                                                               *)

ItemType == [app : Apps, windows : Seq(Window), current : Window \cup {NoWindow}, doomed : BOOLEAN]

\* Every variable keeps its type; a window is in one row and one AppItem at most, and
\* these know of no window that the monitor has dropped.
TypeOK ==
  /\ open \subseteq Window /\ state \in [Window -> WindowState] /\ selected \subseteq Window \ Own
  /\ docked \subseteq Apps /\ known \subseteq Window
  /\ ToSet(tracked) \subseteq known /\ IsInjective(tracked)
  /\ DOMAIN cache \subseteq known
  /\ \A i \in DOMAIN items :
       /\ items[i] \in ItemType /\ IsInjective(items[i].windows)
       /\ ToSet(items[i].windows) \subseteq ToSet(tracked)
       /\ \A j \in DOMAIN items \ {i} : ToSet(items[i].windows) \cap ToSet(items[j].windows) = {}

Pending(kind, w) == Contains(events, <<kind, w>>)

\* When no client list is under way the rows are the windows of the last one but
\* dde-shell's own.
WindowsFollow ==
  todo = <<>> /\ ~Pending("list", NoWindow) => known = open /\ ToSet(tracked) = open \ Own

\* The state of a window is that of the server, or news of it is under way.
StateFollows ==
  \A w \in ToSet(tracked) : w \in DOMAIN cache /\ (cache[w] = state[w] \/ Pending("state", w))

\* The assertion in updateCurrentActiveWindow: an AppItem shows a window of its own;
\* and it has one to show as long as it has windows.
CurrentIsOwn ==
  \A i \in DOMAIN items :
    IF items[i].windows = <<>> THEN items[i].current = NoWindow
    ELSE Contains(items[i].windows, items[i].current)

\* The active window is the one its AppItem shows.
ActiveShown ==
  events = <<>> /\ todo = <<>> =>
    \A i \in DOMAIN items : \A w \in ToSet(items[i].windows) :
      state[w].active => items[i].current = w

\* Windows of an app share an AppItem, unless they are split: then none do.
ItemShape ==
  \A i \in DOMAIN items :
    IF split THEN Len(items[i].windows) <= 1 ELSE ItemsOf(items, items[i].app) = {i}

\* What the monitor and the AppItems know of the windows is what the server has, or
\* will be when the events under way are handled.
WindowsSound ==
  TypeOK /\ WindowsFollow /\ StateFollows /\ CurrentIsOwn /\ ActiveShown /\ ItemShape
=============================================================================
