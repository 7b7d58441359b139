----------------------------- MODULE X11Overlap -----------------------------
(***************************************************************************)
(* How the dock finds out that windows lie over it, on X11: x11dockhelper.cpp. *)
(*                                                                           *)
(* In SmartHide the helper follows the client list, the WM_STATE and the        *)
(* geometry of the windows in it.  An event only says that something changed: the  *)
(* handler asks the X server, which goes on meanwhile.  A rectangle is the set of   *)
(* the dock's possible areas that it meets.  Windows that shouldSkip holds of       *)
(* are left out.  The window manager sets _NET_WM_STATE before WM_STATE.         *)
(***************************************************************************)
EXTENDS Naturals, Sequences

CONSTANTS
  Window,
  Area,      \* where the dock can be
  Place,     \* the sets of areas that a window can meet
  NoWhere,   \* the dock's area before it has one
  NoList,    \* no client list is being handled
  MaxEvents  \* bound: events under way when something changes at the server

VARIABLES
  \* the X server
  clients,   \* _NET_CLIENT_LIST; a window may be withdrawn and come back
  gone,      \* the windows that were destroyed
  place,     \* window -> its rectangle
  hidden,    \* the windows with _NET_WM_STATE_HIDDEN
  selected,  \* the windows whose events the dock asked for
  events,    \* under way to the dock
  \* the dock
  area,      \* where it is
  areaTimer, \* m_updateDockAreaTimer runs
  smart,     \* the hide mode is SmartHide
  desktop,   \* m_showingDesktop
  windows,   \* m_windows: window -> [rect, isMinimized, overlap]
  dockArea,  \* m_dockArea
  list,      \* the client list that is being handled
  adding,    \* its windows that are still to be added
  requests,  \* what is left of the adding of one
  heard      \* what the dock last heard of isWindowOverlap

server == <<clients, gone, place, hidden, selected, events>>
panel  == <<area, areaTimer, smart, desktop>>
helper == <<windows, dockArea, list, adding, requests, heard>>
vars   == <<server, panel, helper>>

Nothing == [w \in {} |-> 0]
NoData  == [rect |-> {}, isMinimized |-> FALSE, overlap |-> FALSE]

IsWindowOverlap(data, showing) == ~showing /\ \E w \in DOMAIN data : data[w].overlap

\* What updateWindowHideState makes of the data d, with the dock at a.
Updated(d, a) == [d EXCEPT !.overlap = ~d.isMinimized /\ a \in d.rect]

\* isWindowOverlapChanged is emitted when the overlap of a window changes.
Becomes(data) ==
  /\ windows' = data
  /\ heard' = IF \E w \in DOMAIN windows : data[w].overlap # windows[w].overlap
              THEN IsWindowOverlap(data, desktop) ELSE heard

-----------------------------------------------------------------------------
(* The X server.                                                             *)

Event(k, w) == IF w \in selected THEN << <<k, w>> >> ELSE <<>>
ListEvent(w) == << <<"list", w>> >>

Maps(w, p) ==
  /\ w \notin clients \cup gone /\ clients' = clients \cup {w}
  /\ place' = [place EXCEPT ![w] = p]
  /\ events' = events \o (IF p # place[w] THEN Event("geometry", w) ELSE <<>>) \o ListEvent(w)
  /\ UNCHANGED <<gone, hidden>>

\* Withdrawn or destroyed.
Unmaps(w, dies) ==
  /\ w \in clients /\ clients' = clients \ {w} /\ hidden' = hidden \ {w}
  /\ gone' = IF dies THEN gone \cup {w} ELSE gone
  /\ events' = events \o ListEvent(w)
                 \o (IF w \in hidden /\ ~dies THEN Event("state", w) ELSE <<>>)
  /\ UNCHANGED place

Configures(w, p) ==
  /\ w \in clients /\ p # place[w] /\ place' = [place EXCEPT ![w] = p]
  /\ events' = events \o Event("geometry", w) /\ UNCHANGED <<clients, gone, hidden>>

Minimises(w) ==
  /\ w \in clients
  /\ hidden' = IF w \in hidden THEN hidden \ {w} ELSE hidden \cup {w}
  /\ events' = events \o Event("state", w) /\ UNCHANGED <<clients, gone, place>>

Server ==
  /\ Len(events) < MaxEvents /\ UNCHANGED <<selected, panel, helper>>
  /\ \E w \in Window : \/ \E p \in Place : Maps(w, p) \/ Configures(w, p)
                       \/ \E dies \in BOOLEAN : Unmaps(w, dies)
                       \/ Minimises(w)

-----------------------------------------------------------------------------
(* The client list.                                                          *)

\* Defect: the events are asked for last.
AddedUnheard(w) == << <<"state", w>>, <<"geometry", w>>, <<"select", w>> >>

\* onWindowAdded
Added(w) == << <<"select", w>>, <<"state", w>>, <<"geometry", w>> >>

\* onWindowClientListChanged with the data data, for a list read now.
ListRead(data) == list' = clients /\ adding' = clients \ DOMAIN data /\ UNCHANGED requests

DataOf(w) == IF w \in DOMAIN windows THEN windows[w] ELSE NoData
With(w, d) == [v \in DOMAIN windows \cup {w} |-> IF v = w THEN d ELSE windows[v]]

\* What is gone is read as a window without state or rectangle.
StateOf(w) == [DataOf(w) EXCEPT !.isMinimized = w \in hidden]
RectOf(w)  == [DataOf(w) EXCEPT !.rect = IF w \in gone THEN {} ELSE place[w]]

\* The windows that are not in the list are dropped, and the dock hears of it.
Erase(these) ==
  LET left == [w \in DOMAIN windows \cap these |-> windows[w]]
  IN  /\ windows' = left
      /\ heard' = IF left # windows THEN IsWindowOverlap(left, desktop) ELSE heard

\* What a state or the geometry, read now, makes of the windows.
Refreshed(kind, w) ==
  With(w, Updated(IF kind = "state" THEN StateOf(w) ELSE RectOf(w), dockArea))

\* A request.
Asked(kind, w) ==
  \/ /\ kind = "select" /\ windows' = With(w, DataOf(w))
     /\ selected' = selected \cup {w} /\ UNCHANGED heard
  \/ kind # "select" /\ Becomes(Refreshed(kind, w)) /\ UNCHANGED selected

\* The next step of the handling: a request, for the window that is being added or for
\* the next, or the end.  Nothing else of the dock runs until then.
Request ==
  /\ list # NoList
  /\ \/ /\ \E next \in IF requests # <<>> THEN {requests} ELSE {Added(w) : w \in adding} :
             /\ requests' = Tail(next) /\ adding' = adding \ {Head(next)[2]}
             /\ Asked(Head(next)[1], Head(next)[2])
        /\ UNCHANGED list
     \/ /\ requests = <<>> /\ adding = {} /\ list' = NoList
        /\ Erase(list) /\ UNCHANGED <<requests, adding, selected>>
  /\ UNCHANGED <<clients, gone, place, hidden, events, panel, dockArea>>

-----------------------------------------------------------------------------
(* The dock.                                                                 *)

Turn == list = NoList /\ UNCHANGED <<clients, gone, place, hidden, selected>>

\* nativeEventFilter.  Outside SmartHide nothing listens to it.
Dispatch ==
  LET kind == Head(events)[1]
      w    == Head(events)[2]
  IN  /\ Turn /\ events # <<>> /\ events' = Tail(events)
      /\ \/ /\ kind = "list" /\ smart
            /\ ListRead(windows) /\ UNCHANGED <<windows, heard>>
         \/ /\ kind # "list" /\ w \in DOMAIN windows
            /\ Becomes(Refreshed(kind, w)) /\ UNCHANGED <<list, adding, requests>>
         \/ /\ IF kind = "list" THEN ~smart ELSE w \notin DOMAIN windows
            /\ UNCHANGED <<windows, heard, list, adding, requests>>
      /\ UNCHANGED <<panel, dockArea>>

\* onHideModeChanged, also for the mode there is.  The same signal has started both
\* timers of DockHelper, which ask isWindowOverlap again.
HideModeChanged(s) ==
  /\ Turn /\ smart' = s /\ windows' = Nothing /\ heard' = FALSE
  /\ IF s THEN ListRead(Nothing) ELSE UNCHANGED <<list, adding, requests>>
  /\ UNCHANGED <<events, area, areaTimer, desktop, dockArea>>

\* A signal of the dock's geometry, position, size or screen.
DockMoves(a) ==
  /\ Turn /\ a # area /\ area' = a /\ areaTimer' = TRUE
  /\ UNCHANGED <<events, smart, desktop, helper>>

\* updateDockArea
UpdateDockArea ==
  /\ Turn /\ areaTimer /\ areaTimer' = FALSE
  /\ dockArea' = area
  /\ Becomes([w \in DOMAIN windows |-> Updated(windows[w], area)])
  /\ UNCHANGED <<events, area, smart, desktop, list, adding, requests>>

\* onShowingDesktopChanged
ShowingDesktopChanged ==
  /\ Turn /\ desktop' = ~desktop /\ heard' = IsWindowOverlap(windows, desktop')
  /\ UNCHANGED <<events, area, areaTimer, smart, windows, dockArea, list, adding, requests>>

Init ==
  /\ clients = {} /\ gone = {} /\ place = [w \in Window |-> {}] /\ hidden = {}
  /\ selected = {} /\ events = <<>>
  /\ area = NoWhere /\ areaTimer = FALSE /\ smart \in BOOLEAN /\ desktop \in BOOLEAN
  /\ windows = Nothing /\ dockArea = NoWhere /\ heard = FALSE
  /\ list = NoList /\ adding = {} /\ requests = <<>>

Next ==
  \/ Server \/ Request \/ Dispatch \/ UpdateDockArea \/ ShowingDesktopChanged
  \/ \E s \in BOOLEAN : HideModeChanged(s)
  \/ \E a \in Area : DockMoves(a)

Spec == Init /\ [][Next]_vars

-----------------------------------------------------------------------------
(* Properties.                                                               *)

Data == [rect : Place \cup {{}}, isMinimized : BOOLEAN, overlap : BOOLEAN]

\* Every variable keeps its type; outside SmartHide no window is remembered.
TypeOK ==
  /\ DOMAIN windows \subseteq Window /\ \A w \in DOMAIN windows : windows[w] \in Data
  /\ ~smart => windows = Nothing /\ list = NoList
  /\ {area, dockArea} \subseteq Area \cup {NoWhere}
  /\ {areaTimer, smart, desktop, heard} \subseteq BOOLEAN

\* When all that is under way has been handled, the windows the helper knows are the
\* clients, and those that lie over the dock are the ones it takes for such: however
\* the server went on while it was asked.
OverlapRight ==
  smart /\ events = <<>> /\ list = NoList /\ ~areaTimer =>
    /\ DOMAIN windows = clients
    /\ \A w \in clients : windows[w].overlap = (w \notin hidden /\ area \in place[w])

\* What the dock last heard is what isWindowOverlap says.
HeardRight == heard = IsWindowOverlap(windows, desktop)

\* The dock knows whether windows lie over it.
OverlapFollows == TypeOK /\ OverlapRight /\ HeardRight
=============================================================================
