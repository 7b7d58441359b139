--------------------------- MODULE TaskbarModels ---------------------------
(***************************************************************************)
(* The models behind the dock's task manager (panels/dock/taskmanager):      *)
(*                                                                           *)
(*   src.wins  the windows        (AbstractWindowMonitor)                     *)
(*   src.apps  the installed apps (AMAppItemModel of applets/dde-apps)        *)
(*   src.map   the app of a window (RoleCombineModel, DockCombineModel)       *)
(*   bar.data  what the dock shows, docked apps and windows in one list       *)
(*             (DockGlobalElementModel)                                      *)
(*   bar.groups  data by app, when windows are not split (RoleGroupModel)     *)
(*                                                                           *)
(* Each model refers to the rows of the one below and follows its row         *)
(* signals.  map and groups are told at once; data is told through the event   *)
(* queue, and reads rows of the models below as they are by then.             *)
(*                                                                           *)
(* Rows count from 1 and 0 stands for no row.                                 *)
(***************************************************************************)
EXTENDS Integers, Sequences, FiniteSets, SequencesExt

CONSTANTS
  App,       \* desktop ids
  Window,    \* windows
  AppOf,     \* AppOf[w]: the desktop id w's identity matches
  Elements,  \* orders of docked elements the configuration may have at first
  Ahead,     \* bound: signals not yet delivered when a source changes again
  Early,     \* bound: windows that open before the apps are known
  Returning  \* bound: apps that are installed again after they were removed

ASSUME TaskbarAssumption ==
  /\ App \cap Window = {} /\ "" \notin App \cup Window
  /\ AppOf \in [Window -> App \cup Window]
  /\ Elements \subseteq Seq(App)
  /\ Ahead \in Nat /\ Early \subseteq Window /\ Returning \subseteq App

VARIABLES
  src,      \* the models below: apps, ready, gone (apps that were removed), wins, map
  queue,    \* row signals on their way to DockGlobalElementModel
  bar,      \* m_data and m_dockedElements of DockGlobalElementModel, and the rows
            \* of the DockGroupModel on top of it
  elements, \* TaskManagerSettings::m_dockedElements
  enabled,  \* m_dockedApplicationsEnabled
  split,    \* m_windowSplit
  behind    \* history: a row was read of a model that had lost one unheard of

vars == <<src, queue, bar, elements, enabled, split, behind>>
settings == <<elements, enabled, split>>

Signal(kind, row) == [kind |-> kind, row |-> row]
Entry(id, from, row) == [id |-> id, from |-> from, row |-> row]

RowOf(seq, x) == IF Contains(seq, x) THEN CHOOSE i \in DOMAIN seq : seq[i] = x ELSE 0
FirstRow(seq, P(_)) ==
  IF \E i \in DOMAIN seq : P(seq[i])
  THEN CHOOSE i \in DOMAIN seq : P(seq[i]) /\ \A j \in 1..(i - 1) : ~P(seq[j])
  ELSE 0

-----------------------------------------------------------------------------
(* RoleCombineModel: a window's row and the row of its app.                   *)

\* The match function of TaskManager::init.
Matching(w, apps) == RowOf(apps, AppOf[w])

\* DockCombineModel::data of DesktopIdRole: a window without an app is known by
\* its identity, which is its own.
Desktop(s, i) ==
  IF i \notin DOMAIN s.wins THEN ""
  ELSE IF s.map[i] = 0 THEN s.wins[i] ELSE s.apps[s.map[i]]

\* The apps' rowsRemoved: the windows of the app are looked up again, the rows
\* after it move up.
MapAfterRemoved(s, r, apps) ==
  [i \in DOMAIN s.map |-> IF s.map[i] = r THEN Matching(s.wins[i], apps)
                          ELSE IF s.map[i] > r THEN s.map[i] - 1 ELSE s.map[i]]

\* And rowsInserted: only the windows without an app are looked up.
MapAfterInserted(s, apps) ==
  [i \in DOMAIN s.map |-> IF s.map[i] # 0 THEN s.map[i] ELSE Matching(s.wins[i], apps)]

-----------------------------------------------------------------------------
(* RoleGroupModel: rows of data under the desktop id they had when they were   *)
(* grouped.                                                                   *)

\* DockGlobalElementModel::data of DesktopIdRole: a row past the end of the apps
\* is looked up by id.
DesktopOf(s, e) ==
  IF e.from = "window" THEN Desktop(s, e.row)
  ELSE IF e.row \in DOMAIN s.apps THEN s.apps[e.row]
  ELSE IF Contains(s.apps, e.id) THEN e.id ELSE ""

Group(key, rows) == [key |-> key, rows |-> rows]
AdjustMap(groups, base, by) ==
  [k \in DOMAIN groups |-> [groups[k] EXCEPT !.rows =
     [i \in DOMAIN @ |-> IF @[i] >= base THEN @[i] + by ELSE @[i]]]]

Grouped(groups, key, row) ==
  LET k == FirstRow(groups, LAMBDA g : g.key = key)
  IN  IF key = "" THEN groups
      ELSE IF k = 0 THEN Append(groups, Group(key, <<row>>))
      ELSE [groups EXCEPT ![k].rows = Append(@, row)]

\* rebuildTreeSource
Rebuilt(s, data) ==
  FoldLeft(LAMBDA groups, i : Grouped(groups, DesktopOf(s, data[i]), i), <<>>,
           [i \in DOMAIN data |-> i])

\* Defect: the rows behind the new one are not moved.
RowInsertedOnly(s, groups, data, row) == Grouped(groups, DesktopOf(s, data[row]), row)

\* rowsInserted and rowsRemoved of one row.
RowInserted(s, groups, data, row) ==
  Grouped(AdjustMap(groups, row, 1), DesktopOf(s, data[row]), row)

RowRemoved(groups, row) ==
  LET without == [k \in DOMAIN groups |-> [groups[k] EXCEPT !.rows = RemoveFirst(@, row)]]
  IN  AdjustMap(SelectSeq(without, LAMBDA g : g.rows # <<>>), row, -1)

-----------------------------------------------------------------------------
(* DockGlobalElementModel.  b is its state with the groups on top, s the state *)
(* of the models below.                                                      *)

Inserted(s, b, row, e) ==
  LET data == InsertAt(b.data, row, e)
  IN  [b EXCEPT !.data = data,
                !.groups = IF split THEN @ ELSE RowInserted(s, @, data, row)]
Appended(s, b, e) == Inserted(s, b, Len(b.data) + 1, e)
Removed(b, row) ==
  IF row = 0 THEN b
  ELSE [b EXCEPT !.data = RemoveAt(@, row),
                 !.groups = IF split THEN @ ELSE RowRemoved(@, row)]
WithRows(b, from, base, by) ==
  [b EXCEPT !.data = [i \in DOMAIN @ |->
     IF @[i].from = from /\ @[i].row >= base THEN [@[i] EXCEPT !.row = @ + by] ELSE @[i]]]

\* loadDockedElements: docked apps that are installed get an entry unless they
\* are running; the entries of those no longer docked go, their windows stay.
NowDocked(s, list, on) ==
  IF on THEN SelectSeq(list, LAMBDA id : Contains(s.apps, id)) ELSE <<>>
DropUndocked(b, now) ==
  LET Drop(c, id) ==
        Removed(c, FirstRow(c.data, LAMBDA e : e.id = id /\ e.from = "app"))
  IN  [FoldLeft(Drop, b, SelectSeq(b.docked, LAMBDA id : ~Contains(now, id)))
         EXCEPT !.docked = now]

LoadDocked(s, b, list, on) ==
  LET Add(c, id) ==
        IF Contains(b.docked, id) \/ FirstRow(c.data, LAMBDA e : e.id = id) # 0 THEN c
        ELSE Appended(s, c, Entry(id, "app", RowOf(s.apps, id)))
  IN  DropUndocked(FoldLeft(Add, b, NowDocked(s, list, on)), NowDocked(s, list, on))

\* The handlers of the signals.  The entries of later apps move on, and those without
\* a row are looked up again.
AppInserted(s, b, r) ==
  LET moved == WithRows(b, "app", r, 1)
  IN  [moved EXCEPT !.data = [i \in DOMAIN @ |->
         IF @[i].from = "app" /\ @[i].row = 0
         THEN [@[i] EXCEPT !.row = RowOf(s.apps, @[i].id)] ELSE @[i]]]

AppRemoved(b, r) ==
  WithRows(Removed(b, FirstRow(b.data, LAMBDA e : e.from = "app" /\ e.row = r)),
           "app", r, -1)

\* Defect: the first window of an app does not take the place of its entry.
WindowInsertedLast(s, b, r) ==
  LET id == Desktop(s, r)
  IN  IF id = "" THEN b
      ELSE Appended(s, Removed(b, FirstRow(b.data, LAMBDA e : e.id = id /\ e.from = "app")),
                    Entry(id, "window", r))

\* The first window of an app takes the place of its docked entry, another one
\* goes behind the last.
WindowInserted(s, b, r) ==
  LET id    == Desktop(s, r)
      same  == {i \in DOMAIN b.data : b.data[i].id = id}
      new   == Entry(id, "window", r)
      first == CHOOSE i \in same : \A j \in same : i <= j
      last  == CHOOSE i \in same : \A j \in same : j <= i
      shown == IF id = "" THEN b
               ELSE IF same = {} THEN Appended(s, b, new)
               ELSE IF b.data[first].from = "app" THEN [b EXCEPT !.data[first] = new]
               ELSE Inserted(s, b, last + 1, new)
  IN  WithRows(shown, "window", r + 1, 1)

\* The last window of a docked app leaves the entry to it.
WindowRemoved(s, b, r) ==
  LET at    == FirstRow(b.data, LAMBDA e : e.from = "window" /\ e.row = r)
      id    == b.data[at].id
      other == \E i \in DOMAIN b.data :
                 b.data[i].id = id /\ b.data[i].from = "window" /\ b.data[i].row # r
      left  == IF at = 0 THEN b
               ELSE IF ~other /\ Contains(b.docked, id) /\ Contains(s.apps, id)
               THEN [b EXCEPT !.data[at] = Entry(id, "app", RowOf(s.apps, id))]
               ELSE Removed(b, at)
  IN  WithRows(left, "window", r, -1)

\* dataChanged with DesktopIdRole is passed on, and the groups are made anew.
WindowChanged(s, b, r) ==
  IF split \/ FirstRow(b.data, LAMBDA e : e.from = "window" /\ e.row = r) = 0 THEN b
  ELSE [b EXCEPT !.groups = Rebuilt(s, b.data)]

Deliver ==
  /\ queue # <<>>
  /\ queue' = Tail(queue)
  /\ LET kind == Head(queue).kind
         r    == Head(queue).row
     IN  bar' = CASE kind = "app inserted"    -> AppInserted(src, bar, r)
                  [] kind = "app removed"     -> AppRemoved(bar, r)
                  [] kind = "window inserted" -> WindowInserted(src, bar, r)
                  [] kind = "window removed"  -> WindowRemoved(src, bar, r)
                  [] kind = "window changed"  -> WindowChanged(src, bar, r)
  /\ UNCHANGED <<src, settings>>

-----------------------------------------------------------------------------
(* The models below.                                                         *)

MayChange == Len(queue) < Ahead

\* The reply to GetManagedObjects: all apps are appended, and readyChanged loads
\* the docked elements when none of the insertions has been delivered.
AppsReady(order) ==
  /\ MayChange /\ ~src.ready
  /\ src' = [src EXCEPT !.apps = order, !.ready = TRUE,
                        !.map = MapAfterInserted(src, order)]
  /\ queue' = queue \o [i \in DOMAIN order |-> Signal("app inserted", i)]
  /\ bar' = LoadDocked(src', bar, elements, enabled)
  /\ UNCHANGED settings

InterfacesAdded(a) ==
  LET apps == Append(src.apps, a)
  IN  /\ MayChange /\ src.ready /\ ~Contains(src.apps, a)
      /\ a \in src.gone => a \in Returning
      /\ src' = [src EXCEPT !.apps = apps, !.map = MapAfterInserted(src, apps)]
      /\ queue' = Append(queue, Signal("app inserted", Len(apps)))
      /\ UNCHANGED <<bar, settings>>

\* The windows that lose their app are announced before the row that went.
InterfacesRemoved(a) ==
  LET r    == RowOf(src.apps, a)
      lose == SelectSeq([i \in DOMAIN src.wins |-> i], LAMBDA i : src.map[i] = r)
      apps == RemoveAt(src.apps, r)
  IN  /\ MayChange /\ r # 0
      /\ src' = [src EXCEPT !.apps = apps, !.gone = @ \cup {a},
                            !.map = MapAfterRemoved(src, r, apps)]
      /\ queue' = queue \o [i \in DOMAIN lose |-> Signal("window changed", lose[i])]
                        \o <<Signal("app removed", r)>>
      /\ UNCHANGED <<bar, settings>>

\* trackWindow and destroyWindow.
TrackWindow(w) ==
  /\ MayChange /\ ~Contains(src.wins, w)
  /\ src.ready \/ w \in Early
  /\ src' = [src EXCEPT !.wins = Append(@, w), !.map = Append(@, Matching(w, src.apps))]
  /\ queue' = Append(queue, Signal("window inserted", Len(src'.wins)))
  /\ UNCHANGED <<bar, settings>>

DestroyWindow(w) ==
  LET r == RowOf(src.wins, w)
  IN  /\ MayChange /\ r # 0
      /\ src' = [src EXCEPT !.wins = RemoveAt(@, r), !.map = RemoveAt(@, r)]
      /\ queue' = Append(queue, Signal("window removed", r))
      /\ UNCHANGED <<bar, settings>>

-----------------------------------------------------------------------------
(* The settings, and the user.                                               *)

\* setDockedElements with dockedElementsChanged, which loads at once.
SetDocked(list) ==
  /\ elements' = list
  /\ bar' = LoadDocked(src, bar, list, enabled)
  /\ UNCHANGED <<src, queue, enabled, split>>

\* toggleDockedElement, from the menu of an entry.
ToggleDocked(id) ==
  /\ MayChange /\ enabled
  /\ \E i \in DOMAIN bar.data : bar.data[i].id = id
  /\ SetDocked(IF Contains(elements, id) THEN SelectSeq(elements, LAMBDA x : x # id)
               ELSE Append(elements, id))

\* saveDockElementsOrder after a drag: the docked ones of the ids the view has,
\* in its order.
SaveDockElementsOrder ==
  /\ MayChange /\ enabled
  /\ LET Add(list, e) == IF Contains(elements, e.id) /\ ~Contains(list, e.id)
                         THEN Append(list, e.id) ELSE list
     IN  SetDocked(FoldLeft(Add, <<>>, bar.data))

SetEnabled ==
  /\ MayChange
  /\ enabled' = ~enabled
  /\ bar' = LoadDocked(src, bar, elements, enabled')
  /\ UNCHANGED <<src, queue, elements, split>>

\* moveItem, by a drag when windows are split.
MoveItem(from, to) ==
  /\ MayChange /\ split /\ from # to
  /\ from \in DOMAIN bar.data /\ to \in DOMAIN bar.data
  /\ bar' = [bar EXCEPT !.data = InsertAt(RemoveAt(@, from), to, @[from])]
  /\ UNCHANGED <<src, queue, settings>>

\* groupItemsByApp: the entries of an app come to stand behind its first.
GroupItemsByApp(data) ==
  FoldLeft(LAMBDA seq, e :
             IF FirstRow(seq, LAMBDA x : x.id = e.id) # 0 THEN seq
             ELSE seq \o SelectSeq(data, LAMBDA x : x.id = e.id),
           <<>>, data)

\* windowSplitChanged: the items are brought together, and DockItemModel is
\* given a new group model.
SetSplit ==
  /\ MayChange
  /\ split' = ~split
  /\ LET data == IF split' THEN bar.data ELSE GroupItemsByApp(bar.data)
     IN  bar' = [bar EXCEPT !.data = data,
                            !.groups = IF split' THEN <<>> ELSE Rebuilt(src, data)]
  /\ UNCHANGED <<src, queue, elements, enabled>>

-----------------------------------------------------------------------------
\* The apps the application manager may know.
Known == SetToSeqs(App) \cup {<<a>> : a \in App}

\* The dock starts, before or after the apps are known, and loads what is docked.
Init ==
  /\ \E apps \in Known \cup {<<>>} :
       src = [apps |-> apps, ready |-> apps # <<>>, gone |-> {}, wins |-> <<>>, map |-> <<>>]
  /\ queue = <<>> /\ behind = FALSE
  /\ elements \in Elements
  /\ enabled = TRUE
  /\ split \in BOOLEAN
  /\ bar = LoadDocked(src, [data |-> <<>>, docked |-> <<>>, groups |-> <<>>], elements, enabled)

\* A signal of these kinds is still to be delivered.
UnderWay(kinds) == \E n \in DOMAIN queue' : queue'[n].kind \in kinds
Delivered(kind) == Len(queue') < Len(queue) /\ Head(queue).kind = kind
AppIds(b) == {e.id : e \in {x \in ToSet(b.data) : x.from = "app"}}

\* A step reads the rows of windows, or keeps the row of an app in a new entry, while the
\* removal of a row there is under way; or groups are made anew by rows that are still to
\* be moved.
ReadsBehind ==
  \/ Delivered("window inserted") /\ UnderWay({"window removed"})
  \/ Delivered("window changed") /\ ~split /\ UnderWay({"window removed"})
  \/ ~(AppIds(bar') \subseteq AppIds(bar)) /\ UnderWay({"app removed"})
  \/ split' # split /\ UnderWay({"window removed", "app removed", "app inserted"})

Next ==
  /\ \/ Deliver
     \/ \E order \in Known : AppsReady(order)
     \/ \E a \in App : InterfacesAdded(a) \/ InterfacesRemoved(a)
     \/ \E w \in Window : TrackWindow(w) \/ DestroyWindow(w)
     \/ \E a \in App : ToggleDocked(a)
     \/ SaveDockElementsOrder \/ SetEnabled \/ SetSplit
     \/ \E from, to \in 1..(Cardinality(App) + Cardinality(Window)) : MoveItem(from, to)
  /\ behind' = (behind \/ ReadsBehind)

Spec == Init /\ [][Next]_vars

-----------------------------------------------------------------------------
(* Properties.                                                               *)

EntryType == [id : App \cup Window, from : {"app", "window"}, row : Nat]
SignalType ==
  [kind : {"app inserted", "app removed", "window inserted", "window removed",
           "window changed"}, row : Nat]

\* Every variable keeps its type.
TypeOK ==
  /\ src.apps \in Seq(App) /\ src.wins \in Seq(Window) /\ src.gone \subseteq App
  /\ src.map \in Seq(Nat) /\ Len(src.map) = Len(src.wins) /\ src.ready \in BOOLEAN
  /\ queue \in Seq(SignalType)
  /\ bar.data \in Seq(EntryType) /\ bar.docked \in Seq(App)
  /\ bar.groups \in Seq([key : App \cup Window, rows : Seq(Nat)])
  /\ elements \in Seq(App) /\ enabled \in BOOLEAN /\ split \in BOOLEAN
  /\ behind \in BOOLEAN

\* A window's row names its app, however rows come and go on both sides: the
\* map of RoleCombineModel is what the match function would say now.
MapFits ==
  \A i \in DOMAIN src.map : src.map[i] = Matching(src.wins[i], src.apps)

\* Once every signal is delivered, however many changes of the sources and the settings
\* came in between, each window has one entry in the dock, and no entry names a window
\* that is gone; unless a row was read behind a removal.
WindowsShown ==
  ~behind /\ queue = <<>> =>
    LET rows == {i \in DOMAIN bar.data : bar.data[i].from = "window"}
    IN  /\ Cardinality(rows) = Len(src.wins)
        /\ {bar.data[i].row : i \in rows} = DOMAIN src.wins

\* Then each docked app that is still installed has an entry of its own or a
\* window, and an entry of its own is that of a docked app, one, and never reads
\* the row of another app.
DockedShown ==
  ~behind /\ queue = <<>> =>
    /\ \A id \in App : Contains(bar.docked, id) /\ Contains(src.apps, id) =>
         \E i \in DOMAIN bar.data : bar.data[i].id = id
    /\ \A i \in DOMAIN bar.data : bar.data[i].from = "app" =>
         /\ enabled /\ Contains(bar.docked, bar.data[i].id)
         /\ Contains(elements, bar.data[i].id)
         /\ DesktopOf(src, bar.data[i]) \in {bar.data[i].id, ""}
         /\ \A j \in DOMAIN bar.data : bar.data[j].id = bar.data[i].id => i = j

\* Unless windows are split, the entries of an app stand side by side.
SideBySide ==
  ~split => \A i, j, k \in DOMAIN bar.data :
              i < j /\ j < k /\ bar.data[i].id = bar.data[k].id
                => bar.data[j].id = bar.data[i].id

\* And the rows RoleGroupModel moves one by one never go astray: each row of the
\* list stands in one group, under the id it has or the app it belongs to by now.
\* An entry whose app is gone may belong to none.
GroupsFit ==
  ~behind /\ queue = <<>> /\ ~split =>
    LET holding(i) == {k \in DOMAIN bar.groups : Contains(bar.groups[k].rows, i)}
        app(i)     == DesktopOf(src, bar.data[i])
    IN  /\ \A k \in DOMAIN bar.groups : ToSet(bar.groups[k].rows) \subseteq DOMAIN bar.data
        /\ \A i \in DOMAIN bar.data : app(i) # "" =>
             \E k \in DOMAIN bar.groups :
               holding(i) = {k} /\ bar.groups[k].key \in {bar.data[i].id, app(i)}

\* What opens, closes, is docked, installed or removed does not move what stays:
\* while windows are grouped, the apps in the dock keep their order.
Order(data) ==
  FoldLeft(LAMBDA seq, e : IF Contains(seq, e.id) THEN seq ELSE Append(seq, e.id),
           <<>>, data)
PlaceKept ==
  [][ ~split =>
      LET old == Order(bar.data)
          new == Order(bar'.data)
      IN  SelectSeq(old, LAMBDA id : Contains(new, id))
            = SelectSeq(new, LAMBDA id : Contains(old, id)) ]_vars

\* The rows that the models of the dock remember are those of what they name.
RowsSound == TypeOK /\ MapFits /\ GroupsFit /\ SideBySide

\* And the entries are those of the windows and the docked apps.
EntriesRight == WindowsShown /\ DockedShown
=============================================================================
