--------------------------- MODULE TraySortOrder ---------------------------
(***************************************************************************)
(* The order of the dock's tray: TraySortOrderModel of                       *)
(* panels/dock/tray/traysortordermodel.cpp, with the two parties that share  *)
(* its configuration: TraySettings of the same process (traysettings.cpp,     *)
(* asked over D-Bus to show or hide a plugin) and other processes.            *)
(*                                                                           *)
(* A plugin's surface is kept in one of four sections; what is shown of them  *)
(* is numbered from left to right by updateVisualIndexes, and an item that is *)
(* dragged in from the stash or the quick panel has a gap reserved for it.    *)
(* The lists live in memory and in the configuration.  Every writer writes    *)
(* its own copy of a whole list, and hears of the writes of the others later. *)
(*                                                                           *)
(* hidden and dockHidden are lists without duplicates of which only the       *)
(* members matter: sets here.  A surface is "pluginId::itemKey".              *)
(***************************************************************************)
EXTENDS Lists

CONSTANTS
  Surface,   \* surface ids of the plugins
  Prefers,   \* Prefers[s]: "sectionType", where a new surface goes
  Forbids,   \* Forbids[s]: "forbiddenSections"
  CanHide,   \* surfaces with Attribute_CanSetting and without ForceDock
  AppTray,   \* surfaces of the plugin "application-tray"
  OldOrders, \* section lists an earlier session may have saved
  NoSurface, \* no surface is staged
  DockHides, \* bound: surfaces that other processes hide from the dock
  Leavers,   \* bound: surfaces that go away while the dock runs
  MaxIndex,  \* bound: visual indexes something is dropped on
  MaxCalls   \* bound: queued calls to TraySettings

Section == {"stashed", "collapsable", "pinned", "fixed"}

\* The rows the model makes itself.
Placeholder == "action-stash-placeholder"
ShowStash   == "action-show-stash"
Toggle      == "action-toggle-collapse"
Quick       == "action-toggle-quick-settings"
Internal    == {Placeholder, ShowStash, Toggle, Quick}

ASSUME SurfaceAssumption ==
  /\ Surface # {} /\ Surface \cap Internal = {}
  /\ Prefers \in [Surface -> Section]
  /\ Forbids \in [Surface -> SUBSET Section]
  /\ \A s \in Surface : Prefers[s] \notin Forbids[s]
  /\ CanHide \subseteq Surface /\ AppTray \subseteq Surface
  /\ DockHides \subseteq Surface /\ Leavers \subseteq Surface
  /\ NoSurface \notin Surface
  /\ MaxIndex \in Nat /\ MaxCalls \in Nat

\* An application's item, of the usual size and not forced, may be in the stash.
ASSUME AppTrayAssumption == \A s \in AppTray : "stashed" \notin Forbids[s]

\* Every item is in one of the lists, once.
Once(list, sections) ==
  /\ \A c \in sections : IsInjective(list[c])
  /\ \A b, c \in sections : b # c => ToSet(list[b]) \cap ToSet(list[c]) = {}
  /\ \A c \in sections : Placeholder \in ToSet(list[c]) => c = "stashed"

\* What a session saves (Placed).
SavedLists == [Section \ {"fixed"} -> Seq(Surface \cup {Placeholder})]
ASSUME OrdersAssumption ==
  \A order \in OldOrders : order \in SavedLists /\ Once(order, Section \ {"fixed"})

VARIABLES
  model,    \* the TraySortOrderModel of the running dock
  avail,    \* availableSurfaces
  config,   \* org.deepin.ds.dock.tray
  settings, \* TraySettings::m_hiddenSurfaceIds
  calls,    \* calls of TrayItem::setItemOnDock queued for the event loop
  told      \* who has a valueChanged of the configuration still to come

vars == <<model, avail, config, settings, calls, told>>

Row(sec) == [section |-> sec, visible |-> TRUE, dockVisible |-> TRUE, index |-> -1]
NotStaged == [id |-> NoSurface, index |-> -1]

-----------------------------------------------------------------------------
(* updateVisualIndexes.                                                      *)

\* A section's surfaces that have a row and are to be seen.  The stash does not
\* ask m_hiddenIds: its condition holds for every flag.
ItemVisible(m, sec, s) == sec = "stashed" \/ s \notin CanHide \/ s \notin m.hidden
Shown(m, sec) ==
  Only(m.list[sec],
       {s \in Surface \cap DOMAIN m.row : ItemVisible(m, sec, s) /\ s \notin m.dockHidden})

\* What the dock shows of m: the numbered items from left to right after the
\* stash action, of which the first "reserving" make room for a staged drop.
Layout(m) ==
  LET stash       == Shown(m, "stashed")
      collapsable == Shown(m, "collapsable")
      showStash   == m.actions \/ stash # <<>>
      toggle      == m.actions \/ collapsable # <<>>
      reserving   == (IF m.collapsed THEN <<>> ELSE collapsable)
                       \o (IF toggle THEN <<Toggle>> ELSE <<>>)
                       \o Shown(m, "pinned") \o <<Quick>>
  IN  [stash |-> stash, showStash |-> showStash, toggle |-> toggle,
       line |-> reserving \o Shown(m, "fixed"), reserving |-> Len(reserving),
       staged |-> IF m.staged.id = NoSurface THEN -1 ELSE m.staged.index]

NthOf(seq, x) == IF Contains(seq, x) THEN CHOOSE i \in 1..Len(seq) : seq[i] = x ELSE 0

\* reserveStagedDropSpace: the number of the n-th item skips the staged index
\* once the count has come to it.  The fixed section does not reserve.
IndexOfNth(v, n) ==
  LET base  == IF v.showStash THEN 1 ELSE 0
      asked == IF n <= v.reserving THEN n ELSE v.reserving
      skips == base <= v.staged /\ v.staged <= base + asked - 1
  IN  base + n - 1 + (IF skips THEN 1 ELSE 0)

\* The list a surface is in; a surface is in one at most (Placed).
SectionsWith(m, s) == {sec \in Section : Contains(m.list[sec], s)}

\* The row of one of the model's own actions, with what it is given.
Seen(r, seen, index) == [r EXCEPT !.visible = seen, !.index = index]

NewRow(m, v, x) ==
  LET sec == IF SectionsWith(m, x) = {} THEN m.row[x].section
             ELSE CHOOSE c \in SectionsWith(m, x) : TRUE
      index == IF Contains(v.line, x) THEN IndexOfNth(v, NthOf(v.line, x)) ELSE -1
  IN  CASE x = Placeholder ->
             [m.row[x] EXCEPT !.visible = v.stash = <<>> /\ v.showStash]
        [] x = ShowStash -> Seen(m.row[x], v.showStash, IF v.showStash THEN 0 ELSE -1)
        [] x = Toggle -> Seen(m.row[x], v.toggle, index)
        [] x = Quick -> [m.row[x] EXCEPT !.section = "fixed", !.index = index]
        [] x \in Surface /\ SectionsWith(m, x) = {} -> [m.row[x] EXCEPT !.index = -1]
        [] OTHER -> [section     |-> sec,
                     visible     |-> ItemVisible(m, sec, x),
                     dockVisible |-> x \notin m.dockHidden,
                     index       |-> IF sec = "stashed" THEN NthOf(v.stash, x) - 1
                                     ELSE index]

Laid(m) ==
  LET v == Layout(m)
  IN  [m EXCEPT !.row = [x \in DOMAIN m.row |-> NewRow(m, v, x)],
                !.count = IndexOfNth(v, Len(v.line)) + 1]

-----------------------------------------------------------------------------
(* The configuration.  Dtk's DConfig: a write is seen at once by who reads,    *)
(* and announced to everyone, the writer included, if it changed something.    *)

SavedOrder(c, m) ==
  [c EXCEPT !.list = [sec \in Section \ {"fixed"} |-> m.list[sec]]]
SavedHidden(c, m)     == [c EXCEPT !.hidden = m.hidden]
SavedDockHidden(c, m) == [c EXCEPT !.dockHidden = m.dockHidden]
SavedCollapsed(c, m)  == [c EXCEPT !.collapsed = m.collapsed]
SavedData(c, m) ==
  SavedCollapsed(SavedDockHidden(SavedHidden(SavedOrder(c, m), m), m), m)

Write(c) ==
  /\ config' = c
  /\ told' = told \cup (IF c.hidden # config.hidden THEN {"model", "settings"} ELSE {})
                  \cup (IF c.dockHidden # config.dockHidden THEN {"model"} ELSE {})

\* Defect: only the hidden surfaces are read again.
LoadedPartly(m, c) == [m EXCEPT !.hidden = c.hidden]

\* loadDataFromDConfig: m_fixedIds is not in the configuration.
Loaded(m, c) ==
  [m EXCEPT !.list = [sec \in Section |-> IF sec = "fixed" THEN @[sec] ELSE c.list[sec]],
            !.hidden = c.hidden, !.dockHidden = c.dockHidden, !.collapsed = c.collapsed]

\* handlePluginVisibleChanged: a D-Bus call that the dock answers itself,
\* DockDBusProxy::setItemOnDock, which queues the call to the tray.
Called(q, s, visible) == Append(q, [id |-> s, visible |-> visible])

-----------------------------------------------------------------------------
(* A surface comes or goes: onAvailableSurfacesChanged.                       *)

\* findSection: the list a surface was saved in, or the preferred section.  A
\* new plugin that can be set is hidden.  A forbidden section is left.
FoundIn(m, s) ==
  IF SectionsWith(m, s) = {} THEN Prefers[s]
  ELSE CHOOSE sec \in SectionsWith(m, s) : TRUE
HidesByDefault(m, s) ==
  /\ SectionsWith(m, s) = {}
  /\ s \in CanHide \ AppTray /\ Prefers[s] # "fixed" /\ s \notin m.hidden
MustLeave(m, s) == SectionsWith(m, s) # {} /\ FoundIn(m, s) \in Forbids[s]
SectionFor(m, s) == IF MustLeave(m, s) THEN Prefers[s] ELSE FoundIn(m, s)

\* Defect: the forbidden section is left in name only.
AfterFindSectionStays(m, s) ==
  [m EXCEPT !.hidden = IF HidesByDefault(m, s) THEN @ \cup {s} ELSE @]

AfterFindSection(m, s) ==
  [m EXCEPT !.hidden = IF HidesByDefault(m, s) THEN @ \cup {s} ELSE @,
            !.list[FoundIn(m, s)] = IF MustLeave(m, s) THEN RemoveFirst(@, s) ELSE @]

\* registerSurfaceId with createTrayItem and registerToSection: a known row that
\* sits in a forbidden section is given another one, and no list.
WithNewRow(m, s, sec) ==
  [m EXCEPT !.row = [x \in DOMAIN @ \cup {s} |-> IF x = s THEN Row(sec) ELSE @[x]],
            !.list[sec] = IF Contains(@, s) THEN @ ELSE Append(@, s)]
Registered(m, s) ==
  IF s \notin DOMAIN m.row THEN WithNewRow(AfterFindSection(m, s), s, SectionFor(m, s))
  ELSE IF m.row[s].section \in Forbids[s]
  THEN [AfterFindSection(m, s) EXCEPT !.row[s].section = SectionFor(m, s)]
  ELSE m

OnlyRows(m, S) == [m EXCEPT !.row = [x \in DOMAIN @ \cap (Internal \cup S) |-> @[x]]]

\* Defect: what findSection hid is not saved.
AvailableSurfacesChangedUnsaved(m) ==
  /\ model' = Laid(m) /\ Write(SavedOrder(config, m)) /\ UNCHANGED settings

AvailableSurfacesChanged(m) ==
  /\ model' = Laid(m)
  /\ Write(SavedHidden(SavedOrder(config, m), m))
  /\ UNCHANGED settings

SurfaceCreated(s) ==
  LET hides == s \notin DOMAIN model.row /\ HidesByDefault(model, s)
  IN  /\ s \notin avail
      /\ hides => Len(calls) < MaxCalls
      /\ avail' = avail \cup {s}
      /\ calls' = IF hides THEN Called(calls, s, FALSE) ELSE calls
      /\ AvailableSurfacesChanged(Registered(model, s))

SurfaceDestroyed(s) ==
  /\ s \in avail \cap Leavers
  /\ avail' = avail \ {s}
  /\ UNCHANGED calls
  /\ AvailableSurfacesChanged(OnlyRows(model, avail'))

-----------------------------------------------------------------------------
(* Drag and drop.                                                            *)

\* findItemByVisualIndex in the dock's part of the tray.
ItemsAt(m, i) ==
  {x \in DOMAIN m.row : /\ m.row[x].index = i /\ m.row[x].visible
                        /\ m.row[x].section # "stashed"
                        /\ ~(m.collapsed /\ m.row[x].section = "collapsable")}

\* getSection(SectionTypeRole): where the dragged surface is taken from.
Taken(m, d) == [m.list EXCEPT ![m.row[d].section] = RemoveFirst(@, d)]
PutLast(m, d, sec)  == [Taken(m, d) EXCEPT ![sec] = Append(@, d)]
PutFirst(m, d, sec) == [Taken(m, d) EXCEPT ![sec] = <<d>> \o @]

\* Defect: the surface dropped on changes places with the dragged one.
PutBesideSwapped(m, d, t, before) ==
  LET Swap(x) == IF x = d THEN t ELSE IF x = t THEN d ELSE x
  IN  [sec \in Section |-> [i \in DOMAIN m.list[sec] |-> Swap(m.list[sec][i])]]

\* Onto another surface t.  In t's own section the place is counted before d is
\* taken out, and "before" is one less: a move to the left ends one too early.
MovedWithin(seq, d, t, before) ==
  LET target == NthOf(seq, t) - (IF before /\ NthOf(seq, t) > 1 THEN 1 ELSE 0)
  IN  InsertAt(RemoveFirst(seq, d), target, d)
PutBeside(m, d, t, before) ==
  LET sec == m.row[t].section
      at  == NthOf(m.list[sec], t) + (IF before THEN 0 ELSE 1)
  IN  IF sec = m.row[d].section
      THEN [m.list EXCEPT ![sec] = MovedWithin(@, d, t, before)]
      ELSE [Taken(m, d) EXCEPT ![sec] = InsertAt(@, at, d)]

DroppedOn(m, d, t, before) ==
  CASE t = ShowStash -> IF m.row[d].section = "stashed" THEN m.list
                        ELSE PutLast(m, d, "stashed")
    [] t = Toggle /\ before  -> IF "collapsable" \in Forbids[d] THEN m.list
                                ELSE PutLast(m, d, "collapsable")
    [] t = Toggle /\ ~before -> IF "pinned" \in Forbids[d] THEN m.list
                                ELSE PutFirst(m, d, "pinned")
    [] t = Quick -> IF "pinned" \in Forbids[d] THEN m.list ELSE PutLast(m, d, "pinned")
    [] t = d -> m.list
    [] OTHER -> IF m.row[t].section \in Forbids[d] THEN m.list
                ELSE PutBeside(m, d, t, before)

\* dropToDockTray on the items m shows; after is the value actionsAlwaysVisible
\* has when the handler is done.  A hidden surface is shown again, also when
\* the drop is refused afterwards.  Everything is saved.
DropToDockTray(m, d, i, before, after) ==
  /\ UNCHANGED <<avail, settings>>
  /\ \/ /\ d \notin DOMAIN m.row \/ ItemsAt(m, i) = {}
        /\ model' = Laid([m EXCEPT !.actions = after])
        /\ UNCHANGED <<config, told, calls>>
     \/ \E t \in ItemsAt(m, i) :
          LET dropped == [m EXCEPT !.list = DroppedOn(m, d, t, before),
                                   !.hidden = @ \ {d}, !.actions = after]
          IN  /\ d \in DOMAIN m.row
              /\ d \in m.hidden => Len(calls) < MaxCalls
              /\ calls' = IF d \in m.hidden THEN Called(calls, d, TRUE) ELSE calls
              /\ model' = Laid(dropped)
              /\ Write(SavedData(config, dropped))

\* A drag within the tray: 50 ms after the pointer came over an item, with the
\* index of that time, and when the button is released.  Items of the fixed
\* section cannot be dragged, and only applications' items are taken by the
\* stash action.
MayDropAt(d, i) ==
  /\ model.staged.id = NoSurface
  /\ model.row[d].section \notin {"stashed", "fixed"}
  /\ model.row[ShowStash].visible /\ i = 0 => d \in AppTray
HoverDrop(d, i, before) ==
  /\ model.actions /\ d \in DOMAIN model.row /\ MayDropAt(d, i) /\ i > 0
  /\ DropToDockTray(model, d, i, before, TRUE)
ReleaseDrop(d, i, before) ==
  /\ model.actions /\ d \in DOMAIN model.row /\ MayDropAt(d, i)
  /\ DropToDockTray(model, d, i, before, FALSE)

\* dropToStashTray: the stash's popup takes applications' items only.
DropToStash(d) ==
  /\ d \in DOMAIN model.row \cap AppTray
  /\ "stashed" \notin Forbids[d]
  /\ LET dropped == IF model.row[d].section = "stashed" THEN model
                    ELSE [model EXCEPT !.list = PutLast(model, d, "stashed")]
     IN  /\ model' = Laid(dropped)
         /\ Write(SavedData(config, dropped))
  /\ UNCHANGED <<avail, settings, calls>>

\* stageDropPosition: from the stash, or from the quick panel if it is hidden.
StageDropPosition(d, i) ==
  /\ model.actions /\ i > 0 /\ d \in DOMAIN model.row
  /\ model.row[d].section = "stashed" \/ d \in model.hidden
  /\ model.row[d].section # "fixed"
  /\ model' = Laid([model EXCEPT !.staged = [id |-> d, index |-> i]])
  /\ UNCHANGED <<avail, config, settings, calls, told>>

\* onDropped for such a drag: commitStagedDrop takes the gap away first.
CommitStagedDrop ==
  /\ model.staged.id # NoSurface
  /\ DropToDockTray(Laid([model EXCEPT !.staged = NotStaged]), model.staged.id,
                    model.staged.index, TRUE, FALSE)

\* onEntered, and onExited, which clears what was staged.
DragEnter ==
  /\ ~model.actions
  /\ model' = Laid([model EXCEPT !.actions = TRUE])
  /\ UNCHANGED <<avail, config, settings, calls, told>>
DragExit ==
  /\ model.actions
  /\ model' = Laid([model EXCEPT !.actions = FALSE, !.staged = NotStaged])
  /\ UNCHANGED <<avail, config, settings, calls, told>>

-----------------------------------------------------------------------------
(* Settings.                                                                 *)

ToggleCollapsed ==
  LET m == [model EXCEPT !.collapsed = ~@]
  IN  /\ model' = Laid(m)
      /\ Write(SavedCollapsed(config, m))
      /\ UNCHANGED <<avail, settings, calls>>

With(S, s, in) == IF in THEN S \cup {s} ELSE S \ {s}

\* DockDBusProxy::setItemOnDock, called by the control center.
CallSetItemOnDock(s, visible) ==
  /\ Len(calls) < MaxCalls
  /\ calls' = Called(calls, s, visible)
  /\ UNCHANGED <<model, avail, config, settings, told>>

\* TrayItem::setItemOnDock with TraySettings::addTrayItemOnDock and
\* removeTrayItemOnDock: a plugin that is there and can be set.
SetItemOnDock ==
  /\ calls # <<>>
  /\ calls' = Tail(calls)
  /\ LET s == Head(calls).id
         changes == s \in avail \cap CanHide /\ (s \in settings) = Head(calls).visible
     IN  IF changes
         THEN /\ settings' = With(settings, s, ~Head(calls).visible)
              /\ Write([config EXCEPT !.hidden = settings'])
         ELSE UNCHANGED <<settings, config, told>>
  /\ UNCHANGED <<model, avail>>

\* valueChanged reaches the two objects, each in its own time.
ModelTold ==
  /\ "model" \in told
  /\ told' = told \ {"model"}
  /\ model' = Laid(Loaded(model, config))
  /\ UNCHANGED <<avail, config, settings, calls>>
SettingsTold ==
  /\ "settings" \in told
  /\ told' = told \ {"settings"}
  /\ settings' = config.hidden
  /\ UNCHANGED <<model, avail, config, calls>>

\* Another process takes an item off the dock (bound: when nothing else is under
\* way).
OthersDockHide(s) ==
  /\ calls = <<>> /\ told = {}
  /\ Write([config EXCEPT !.dockHidden = @ \cup {s}])
  /\ UNCHANGED <<model, avail, settings, calls>>

-----------------------------------------------------------------------------
\* The constructor: what the configuration has, and the rows of its own.
NewModel(c) ==
  LET m == [list |-> [sec \in Section |-> IF sec = "fixed" THEN <<>> ELSE c.list[sec]],
            hidden |-> c.hidden, dockHidden |-> c.dockHidden, collapsed |-> c.collapsed,
            actions |-> FALSE, staged |-> NotStaged, count |-> 0,
            row |-> [x \in Internal |->
                       Row(IF x = Placeholder THEN "stashed" ELSE "tray-action")]]
  IN  Laid([m EXCEPT !.list["stashed"] =
              IF Contains(@, Placeholder) THEN @ ELSE Append(@, Placeholder)])

\* The dock ends, in the middle of anything, and is started again.
Restart ==
  /\ model' = NewModel(config)
  /\ settings' = config.hidden
  /\ avail' = {} /\ calls' = <<>> /\ told' = {}
  /\ UNCHANGED config

Init ==
  \E order \in OldOrders :
    /\ config = [list |-> order, hidden |-> {}, dockHidden |-> {}, collapsed |-> FALSE]
    /\ model = NewModel(config)
    /\ settings = {} /\ avail = {} /\ calls = <<>> /\ told = {}

Next ==
  \/ \E s \in Surface : SurfaceCreated(s) \/ SurfaceDestroyed(s)
  \/ \E s \in Surface, i \in 0..MaxIndex, before \in BOOLEAN :
       HoverDrop(s, i, before) \/ ReleaseDrop(s, i, before)
  \/ \E s \in Surface : DropToStash(s) \/ \E i \in 0..MaxIndex : StageDropPosition(s, i)
  \/ CommitStagedDrop \/ DragEnter \/ DragExit
  \/ ToggleCollapsed
  \/ \E s \in CanHide, visible \in BOOLEAN : CallSetItemOnDock(s, visible)
  \/ SetItemOnDock \/ ModelTold \/ SettingsTold
  \/ \E s \in DockHides : OthersDockHide(s)
  \/ Restart

Spec == Init /\ [][Next]_vars

-----------------------------------------------------------------------------
(* Properties.                                                               *)

Lists == [Section -> Seq(Surface \cup {Placeholder})]
ModelType ==
  /\ model.list \in Lists
  /\ model.hidden \subseteq Surface /\ model.dockHidden \subseteq Surface
  /\ model.collapsed \in BOOLEAN /\ model.actions \in BOOLEAN
  /\ model.staged.id \in Surface \cup {NoSurface} /\ model.staged.index \in Int
  /\ model.count \in Nat
  /\ Internal \subseteq DOMAIN model.row /\ DOMAIN model.row \subseteq Internal \cup Surface
  /\ \A x \in DOMAIN model.row : model.row[x].section \in Section \cup {"tray-action"}

\* Every variable keeps its type.
TypeOK ==
  /\ ModelType
  /\ avail \subseteq Surface
  /\ config.list \in SavedLists
  /\ config.hidden \subseteq Surface /\ config.dockHidden \subseteq Surface
  /\ config.collapsed \in BOOLEAN
  /\ settings \subseteq Surface
  /\ calls \in Seq([id : Surface, visible : BOOLEAN])
  /\ told \subseteq {"model", "settings"}

\* A plugin that is there is in exactly one list, once, the list its row names,
\* and never in a section that is forbidden to it: registerSurfaceId, the drops
\* and the reloads of the configuration keep lists and rows together.
Placed ==
  \A s \in avail :
    /\ s \in DOMAIN model.row
    /\ SectionsWith(model, s) = {model.row[s].section}
    /\ Cardinality({i \in DOMAIN model.list[model.row[s].section] :
                       model.list[model.row[s].section][i] = s}) = 1
    /\ model.row[s].section \notin Forbids[s]

\* The numbers updateVisualIndexes gives out: what the dock shows is numbered
\* without a gap but the staged one, left to right by section, and everything
\* that is to be seen has a number.  Only the fixed section and the stash action
\* do not make room for what is staged.
Indexed(x) == model.row[x].index >= 0 /\ model.row[x].section # "stashed"
Rank(x) ==
  CASE x = ShowStash -> 0 [] x = Toggle -> 2 [] x = Quick -> 4
    [] OTHER -> CASE model.row[x].section = "collapsable" -> 1
                  [] model.row[x].section = "pinned" -> 3 [] OTHER -> 5
Numbered ==
  LET docked  == {x \in DOMAIN model.row : Indexed(x)}
      numbers == {model.row[x].index : x \in docked}
  IN  /\ Cardinality(numbers) = Cardinality(docked)
      /\ 0..(model.count - 1) \subseteq numbers \cup {model.staged.index}
      /\ \A x \in docked : /\ model.row[x].index < model.count
                           /\ model.row[x].index = model.staged.index => Rank(x) \in {0, 5}
      /\ \A x, y \in docked : Rank(x) < Rank(y) => model.row[x].index < model.row[y].index
      /\ \A s \in avail :
           (model.row[s].index >= 0) <=>
             /\ model.row[s].visible /\ model.row[s].dockVisible
             /\ ~(model.collapsed /\ model.row[s].section = "collapsable")

\* When no call and no announcement is under way, the model, TraySettings and
\* the configuration agree: a restart brings back the tray that was shown.
Agree ==
  calls = <<>> /\ told = {} =>
    /\ model.hidden = config.hidden /\ settings = config.hidden
    /\ model.dockHidden = config.dockHidden /\ model.collapsed = config.collapsed
    /\ \A sec \in Section \ {"fixed"} :
         Only(model.list[sec], Surface) = Only(config.list[sec], Surface)

\* A step changes the order of the tray by taking one surface and putting it
\* elsewhere: the others stay in their sections and in their order, whatever is
\* dropped, registered, reloaded or removed.
Others(list, sec, d) == Only(list[sec], Surface \ {d})
MovesOne ==
  [][\E d \in Surface : \A sec \in Section \ {"fixed"} :
       Others(model'.list, sec, d) = Others(model.list, sec, d)]_vars

\* What another process wrote is not taken back by a drop, which saves every
\* list, once the model has been told of it.
HeardIsKept ==
  [][ "model" \notin told => config.dockHidden \subseteq config'.dockHidden]_vars

\* The lists, the rows and the numbers of the model fit together, whatever was
\* registered, dropped, reloaded or removed.
ListsSound == TypeOK /\ Placed /\ Numbered
=============================================================================
