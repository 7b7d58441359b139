---------------------------- MODULE NotifyCenter ----------------------------
(***************************************************************************)
(* The notification center: the list of panels/notification/center/          *)
(* notifymodel.cpp over the history, on the main thread.                     *)
(*                                                                           *)
(* An app is shown as one plain notification, as an overlap (the newest on   *)
(* top of a small pile) or, expanded, as a group header followed by its      *)
(* notifications.  The server's worker thread saves rows and announces them; *)
(* the announcement is queued, so rows are in the database before the list   *)
(* hears of them.  A row can be announced again (the timeout of a            *)
(* notification that was saved at once), and the row of a replaced            *)
(* notification is not announced at all.                                     *)
(*                                                                           *)
(* A notification is a number, its cTime: times are distinct.  Q_ASSERT ends *)
(* the program, as in a debug build.                                         *)
(***************************************************************************)
EXTENDS Integers, Sequences, FiniteSets

CONSTANTS
  Apps,      \* application names
  AppOf,     \* AppOf[e]: the application of notification e, a number
  MaxEvents, \* bound: announcements queued for the main thread
  MaxRepeats \* bound: announcements of rows that were announced before

Entities == DOMAIN AppOf

VARIABLES
  db,       \* the rows of the history
  saved,    \* notifications that ever were in the history
  events,   \* announcements ("Processed") queued for the main thread
  repeats,  \* announcements of known rows so far
  items,    \* m_appNotifies
  shown,    \* the panel is visible; NotifyAccessor::enabled
  pins,     \* pinned applications
  failed,   \* a Q_ASSERT failed
  strayed   \* history: a row was announced twice, late or not at all

vars == <<db, saved, events, repeats, items, shown, pins, failed, strayed>>

\* type; ent: the entity, for a group its lastEntity; count: overlap's m_count.
Item == [type : {"Normal", "Overlap", "Group"}, ent : Entities, count : 0..2]
Normal(e)     == [type |-> "Normal", ent |-> e, count |-> 0]
Overlap(e, n) == [type |-> "Overlap", ent |-> e, count |-> n]
Group(e)      == [type |-> "Group", ent |-> e, count |-> 0]

-----------------------------------------------------------------------------
(* The history and the order of the list.                                    *)

RowsOf(d, a) == {e \in d : AppOf[e] = a}

\* fetchLastEntity(app): the newest row.
Newest(d, a) == CHOOSE e \in RowsOf(d, a) : \A f \in RowsOf(d, a) : f <= e

\* The elements of a set of notifications, the greatest of an order first.
Sorted(S, Gt(_, _)) ==
  [i \in 1..Cardinality(S) |->
     CHOOSE x \in S : Cardinality({y \in S : y # x /\ Gt(y, x)}) = i - 1]

\* greaterNotify(entity, entity): pinned applications first, then by time.
Greater(p, e, f) ==
  IF (AppOf[e] \in p) = (AppOf[f] \in p) THEN e >= f ELSE AppOf[e] \in p

AppAt(s, i) == AppOf[s[i].ent]
IsApp(s, i, a) == AppAt(s, i) = a

\* greaterNotifyEntity: what an item counts for, its group's lastEntity if its
\* application is expanded.
Key(s, i) ==
  LET groups == {j \in 1..Len(s) : s[j].type = "Group" /\ AppAt(s, j) = AppAt(s, i)}
  IN  IF groups = {} THEN s[i].ent
      ELSE s[CHOOSE j \in groups : \A k \in groups : j <= k].ent

\* lastNotifyIndex: the first row that e is not below.
Place(p, s, e) ==
  LET below == {i \in 1..Len(s) : Greater(p, e, Key(s, i))}
  IN  IF below = {} THEN Len(s) + 1 ELSE CHOOSE i \in below : \A j \in below : i <= j

\* updateCount: what lies under the top, two at most.
Pile(n) == IF n - 1 > 2 THEN 2 ELSE IF n - 1 <= 0 THEN 0 ELSE n - 1

RowsIn(s, a) == {i \in 1..Len(s) : IsApp(s, i, a)}
FirstOf(S) == CHOOSE i \in S : \A j \in S : i <= j
InsertAt(s, i, t) == SubSeq(s, 1, i - 1) \o t \o SubSeq(s, i, Len(s))
RemoveRows(s, S) ==
  LET keep == Sorted((1..Len(s)) \ S, LAMBDA i, j : i < j)
  IN  [n \in 1..Len(keep) |-> s[keep[n]]]

-----------------------------------------------------------------------------
(* append: an announced row comes into the list.                             *)

\* Defect: the overlap stays where the plain notification was.
AppendToNormalInPlace(p, s, row, e) == [s EXCEPT ![row] = Overlap(e, 1)]

AppendToNormal(p, s, row, e) ==
  LET rest == RemoveRows(s, {row})
  IN  InsertAt(rest, Place(p, rest, e), <<Overlap(e, 1)>>)

\* Defect: the count is not fetched.
AppendToOverlapUncounted(p, d, s, row, e) ==
  InsertAt(RemoveRows(s, {row}), Place(p, [s EXCEPT ![row].ent = e], e),
           <<Overlap(e, s[row].count)>>)

AppendToOverlap(p, d, s, row, e) ==
  LET item == Overlap(e, Pile(Cardinality(RowsOf(d, AppOf[e]))))
      rest == RemoveRows(s, {row})
  IN  InsertAt(rest, Place(p, [s EXCEPT ![row] = item], e), <<item>>)

\* Into the group, which moves, as a block of as many rows as its app has, if its
\* place is another than before.
AppendToGroup(p, s, row, e) ==
  LET last  == IF s[row].ent < e THEN e ELSE s[row].ent
      grown == [InsertAt(s, row + 1, <<Normal(e)>>) EXCEPT ![row].ent = last]
      size  == Cardinality(RowsIn(grown, AppOf[e]))
      block == SubSeq(grown, row, row + size - 1)
      rest  == SubSeq(grown, 1, row - 1) \o SubSeq(grown, row + size, Len(grown))
  IN  IF Place(p, InsertAt(s, row + 1, <<Normal(e)>>), s[row].ent) = Place(p, grown, last)
        THEN grown ELSE InsertAt(rest, Place(p, grown, last), block)

Appended(p, d, s, e) ==
  LET at == RowsIn(s, AppOf[e])
      row == FirstOf(at)
  IN  IF at = {} THEN InsertAt(s, Place(p, s, e), <<Normal(e)>>)
      ELSE IF s[row].type = "Normal" THEN AppendToNormal(p, s, row, e)
      ELSE IF s[row].type = "Overlap" THEN AppendToOverlap(p, d, s, row, e)
      ELSE AppendToGroup(p, s, row, e)

-----------------------------------------------------------------------------
(* Removal, expansion, order.                                                *)

\* Defect: a header goes only when nothing is left.
UngroupedEmpty(s, a) ==
  IF RowsIn(s, a) # {} /\ \A i \in RowsIn(s, a) : s[i].type = "Group"
    THEN RemoveRows(s, RowsIn(s, a)) ELSE s

\* The end of remove: a header with one notification left goes.
Ungrouped(s, a) ==
  LET of(ty) == {i \in RowsIn(s, a) : s[i].type = ty}
  IN  IF of("Group") # {} /\ Cardinality(of("Normal")) <= 1
        THEN RemoveRows(s, {FirstOf(of("Group"))})
        ELSE s

\* The end of the removal of a plain row: trayUpdateGroupLastEntity.
GroupRefreshed(s, a) ==
  LET groups == {i \in RowsIn(s, a) : s[i].type = "Group"}
      g == FirstOf(groups)
  IN  IF groups # {} /\ s[g].ent < s[g + 1].ent
        THEN [s EXCEPT ![g].ent = s[g + 1].ent] ELSE s

\* remove(e) of a plain row.
RemoveNormal(row) ==
  LET e == items[row].ent
      s == GroupRefreshed(RemoveRows(items, {row}), AppOf[e])
  IN  /\ db' = db \ {e}
      /\ items' = Ungrouped(s, AppOf[e])
      /\ UNCHANGED failed

\* remove(e) of an overlap: what is left of the app in the history comes up.
RemoveOverlap(row) ==
  LET e == items[row].ent
      left == RowsOf(db \ {e}, AppOf[e])
      n == Pile(Cardinality(left))
  IN  /\ db' = db \ {e}
      /\ IF left = {}
           THEN failed' = TRUE /\ UNCHANGED items
           ELSE /\ LET top == Newest(left, AppOf[e])
                   IN items' = [items EXCEPT ![row] =
                                  IF n = 0 THEN Normal(top) ELSE Overlap(top, n)]
                /\ UNCHANGED failed

\* remove(e): the first row with that id.
Remove(e) ==
  LET at == {i \in 1..Len(items) : items[i].type # "Group" /\ items[i].ent = e}
  IN  IF at = {} THEN UNCHANGED <<db, items, failed>>
      ELSE IF items[FirstOf(at)].type = "Normal" THEN RemoveNormal(FirstOf(at))
      ELSE RemoveOverlap(FirstOf(at))

\* What open shows: an overlap for applications with several rows.
Opened(p, d) ==
  LET tops == {Newest(d, a) : a \in {b \in Apps : RowsOf(d, b) # {}}}
      order == Sorted(tops, LAMBDA e, f : Greater(p, e, f))
      size(e) == Cardinality(RowsOf(d, AppOf[e]))
  IN  [i \in 1..Len(order) |->
         IF size(order[i]) >= 2 THEN Overlap(order[i], Pile(size(order[i])))
         ELSE Normal(order[i])]

\* greaterNotify(item, item): a group heads its app, and else time decides
\* within an app.
GreaterItem(p, s, i, j) ==
  IF AppAt(s, i) = AppAt(s, j)
    THEN IF s[i].type = s[j].type THEN s[i].ent >= s[j].ent ELSE s[i].type = "Group"
    ELSE Greater(p, Key(s, i), Key(s, j))

\* sort.  Equal items (a row shown twice) keep their order.
Resorted(p, s) ==
  LET order == Sorted(1..Len(s), LAMBDA i, j : /\ GreaterItem(p, s, i, j)
                                               /\ GreaterItem(p, s, j, i) => i < j)
  IN  [n \in 1..Len(s) |-> s[order[n]]]

-----------------------------------------------------------------------------
(* Actions.                                                                  *)

\* The main thread's turn: what it does before it hears of a row.
Turn == ~failed /\ strayed' = (strayed \/ events # <<>>)

\* The worker saves a notification and announces it.
Save(e) ==
  /\ ~failed /\ Len(events) < MaxEvents
  /\ e \notin saved
  /\ saved' = saved \cup {e}
  /\ db' = db \cup {e}
  /\ events' = Append(events, e)
  /\ UNCHANGED <<repeats, items, shown, pins, failed, strayed>>

\* A replacement moves the replaced notification to the history.
SaveReplaced(e) ==
  /\ ~failed
  /\ strayed' = TRUE
  /\ e \notin saved
  /\ saved' = saved \cup {e}
  /\ db' = db \cup {e}
  /\ UNCHANGED <<events, repeats, items, shown, pins, failed>>

\* The worker announces a row once more.
Announce(e) ==
  /\ ~failed /\ Len(events) < MaxEvents
  /\ repeats < MaxRepeats /\ e \in db
  /\ strayed' = TRUE
  /\ repeats' = repeats + 1
  /\ events' = Append(events, e)
  /\ UNCHANGED <<db, saved, items, shown, pins, failed>>

\* onNotificationStateChanged, doEntityReceived: ignored while the panel is
\* closed and when the row is gone.
Receive ==
  /\ ~failed
  /\ events # <<>>
  /\ events' = Tail(events)
  /\ items' = IF shown /\ Head(events) \in db
                THEN Appended(pins, db, items, Head(events)) ELSE items
  /\ UNCHANGED <<db, saved, repeats, shown, pins, failed, strayed>>

\* The panel opens; rows older than the retention time go first.
Open(cutoff) ==
  /\ Turn
  /\ ~shown
  /\ shown' = TRUE
  /\ db' = {e \in db : e >= cutoff}
  /\ items' = Opened(pins, db')
  /\ UNCHANGED <<saved, events, repeats, pins, failed>>

Close ==
  /\ Turn
  /\ shown
  /\ shown' = FALSE
  /\ items' = <<>>
  /\ UNCHANGED <<db, saved, events, repeats, pins, failed>>

\* collapseAllApp: close, open.
CollapseAllApp ==
  /\ Turn
  /\ shown
  /\ items' = Opened(pins, db)
  /\ UNCHANGED <<db, saved, events, repeats, shown, pins, failed>>

\* The user removes a plain row.
RemoveRow(row) ==
  /\ Turn
  /\ items[row].type = "Normal"
  /\ Remove(items[row].ent)
  /\ UNCHANGED <<saved, events, repeats, shown, pins>>

\* invokeAction: the server removes the row, then remove(id).
InvokeAction(row) ==
  /\ Turn
  /\ items[row].type # "Group"
  /\ IF items[row].ent \in db
       THEN Remove(items[row].ent)
       ELSE UNCHANGED <<db, items, failed>>
  /\ UNCHANGED <<saved, events, repeats, shown, pins>>

\* removeByApp of a group or an overlap: its rows and those of the history.
RemoveByApp(row) ==
  /\ Turn
  /\ items[row].type # "Normal"
  /\ LET app == AppAt(items, row)
         gone == IF items[row].type = "Overlap" THEN {row}
                 ELSE {row} \cup {i \in RowsIn(items, app) : i > row}
     IN /\ items' = RemoveRows(items, gone)
        /\ db' = db \ RowsOf(db, app)
  /\ UNCHANGED <<saved, events, repeats, shown, pins, failed>>

Clear ==
  /\ Turn
  /\ shown
  /\ items' = <<>>
  /\ db' = {}
  /\ UNCHANGED <<saved, events, repeats, shown, pins, failed>>

ExpandApp(row) ==
  /\ Turn
  /\ items[row].type = "Overlap"
  /\ LET rows == RowsOf(db, AppAt(items, row))
         order == Sorted(rows, LAMBDA e, f : e > f)
         rest == RemoveRows(items, {row})
     IN items' = IF Cardinality(rows) < 2 THEN rest
                 ELSE InsertAt(rest, row,
                        <<Group(order[1])>> \o [i \in 1..Len(order) |-> Normal(order[i])])
  /\ UNCHANGED <<db, saved, events, repeats, shown, pins, failed>>

CollapseApp(row) ==
  /\ Turn
  /\ items[row].type = "Group"
  /\ LET app == AppAt(items, row)
         rest == RemoveRows(items, {row} \cup {i \in RowsIn(items, app) : i > row})
         n == Cardinality(RowsOf(db, app))
     IN items' = IF n < 2 THEN rest
                 ELSE InsertAt(rest, row, <<Overlap(Newest(db, app), Pile(n))>>)
  /\ UNCHANGED <<db, saved, events, repeats, shown, pins, failed>>

\* pinApplication from the menu of an item.
PinApplication(row, pin) ==
  /\ Turn
  /\ LET app == AppAt(items, row)
         p == IF pin THEN pins \cup {app} ELSE pins \ {app}
     IN pins' = p /\ items' = Resorted(p, items)
  /\ UNCHANGED <<db, saved, events, repeats, shown, failed>>

Init ==
  /\ db = {} /\ saved = {} /\ events = <<>> /\ repeats = 0
  /\ items = <<>> /\ shown = FALSE /\ pins = {}
  /\ failed = FALSE /\ strayed = FALSE

Server == \E e \in Entities : Save(e) \/ SaveReplaced(e) \/ Announce(e)

User ==
  \/ \E cutoff \in {0} \cup Entities : Open(cutoff)
  \/ Close
  \/ CollapseAllApp
  \/ Clear
  \/ \E row \in 1..Len(items) :
       \/ RemoveRow(row) \/ InvokeAction(row) \/ RemoveByApp(row)
       \/ ExpandApp(row) \/ CollapseApp(row)
       \/ \E pin \in BOOLEAN : PinApplication(row, pin)

Next == Server \/ Receive \/ User

Spec == Init /\ [][Next]_vars

-----------------------------------------------------------------------------
(* Properties.                                                               *)

\* Every variable keeps its type.
TypeOK ==
  /\ db \subseteq saved /\ saved \subseteq Entities
  /\ events \in Seq(Entities) /\ repeats \in 0..MaxRepeats
  /\ items \in Seq(Item) /\ shown \in BOOLEAN /\ pins \subseteq Apps
  /\ failed \in BOOLEAN /\ strayed \in BOOLEAN

TypesOf(a) == {items[i].type : i \in RowsIn(items, a)}

\* The rows of an application are contiguous, and are one notification, one
\* overlap, or a header with two notifications or more below it: what remove
\* announces as row ranges, and what trayUpdateGroupLastEntity reads at the row
\* after a header, depends on it.
Shape ==
  \A a \in {b \in Apps : RowsIn(items, b) # {}} :
    LET at == RowsIn(items, a)
        n  == Cardinality(at)
    IN /\ at = FirstOf(at)..(FirstOf(at) + n - 1)
       /\ \/ n = 1 /\ items[FirstOf(at)].type # "Group"
          \/ /\ n >= 3
             /\ \A i \in at : items[i].type = IF i = FirstOf(at) THEN "Group" ELSE "Normal"

\* Unless announcements went astray, what the history has of an application is
\* what the list shows of it: all of it when expanded or single, top and pile
\* otherwise.
Faithful ==
  shown /\ events = <<>> /\ ~strayed =>
    \A a \in Apps :
      LET at   == RowsIn(items, a)
          rows == RowsOf(db, a)
          ents == {items[i].ent : i \in {j \in at : items[j].type = "Normal"}}
      IN CASE at = {} -> rows = {}
           [] at # {} /\ "Overlap" \in TypesOf(a) ->
                \E i \in at : items[i].ent \in rows
                              /\ items[i].count = Pile(Cardinality(rows))
           [] OTHER -> ents = rows

\* Pinned applications come before all others, whatever was appended, moved,
\* removed or pinned since the list was filled.
PinnedFirst ==
  \A i, j \in 1..Len(items) :
    AppAt(items, i) \in pins /\ AppAt(items, j) \notin pins => i < j

\* What is before the application of a notification that has just come in is
\* pinned above it or newer.
RisenTo(e) ==
  \A i \in 1..FirstOf(RowsIn(items', AppOf[e])) - 1 : ~Greater(pins, e, Key(items', i))

ReceivesInto(ty) ==
  /\ Receive /\ items' # items
  /\ LET at == RowsIn(items, AppOf[Head(events)])
     IN  IF at = {} THEN ty = "Normal" ELSE items[FirstOf(at)].type = ty

\* A new notification of an application that is not expanded takes its
\* application to its place by time, wherever removals have left the others.
NewestRises ==
  [][ReceivesInto("Normal") \/ ReceivesInto("Overlap") => RisenTo(Head(events))]_vars

\* "Q_ASSERT(entity.isValid());" in remove: an overlap that lost its top has a
\* row of the history to show, unless an announcement went astray.
OverlapsHaveRows == failed => strayed

\* The list keeps its type, its groups their shape, its overlaps their rows, and the
\* pinned applications their place: what every handler of the list relies on.
ListSound == TypeOK /\ Shape /\ OverlapsHaveRows /\ PinnedFirst
=============================================================================
