----------------------------- MODULE Launchpad -----------------------------
(***************************************************************************)
(* AppGroupManager with its ItemsPages (applets/dde-apps): the pages of the  *)
(* launcher and its folders.  Row 1 of groups is the top level; an item is an *)
(* app or the id of a folder.                                                *)
(*                                                                           *)
(* A position names a folder by AppGroup::parseGroupId, which cuts one        *)
(* character more than "internal/folder/" off an id: the ids that are given,   *)
(* "internal/group/n", all give 0, the top level, below 100 folders.  So every *)
(* position is looked up on the top level, the branches for two folders are    *)
(* never taken, and no id begins with "internal/folder/".  Where such a        *)
(* position is past the end of a list, the process ends.                      *)
(***************************************************************************)
EXTENDS Integers, Sequences, FiniteSets, SequencesExt

CONSTANTS
  Catalog,     \* apps, each once, in the order of their object paths
  MaxPerPage,  \* items of a page, more than 1
  MaxFolders   \* bound: folders that are made; their numbers are no apps

App == ToSet(Catalog)

VARIABLES
  installed, \* what the application manager knows
  apps,      \* the rows of AMAppItemModel
  ready,     \* its reply has come
  groups,    \* rows of AppGroupManager: a folder's id and its pages
  saved      \* the configuration value Groups

vars == <<installed, apps, ready, groups, saved>>

Row(id, pages) == [id |-> id, pages |-> pages]
NonEmpty(pages) == SelectSeq(pages, LAMBDA p : p # <<>>)

-----------------------------------------------------------------------------
(* ItemsPage                                                                 *)

\* findItem: where the first x stands, <<0, 0>> if nowhere.
PosIn(pages, x) ==
  IF \A i \in DOMAIN pages : ~Contains(pages[i], x) THEN <<0, 0>>
  ELSE LET p == CHOOSE i \in DOMAIN pages :
                  Contains(pages[i], x) /\ \A j \in 1..(i - 1) : ~Contains(pages[j], x)
       IN  <<p, CHOOSE k \in DOMAIN pages[p] :
                  pages[p][k] = x /\ \A j \in 1..(k - 1) : pages[p][j] # x>>

AppendPage(pages, items) ==
  pages \o [k \in 1..((Len(items) + MaxPerPage - 1) \div MaxPerPage) |->
              SubSeq(items, (k - 1) * MaxPerPage + 1,
                     IF k * MaxPerPage < Len(items) THEN k * MaxPerPage ELSE Len(items))]

AppendItem(pages, x) ==
  IF pages # <<>> /\ Len(Last(pages)) < MaxPerPage
  THEN [pages EXCEPT ![Len(pages)] = Append(@, x)]
  ELSE AppendPage(pages, <<x>>)

\* Defect: a page that is too full gives its last item to the end of the list.
InsertItemOverflowsToEnd(pages, x, p, pos) ==
  LET at   == IF pos > Len(pages[p]) THEN Len(pages[p]) + 1 ELSE pos
      page == InsertAt(pages[p], at, x)
  IN  IF Len(page) <= MaxPerPage THEN [pages EXCEPT ![p] = page]
      ELSE AppendItem([pages EXCEPT ![p] = Front(page)], Last(page))

\* insertItem: the last item of a page that is too full goes to the front of the
\* next, and so on.
InsertItem(pages, x, p, pos) ==
  LET at == IF pos > Len(pages[p]) THEN Len(pages[p]) + 1 ELSE pos
      Fit(acc, i, page) ==
        IF Len(page) > MaxPerPage
        THEN [pages |-> [acc.pages EXCEPT ![i] = Front(page)], over |-> <<Last(page)>>]
        ELSE [pages |-> [acc.pages EXCEPT ![i] = page], over |-> <<>>]
      first  == Fit([pages |-> pages, over |-> <<>>], p, InsertAt(pages[p], at, x))
      filled == FoldLeft(LAMBDA acc, i : Fit(acc, i, acc.over \o acc.pages[i]), first,
                         [i \in 1..(Len(pages) - p) |-> p + i])
  IN  AppendPage(filled.pages, filled.over)

RemoveItem(pages, x) ==
  LET at   == PosIn(pages, x)
      left == [pages EXCEPT ![at[1]] = RemoveAt(@, at[2])]
  IN  IF at[1] = 0 THEN pages
      ELSE IF left[at[1]] = <<>> THEN RemoveAt(left, at[1]) ELSE left

InRange(pages, f, t) ==
  /\ f[1] \in DOMAIN pages /\ f[2] \in DOMAIN pages[f[1]] /\ t[1] \in DOMAIN pages
  /\ f[1] = t[1] => t[2] \in DOMAIN pages[t[1]]

MoveItemPosition(pages, f, t, behind) ==
  LET shift == f[1] = t[1] /\ f[2] > t[2] /\ behind
      to    == IF shift THEN t[2] + 1 ELSE t[2]
      x     == pages[f[1]][f[2]]
      taken == [pages EXCEPT ![f[1]] = RemoveAt(@, f[2])]
      moved == IF f[1] = t[1] THEN [pages EXCEPT ![f[1]] = InsertAt(taken[f[1]], to, x)]
               ELSE InsertItem(taken, x, t[1], to)
  IN  IF shift /\ f[2] = to THEN pages
      ELSE IF Len(pages[f[1]]) = 1 THEN NonEmpty(moved) ELSE moved

RemoveItemsNotIn(pages, set) ==
  NonEmpty([i \in DOMAIN pages |-> SelectSeq(pages[i], LAMBDA x : x \in set \cup 0..MaxFolders)])

-----------------------------------------------------------------------------
(* AppGroupManager                                                           *)

\* The pages a stored group is made of again, and the top level that must exist.
LoadAppGroupInfo(info) ==
  IF info = <<>> THEN <<Row(0, <<>>)>>
  ELSE [i \in DOMAIN info |->
          Row(info[i].id, FoldLeft(AppendPage, <<>>, info[i].pages))]

\* findItem: the first row that has x.
FindItem(rows, x) ==
  LET with == {i \in DOMAIN rows : PosIn(rows[i].pages, x)[1] # 0}
  IN  IF with = {} THEN <<0, 0>>
      ELSE PosIn(rows[CHOOSE i \in with : \A j \in with : i <= j].pages, x)
Placed(rows) == UNION {UNION {ToSet(r.pages[p]) : p \in DOMAIN r.pages} : r \in ToSet(rows)}

AssignGroupId(rows) ==
  CHOOSE n \in 0..Len(rows) : /\ \A i \in DOMAIN rows : rows[i].id # n
                              /\ \A m \in 0..(n - 1) : \E i \in DOMAIN rows : rows[i].id = m

\* onReferenceModelChanged: what is new goes to the top level, what is gone goes
\* from every folder.  A folder that is empty stays, its number being 0.
ReferenceModelChanged(rows, model) ==
  LET Add(acc, a) == IF FindItem(acc, a)[1] # 0 THEN acc
                     ELSE [acc EXCEPT ![1].pages = AppendItem(@, a)]
      added == FoldLeft(Add, rows, model)
  IN  IF model = <<>> THEN rows
      ELSE [i \in DOMAIN added |->
              [added[i] EXCEPT !.pages = RemoveItemsNotIn(@, ToSet(model))]]

\* saveAppGroupInfo, with which every change ends.
Store(rows) == groups' = rows /\ saved' = rows

\* The rows of the new apps are inserted one by one, and the groups are brought up
\* to date after each.
RowsInserted(new) ==
  LET upTo == [n \in DOMAIN new |-> apps \o SubSeq(new, 1, n)]
  IN  /\ apps' = apps \o new
      /\ IF new = <<>> THEN UNCHANGED <<groups, saved>>
         ELSE Store(FoldLeft(ReferenceModelChanged, groups, upTo))

\* The reply to GetManagedObjects; what InterfacesAdded told before is left out.
AppsReady ==
  /\ ~ready /\ ready' = TRUE
  /\ RowsInserted(SelectSeq(Catalog, LAMBDA a : a \in installed \ ToSet(apps)))
  /\ UNCHANGED installed

\* InterfacesAdded, before or after the reply.
Install(a) ==
  /\ a \notin installed /\ installed' = installed \cup {a}
  /\ RowsInserted(<<a>>)
  /\ UNCHANGED ready

\* InterfacesRemoved; before the reply the app may be unknown.
Uninstall(a) ==
  /\ a \in installed /\ installed' = installed \ {a}
  /\ apps' = SelectSeq(apps, LAMBDA x : x # a)
  /\ IF Contains(apps, a) THEN Store(ReferenceModelChanged(groups, apps'))
     ELSE UNCHANGED <<groups, saved>>
  /\ UNCHANGED ready

\* The process ends and starts again.
Starts ==
  /\ groups' = LoadAppGroupInfo(saved)
  /\ apps' = <<>> /\ ready' = FALSE
  /\ saved' = saved
Gone == Starts /\ UNCHANGED installed

\* commitRearrangeOperation to the front or the back of drop: the positions are
\* those of the folders the items are in, the list is the top level.
Rearrange(drag, drop, behind) ==
  LET f == FindItem(groups, drag)
      t == FindItem(groups, drop)
  IN  /\ drag # drop /\ f[1] # 0 /\ t[1] # 0
      /\ IF InRange(groups[1].pages, f, t)
         THEN /\ Store([groups EXCEPT ![1].pages = MoveItemPosition(@, f, t, behind)])
              /\ UNCHANGED <<installed, apps, ready>>
         ELSE Gone

\* Defect: the new folder is not put where the other item was.
JoinedLosesFolder(top, t, id, drop) == RemoveItem(top, drop)

\* The top level, the dragged item taken out of it, after the other made way for
\* the folder.
Joined(top, t, id, drop) == RemoveItem(InsertItem(top, id, t[1], t[2]), drop)

\* And onto drop: both go to a new folder in its place.  Where drop stood is asked
\* before the dragged item goes, with the page it may leave empty.
Join(drag, drop) ==
  LET t   == FindItem(groups, drop)
      id  == AssignGroupId(groups)
      top == RemoveItem(groups[1].pages, drag)
  IN  /\ drag # drop /\ FindItem(groups, drag)[1] # 0 /\ t[1] # 0
      /\ id <= MaxFolders
      /\ IF t[1] \in DOMAIN top
         THEN /\ Store(Append([groups EXCEPT ![1].pages = Joined(top, t, id, drop)],
                              Row(id, AppendPage(<<>>, <<drag, drop>>))))
              /\ UNCHANGED <<installed, apps, ready>>
         ELSE Gone

BringToFront(x) ==
  LET f == FindItem(groups, x)
  IN  /\ f[1] # 0 /\ f # <<1, 1>>
      /\ IF InRange(groups[1].pages, f, <<1, 1>>)
         THEN /\ Store([groups EXCEPT ![1].pages = MoveItemPosition(@, f, <<1, 1>>, FALSE)])
              /\ UNCHANGED <<installed, apps, ready>>
         ELSE Gone

\* Meanwhile apps come and go.
Restart == Starts /\ installed' \in SUBSET App

Init ==
  /\ installed \in SUBSET App
  /\ apps = <<>> /\ ready = FALSE
  /\ saved = <<>> /\ groups = LoadAppGroupInfo(saved)

Next ==
  \/ AppsReady \/ Restart
  \/ \E a \in App : Install(a) \/ Uninstall(a)
  \/ \E x \in Placed(groups) : BringToFront(x)
  \/ \E x, y \in Placed(groups) : Join(x, y) \/ \E behind \in BOOLEAN : Rearrange(x, y, behind)

Spec == Init /\ [][Next]_vars

-----------------------------------------------------------------------------
(* Properties.                                                               *)

Item == App \cup 1..MaxFolders
RowType == [id : 0..MaxFolders, pages : Seq(Seq(Item))]

\* Every variable keeps its type.
TypeOK ==
  /\ installed \subseteq App /\ apps \in Seq(App) /\ ready \in BOOLEAN
  /\ groups \in Seq(RowType) /\ groups # <<>> /\ saved \in Seq(RowType)

\* No page is empty or fuller than it may be, whatever is inserted, moved or
\* joined on it.
PagesFit ==
  \A i \in DOMAIN groups : \A p \in DOMAIN groups[i].pages :
    Len(groups[i].pages[p]) \in 1..MaxPerPage

\* What can be reached from the top level by opening folders.
Within(n) == Placed(SelectSeq(groups, LAMBDA r : r.id = n))
Reachable ==
  LET More[k \in 0..MaxFolders] ==
        IF k = 0 THEN Within(0)
        ELSE More[k - 1] \cup UNION {Within(n) : n \in More[k - 1] \ App}
  IN  More[MaxFolders]

\* No app is lost: each app the application manager told of can be reached from the
\* top level, and so can each folder.
NoneLost ==
  /\ ToSet(apps) \subseteq Reachable
  /\ \A i \in DOMAIN groups : groups[i].id # 0 => groups[i].id \in Reachable
  /\ \A i, j \in DOMAIN groups : groups[i].id = groups[j].id => i = j

\* The items of a row in the order of its pages, and those of them that S has.
Flat(row) == FlattenSeq(row.pages)
OrderOf(row, S) == SelectSeq(Flat(row), LAMBDA x : x \in S)

\* "Avoid remove all existing records when first time": when the application manager
\* has replied, each app that was saved and is still installed is in its folder, and
\* in the order in which it was saved.
ArrangementKept ==
  [][ ~ready /\ ready' =>
        LET known == ToSet(apps') \cap Placed(groups)
        IN  \A i \in DOMAIN groups :
              OrderOf(groups'[i], known) = OrderOf(groups[i], known) ]_vars

\* While the process runs, a step that adds and removes nothing on the top level
\* moves one item at most: what a full page hands on to the next, over all pages,
\* stays in order.
Top(rows) == Flat(rows[1])
OneMoves ==
  [][ ready /\ ready' /\ ToSet(Top(groups)) = ToSet(Top(groups'))
      /\ Top(groups) # Top(groups')
        => \E x \in ToSet(Top(groups)) :
             LET others == ToSet(Top(groups)) \ {x}
             IN  OrderOf(groups[1], others) = OrderOf(groups'[1], others) ]_vars

\* The pages keep their type, are as full as they may be, and lose nothing.
PagesSound == TypeOK /\ PagesFit /\ NoneLost
=============================================================================
