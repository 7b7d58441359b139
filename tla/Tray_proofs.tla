---------------------------- MODULE Tray_proofs ----------------------------
(***************************************************************************)
(* What is proved of the dock's tray, for any surfaces, sections, orders and *)
(* items: of its model, of the popups of a panel, and of the host of plugins, *)
(* and of the behaviours of the three that the runs check.                    *)
(***************************************************************************)
EXTENDS MCTraySortOrder, Lists_proofs

-----------------------------------------------------------------------------
(* The tray's model.                                                         *)

Item == Surface \cup {Placeholder}
RowType == [section : Section \cup {"tray-action"}, visible : BOOLEAN, dockVisible : BOOLEAN,
            index : Int]
Rows == UNION {[some -> RowType] : some \in SUBSET (Internal \cup Surface)}
ModelSet == [list : Lists, hidden : SUBSET Surface, dockHidden : SUBSET Surface,
             collapsed : BOOLEAN, actions : BOOLEAN,
             staged : [id : Surface \cup {NoSurface}, index : Int],
             count : Int, row : Rows]

\* Nothing is staged, or a surface at an index right of the stash's button.
StagedWell(m) ==
  \/ m.staged.id = NoSurface /\ m.staged.index = -1
  \/ m.staged.id # NoSurface /\ m.staged.index > 0

\* The model before the rows are written: the lists are in order, and every surface that
\* has a row is in a list where it may be.
Ready(m) ==
  /\ m \in ModelSet
  /\ StagedWell(m)
  /\ Internal \subseteq DOMAIN m.row
  /\ m.row[Placeholder].section = "stashed"
  /\ m.row[ShowStash].section = "tray-action" /\ m.row[Toggle].section = "tray-action"
  /\ Once(m.list, Section)
  /\ \A s \in Surface \cap DOMAIN m.row :
       \E c \in Section \ Forbids[s] : s \in ToSet(m.list[c])

\* And after it: the rows name the lists.
Sane(m) ==
  /\ Ready(m)
  /\ m.row[Quick].section = "fixed" /\ m.row[ShowStash].index \in {0, -1}
  /\ \A s \in Surface \cap DOMAIN m.row :
       m.row[s].section \in Section \ Forbids[s] /\ s \in ToSet(m.list[m.row[s].section])

LEMMA RowsOf ==
  ASSUME NEW r
  PROVE  r \in Rows <=> /\ DOMAIN r \subseteq Internal \cup Surface
                        /\ r \in [DOMAIN r -> RowType]
BY DEF Rows

LEMMA ListContains ==
  ASSUME NEW A, NEW s \in Seq(A), NEW x
  PROVE  Contains(s, x) <=> x \in ToSet(s)
BY DEF Contains, ToSet

\* The section a surface is in is the only one.
LEMMA OneSection ==
  ASSUME NEW m, m.list \in Lists, Once(m.list, Section), NEW s \in Surface,
         NEW c \in Section, s \in ToSet(m.list[c])
  PROVE  SectionsWith(m, s) = {c}
<1>1. \A b \in Section : Contains(m.list[b], s) <=> s \in ToSet(m.list[b])
  BY ListContains DEF Lists
<1>2. \A b \in Section : s \in ToSet(m.list[b]) => b = c
  BY DEF Once
<1> QED
  BY <1>1, <1>2 DEF SectionsWith

-----------------------------------------------------------------------------
(* What the dock shows of it.                                                *)

LEMMA InternalDiffers ==
  /\ Placeholder # ShowStash /\ Placeholder # Toggle /\ Placeholder # Quick
  /\ ShowStash # Toggle /\ ShowStash # Quick /\ Toggle # Quick
  /\ Internal \cap Surface = {} /\ Internal \cap Item = {Placeholder}
  /\ ShowStash \notin Surface /\ Toggle \notin Surface /\ Quick \notin Surface
BY SurfaceAssumption DEF Placeholder, ShowStash, Toggle, Quick, Internal, Item

\* Of a section, what is shown is of its surfaces, in their order.
LEMMA ShownIs ==
  ASSUME NEW m, m \in ModelSet, NEW c \in Section
  PROVE  /\ Shown(m, c) \in Seq(Item)
         /\ ToSet(Shown(m, c)) = {s \in ToSet(m.list[c]) \cap Surface \cap DOMAIN m.row :
                                    ItemVisible(m, c, s) /\ s \notin m.dockHidden}
         /\ IsInjective(m.list[c]) => IsInjective(Shown(m, c))
<1> DEFINE S == {s \in Surface \cap DOMAIN m.row : ItemVisible(m, c, s) /\ s \notin m.dockHidden}
<1>1. m.list[c] \in Seq(Item)
  BY DEF ModelSet, Lists, Item
<1>2. Shown(m, c) = Only(m.list[c], S)
  BY DEF Shown
<1>3. ToSet(m.list[c]) \cap S
        = {s \in ToSet(m.list[c]) \cap Surface \cap DOMAIN m.row :
             ItemVisible(m, c, s) /\ s \notin m.dockHidden}
  OBVIOUS
<1> HIDE DEF S
<1>4. Only(m.list[c], S) \in Seq(Item) /\ ToSet(Only(m.list[c], S)) = ToSet(m.list[c]) \cap S
  BY <1>1, OnlyItems
<1>5. IsInjective(m.list[c]) => IsInjective(Only(m.list[c], S))
  BY <1>1, OnlyDiffers
<1> QED
  BY <1>2, <1>3, <1>4, <1>5, Zenon

\* The items of two lists, one after the other.
LEMMA JoinedSets ==
  ASSUME NEW A, NEW s \in Seq(A), NEW t \in Seq(A)
  PROVE  ToSet(s \o t) = ToSet(s) \cup ToSet(t)
<1>1. /\ s \o t \in Seq(A) /\ Len(s \o t) = Len(s) + Len(t)
      /\ \A k \in 1..Len(s) + Len(t) : (s \o t)[k] = IF k <= Len(s) THEN s[k] ELSE t[k - Len(s)]
  BY JoinedItems
<1>2. PICK r : r = s \o t
  OBVIOUS
<1>3. /\ Len(s) \in Nat /\ Len(t) \in Nat /\ DOMAIN s = 1..Len(s) /\ DOMAIN t = 1..Len(t)
      /\ DOMAIN r = 1..Len(s) + Len(t)
      /\ \A k \in DOMAIN r : r[k] = IF k <= Len(s) THEN s[k] ELSE t[k - Len(s)]
  BY <1>1, <1>2
<1>4. ASSUME NEW k \in DOMAIN r PROVE r[k] \in ToSet(s) \cup ToSet(t)
  <2>1. k \in DOMAIN s \/ (~(k <= Len(s)) /\ k - Len(s) \in DOMAIN t)
    BY <1>3, <1>4
  <2>2. k \in DOMAIN s => k <= Len(s)
    BY <1>3
  <2> QED
    BY <1>3, <1>4, <2>1, <2>2 DEF ToSet
<1>5. ASSUME NEW k \in DOMAIN s PROVE s[k] \in ToSet(r)
  <2>1. k \in DOMAIN r /\ r[k] = s[k]
    BY <1>3, <1>5
  <2> QED
    BY <2>1 DEF ToSet
<1>6. ASSUME NEW k \in DOMAIN t PROVE t[k] \in ToSet(r)
  <2>1. Len(s) + k \in DOMAIN r /\ ~(Len(s) + k <= Len(s)) /\ (Len(s) + k) - Len(s) = k
    BY <1>3, <1>6
  <2>2. r[Len(s) + k] = t[k]
    BY <1>3, <2>1
  <2> QED
    BY <2>1, <2>2 DEF ToSet
<1>7. ToSet(r) = ToSet(s) \cup ToSet(t)
  BY <1>4, <1>5, <1>6 DEF ToSet
<1> QED
  BY <1>2, <1>7

\* The line is made of the sections' items, the toggle and the quick settings.
DockItem == Surface \cup Internal
OpenSection(m) == IF m.collapsed THEN <<>> ELSE Shown(m, "collapsable")
ToggleItem(m) ==
  IF m.actions \/ Shown(m, "collapsable") # <<>> THEN <<Toggle>> ELSE <<>>
ReservingItems(m) == OpenSection(m) \o ToggleItem(m) \o Shown(m, "pinned") \o <<Quick>>

LEMMA LineItems ==
  ASSUME NEW m, m \in ModelSet
  PROVE  /\ OpenSection(m) \in Seq(DockItem) /\ ToggleItem(m) \in Seq(DockItem)
         /\ Shown(m, "pinned") \in Seq(DockItem) /\ Shown(m, "fixed") \in Seq(DockItem)
         /\ <<Quick>> \in Seq(DockItem)
         /\ ReservingItems(m) \in Seq(DockItem) /\ Len(ReservingItems(m)) \in Nat \ {0}
         /\ ReservingItems(m) \o Shown(m, "fixed") \in Seq(DockItem)
         /\ Len(ReservingItems(m) \o Shown(m, "fixed"))
              = Len(ReservingItems(m)) + Len(Shown(m, "fixed"))
<1>1. Item \subseteq DockItem /\ Toggle \in DockItem /\ Quick \in DockItem
  BY DEF Item, DockItem, Internal
<1>2. \A c \in Section : Shown(m, c) \in Seq(DockItem)
  <2>1. \A c \in Section : Shown(m, c) \in Seq(Item)
    BY ShownIs
  <2> QED
    BY <1>1, <2>1
<1>3. /\ OpenSection(m) \in Seq(DockItem) /\ ToggleItem(m) \in Seq(DockItem)
      /\ Shown(m, "pinned") \in Seq(DockItem) /\ Shown(m, "fixed") \in Seq(DockItem)
      /\ <<Quick>> \in Seq(DockItem) /\ Len(<<Quick>>) = 1
  <2>1. <<>> \in Seq(DockItem) /\ <<Toggle>> \in Seq(DockItem)
        /\ <<Quick>> \in Seq(DockItem) /\ Len(<<Quick>>) = 1
    BY <1>1
  <2>2. {"collapsable", "pinned", "fixed"} \subseteq Section
    BY DEF Section
  <2> QED
    BY <1>2, <2>1, <2>2, Zenon DEF OpenSection, ToggleItem
<1>4. \A s, t \in Seq(DockItem) : s \o t \in Seq(DockItem) /\ Len(s \o t) = Len(s) + Len(t)
  OBVIOUS
<1>5. \A s \in Seq(DockItem) : Len(s) \in Nat
  OBVIOUS
<1> DEFINE most == OpenSection(m) \o ToggleItem(m) \o Shown(m, "pinned")
<1>6. most \in Seq(DockItem)
  BY <1>3, <1>4, Zenon
<1>7. ReservingItems(m) = most \o <<Quick>>
  BY DEF ReservingItems
<1> HIDE DEF most
<1>8. ReservingItems(m) \in Seq(DockItem) /\ Len(ReservingItems(m)) = Len(most) + 1
  <2>1. /\ most \o <<Quick>> \in Seq(DockItem)
        /\ Len(most \o <<Quick>>) = Len(most) + Len(<<Quick>>)
    BY <1>3, <1>4, <1>6, Zenon
  <2> QED
    BY <1>3, <1>7, <2>1, Zenon
<1>9. Len(ReservingItems(m)) \in Nat \ {0}
  <2>1. Len(most) \in Nat
    BY <1>5, <1>6
  <2> QED
    BY <1>8, <2>1
<1> QED
  BY <1>3, <1>4, <1>8, <1>9, Zenon

LEMMA LayoutIs ==
  ASSUME NEW m, m \in ModelSet
  PROVE  /\ Layout(m).stash = Shown(m, "stashed")
         /\ Layout(m).showStash = (m.actions \/ Shown(m, "stashed") # <<>>)
         /\ Layout(m).toggle = (m.actions \/ Shown(m, "collapsable") # <<>>)
         /\ Layout(m).line = ReservingItems(m) \o Shown(m, "fixed")
         /\ Layout(m).reserving = Len(ReservingItems(m))
         /\ Layout(m).staged = IF m.staged.id = NoSurface THEN -1 ELSE m.staged.index
BY DEF Layout, ReservingItems, OpenSection, ToggleItem

\* What is shown has a place in the line, what is not has none.
LEMMA NthIs ==
  ASSUME NEW A, NEW s \in Seq(A), NEW x
  PROVE  /\ x \in ToSet(s) => NthOf(s, x) \in 1..Len(s) /\ s[NthOf(s, x)] = x
         /\ x \notin ToSet(s) => NthOf(s, x) = 0
         /\ NthOf(s, x) \in 0..Len(s)
<1>1. Contains(s, x) <=> x \in ToSet(s)
  BY ListContains
<1>2. Len(s) \in Nat
  OBVIOUS
<1>3. CASE x \in ToSet(s)
  <2>1. \E i \in 1..Len(s) : s[i] = x
    BY <1>1, <1>3 DEF Contains
  <2>2. NthOf(s, x) = CHOOSE i \in 1..Len(s) : s[i] = x
    BY <1>1, <1>3 DEF NthOf
  <2> QED
    BY <1>2, <1>3, <2>1, <2>2
<1>4. CASE x \notin ToSet(s)
  BY <1>1, <1>2, <1>4 DEF NthOf
<1> QED
  BY <1>3, <1>4

\* The number of the n-th item.
Base(v) == IF v.showStash THEN 1 ELSE 0
LEMMA IndexIs ==
  ASSUME NEW v, v.reserving \in Nat, v.staged \in Int, NEW n \in Nat, n > 0
  PROVE  IndexOfNth(v, n) \in {Base(v) + n - 1, Base(v) + n}
         /\ IndexOfNth(v, n) \in Nat
<1> DEFINE upTo == IF n <= v.reserving THEN n ELSE v.reserving
           skips == Base(v) <= v.staged /\ v.staged <= Base(v) + upTo - 1
<1>1. Base(v) \in {0, 1}
  BY DEF Base
<1>2. IndexOfNth(v, n) = Base(v) + n - 1 + (IF skips THEN 1 ELSE 0)
  BY DEF IndexOfNth, Base
<1> HIDE DEF skips
<1> QED
  BY <1>1, <1>2

\* The number of an item of the dock.
LineIndex(m, x) ==
  IF Contains(Layout(m).line, x) THEN IndexOfNth(Layout(m), NthOf(Layout(m).line, x)) ELSE -1

LEMMA LineIndexIs ==
  ASSUME NEW m, m \in ModelSet, NEW x
  PROVE  LineIndex(m, x) \in Int /\ LineIndex(m, x) >= -1
<1>1. /\ Layout(m).line \in Seq(DockItem) /\ Layout(m).reserving \in Nat
  BY LineItems, LayoutIs
<1>2. Layout(m).staged \in Int
  BY LayoutIs DEF ModelSet
<1>3. CASE Contains(Layout(m).line, x)
  <2>1. x \in ToSet(Layout(m).line)
    BY <1>1, <1>3, ListContains
  <2>2. NthOf(Layout(m).line, x) \in 1..Len(Layout(m).line) /\ Len(Layout(m).line) \in Nat
    BY <1>1, <2>1, NthIs
  <2>3. NthOf(Layout(m).line, x) \in Nat /\ NthOf(Layout(m).line, x) > 0
    BY <2>2
  <2>4. IndexOfNth(Layout(m), NthOf(Layout(m).line, x)) \in Nat
    BY <1>1, <1>2, <2>3, IndexIs
  <2> QED
    BY <1>3, <2>4 DEF LineIndex
<1> QED
  BY <1>3 DEF LineIndex

\* A surface's row: where it is, and its number.
LEMMA SurfaceRow ==
  ASSUME NEW m, Ready(m), NEW s \in Surface \cap DOMAIN m.row, NEW c \in Section,
         s \in ToSet(m.list[c])
  PROVE  NewRow(m, Layout(m), s)
           = [section |-> c, visible |-> ItemVisible(m, c, s),
              dockVisible |-> s \notin m.dockHidden,
              index |-> IF c = "stashed" THEN NthOf(Layout(m).stash, s) - 1 ELSE LineIndex(m, s)]
<1>1. SectionsWith(m, s) = {c}
  BY OneSection DEF Ready, ModelSet
<1>2. (CHOOSE b \in {c} : TRUE) = c
  OBVIOUS
<1>3. s \notin Internal
  BY SurfaceAssumption
<1>4. /\ s # Placeholder /\ s # ShowStash /\ s # Toggle /\ s # Quick
  BY <1>3 DEF Internal
<1> QED
  BY <1>1, <1>2, <1>4, Zenon DEF NewRow, LineIndex

\* And the other rows.
LEMMA InternalRow ==
  ASSUME NEW m, Ready(m)
  PROVE  /\ NewRow(m, Layout(m), Placeholder)
              = [m.row[Placeholder] EXCEPT !.visible = Layout(m).stash = <<>> /\ Layout(m).showStash]
         /\ NewRow(m, Layout(m), ShowStash)
              = Seen(m.row[ShowStash], Layout(m).showStash, IF Layout(m).showStash THEN 0 ELSE -1)
         /\ NewRow(m, Layout(m), Toggle)
              = Seen(m.row[Toggle], Layout(m).toggle, LineIndex(m, Toggle))
         /\ NewRow(m, Layout(m), Quick)
              = [m.row[Quick] EXCEPT !.section = "fixed", !.index = LineIndex(m, Quick)]
<1>1. NewRow(m, Layout(m), Placeholder)
        = [m.row[Placeholder] EXCEPT !.visible = Layout(m).stash = <<>> /\ Layout(m).showStash]
  BY InternalDiffers DEF NewRow
<1>2. NewRow(m, Layout(m), ShowStash)
        = Seen(m.row[ShowStash], Layout(m).showStash, IF Layout(m).showStash THEN 0 ELSE -1)
  BY InternalDiffers DEF NewRow
<1>3. NewRow(m, Layout(m), Toggle)
        = Seen(m.row[Toggle], Layout(m).toggle, LineIndex(m, Toggle))
  BY InternalDiffers DEF NewRow, LineIndex
<1>4. NewRow(m, Layout(m), Quick)
        = [m.row[Quick] EXCEPT !.section = "fixed", !.index = LineIndex(m, Quick)]
  BY InternalDiffers DEF NewRow, LineIndex
<1> QED
  BY <1>1, <1>2, <1>3, <1>4

LEMMA SeenIs ==
  \A r \in RowType, b \in BOOLEAN, n \in Int :
    Seen(r, b, n) \in RowType /\ Seen(r, b, n).section = r.section
BY DEF RowType, Seen

LEMMA RowIs ==
  ASSUME NEW m, Ready(m), NEW x \in DOMAIN m.row
  PROVE  /\ NewRow(m, Layout(m), x) \in RowType
         /\ x = Placeholder => NewRow(m, Layout(m), x).section = "stashed"
         /\ x \in {ShowStash, Toggle} => NewRow(m, Layout(m), x).section = "tray-action"
         /\ x = Quick => NewRow(m, Layout(m), x).section = "fixed"
<1>1. m \in ModelSet /\ Internal \subseteq DOMAIN m.row /\ m.row \in Rows
  BY DEF Ready, ModelSet
<1>2. DOMAIN m.row \subseteq Internal \cup Surface /\ m.row[x] \in RowType
  BY <1>1, RowsOf
<1>3. LineIndex(m, x) \in Int
  BY <1>1, LineIndexIs
<1>4. m.actions \in BOOLEAN
  BY <1>1 DEF ModelSet
<1>5. /\ Layout(m).showStash \in BOOLEAN /\ Layout(m).toggle \in BOOLEAN
      /\ (Layout(m).stash = <<>> /\ Layout(m).showStash) \in BOOLEAN
  BY <1>1, <1>4, LayoutIs, Zenon
<1>6. CASE x \in Surface
  <2>1. PICK c \in Section : x \in ToSet(m.list[c])
    BY <1>6 DEF Ready
  <2>2. NewRow(m, Layout(m), x)
          = [section |-> c, visible |-> ItemVisible(m, c, x), dockVisible |-> x \notin m.dockHidden,
             index |-> IF c = "stashed" THEN NthOf(Layout(m).stash, x) - 1 ELSE LineIndex(m, x)]
    BY <1>6, <2>1, SurfaceRow
  <2>3. NthOf(Layout(m).stash, x) \in Int
    <3>1. "stashed" \in Section
      BY DEF Section
    <3>2. Layout(m).stash \in Seq(Item)
      BY <1>1, <3>1, ShownIs, LayoutIs
    <3>3. NthOf(Layout(m).stash, x) \in 0..Len(Layout(m).stash) /\ Len(Layout(m).stash) \in Nat
      BY <3>2, NthIs
    <3> QED
      BY <3>3
  <2>4. ItemVisible(m, c, x) \in BOOLEAN
    BY DEF ItemVisible
  <2>5. NewRow(m, Layout(m), x) \in RowType
    <3> DEFINE n == IF c = "stashed" THEN NthOf(Layout(m).stash, x) - 1 ELSE LineIndex(m, x)
               seen == ItemVisible(m, c, x)
    <3>1. n \in Int
      BY <1>3, <2>3
    <3>2. seen \in BOOLEAN
      BY <2>4
    <3>3. NewRow(m, Layout(m), x)
            = [section |-> c, visible |-> seen, dockVisible |-> x \notin m.dockHidden, index |-> n]
      BY <2>2
    <3> HIDE DEF n, seen
    <3> QED
      BY <3>1, <3>2, <3>3 DEF RowType
  <2>6. x \notin Internal
    BY <1>6, SurfaceAssumption
  <2> QED
    BY <2>5, <2>6 DEF Internal
<1>7. CASE x \in Internal
  <2>1. \A y \in Internal : m.row[y] \in RowType
    BY <1>1, RowsOf
  <2>2. /\ m.row[Placeholder].section = "stashed" /\ m.row[ShowStash].section = "tray-action"
        /\ m.row[Toggle].section = "tray-action"
    BY DEF Ready
  <2>3. LineIndex(m, Toggle) \in Int /\ LineIndex(m, Quick) \in Int
    BY <1>1, LineIndexIs
  <2>4. "fixed" \in Section
    BY DEF Section
  <2>5. ASSUME NEW r \in RowType, NEW b \in BOOLEAN, NEW n \in Int
        PROVE  /\ [r EXCEPT !.visible = b] \in RowType
               /\ [r EXCEPT !.visible = b].section = r.section
               /\ [r EXCEPT !.section = "fixed", !.index = n] \in RowType
               /\ [r EXCEPT !.section = "fixed", !.index = n].section = "fixed"
    BY <2>4 DEF RowType
  <2>6. {Placeholder, ShowStash, Toggle, Quick} \subseteq Internal
    BY DEF Internal
  <2>7. CASE x = Placeholder
    <3> DEFINE r == m.row[Placeholder]
               b == (Layout(m).stash = <<>> /\ Layout(m).showStash)
               n == 0
    <3>1. r \in RowType /\ b \in BOOLEAN /\ n \in Int
      BY <1>5, <2>1, <2>6
    <3> HIDE DEF r, b, n
    <3>2. NewRow(m, Layout(m), x) = [r EXCEPT !.visible = b]
      BY <2>7, InternalRow DEF r, b, n
    <3>3. r.section = "stashed"
      BY <2>2 DEF r
    <3>4. [r EXCEPT !.visible = b] \in RowType /\ [r EXCEPT !.visible = b].section = r.section
      BY <2>5, <3>1
    <3> QED
      BY <2>7, <3>2, <3>3, <3>4, InternalDiffers, Zenon
  <2>8. CASE x = ShowStash
    <3> DEFINE r == m.row[ShowStash]
               b == Layout(m).showStash
               n == IF Layout(m).showStash THEN 0 ELSE -1
    <3>1. r \in RowType /\ b \in BOOLEAN /\ n \in Int
      BY <1>5, <2>1, <2>6
    <3> HIDE DEF r, b, n
    <3>2. NewRow(m, Layout(m), x) = Seen(r, b, n)
      BY <2>8, InternalRow DEF r, b, n
    <3>3. r.section = "tray-action"
      BY <2>2 DEF r
    <3>4. Seen(r, b, n) \in RowType /\ Seen(r, b, n).section = r.section
      BY SeenIs, <3>1, Zenon
    <3> QED
      BY <2>8, <3>2, <3>3, <3>4, InternalDiffers, Zenon
  <2>9. CASE x = Toggle
    <3> DEFINE r == m.row[Toggle]
               b == Layout(m).toggle
               n == LineIndex(m, Toggle)
    <3>1. r \in RowType /\ b \in BOOLEAN /\ n \in Int
      BY <1>5, <2>1, <2>3, <2>6
    <3> HIDE DEF r, b, n
    <3>2. NewRow(m, Layout(m), x) = Seen(r, b, n)
      BY <2>9, InternalRow DEF r, b, n
    <3>3. r.section = "tray-action"
      BY <2>2 DEF r
    <3>4. Seen(r, b, n) \in RowType /\ Seen(r, b, n).section = r.section
      BY SeenIs, <3>1, Zenon
    <3> QED
      BY <2>9, <3>2, <3>3, <3>4, InternalDiffers, Zenon
  <2>10. CASE x = Quick
    <3> DEFINE r == m.row[Quick]
               b == TRUE
               n == LineIndex(m, Quick)
    <3>1. r \in RowType /\ b \in BOOLEAN /\ n \in Int
      BY <2>1, <2>3, <2>6
    <3> HIDE DEF r, b, n
    <3>2. NewRow(m, Layout(m), x) = [r EXCEPT !.section = "fixed", !.index = n]
      BY <2>10, InternalRow DEF r, b, n
    <3>4. [r EXCEPT !.section = "fixed", !.index = n] \in RowType /\ [r EXCEPT !.section = "fixed", !.index = n].section = "fixed"
      BY <2>5, <3>1
    <3> QED
      BY <2>10, <3>2, <3>4, InternalDiffers, Zenon
  <2> QED
    BY <1>7, <2>7, <2>8, <2>9, <2>10 DEF Internal
<1> QED
  BY <1>2, <1>6, <1>7

\* updateVisualIndexes changes the rows and the count only.
LEMMA LaidIs ==
  ASSUME NEW m, Ready(m)
  PROVE  /\ Laid(m) \in ModelSet
         /\ Laid(m).list = m.list /\ Laid(m).hidden = m.hidden
         /\ Laid(m).dockHidden = m.dockHidden /\ Laid(m).collapsed = m.collapsed
         /\ Laid(m).actions = m.actions /\ Laid(m).staged = m.staged
         /\ Laid(m).row = [x \in DOMAIN m.row |-> NewRow(m, Layout(m), x)]
         /\ Laid(m).count = IndexOfNth(Layout(m), Len(Layout(m).line)) + 1
         /\ Laid(m).count \in Nat
<1> DEFINE r == [x \in DOMAIN m.row |-> NewRow(m, Layout(m), x)]
           n == IndexOfNth(Layout(m), Len(Layout(m).line)) + 1
<1>1. m \in ModelSet /\ m.row \in Rows
  BY DEF Ready, ModelSet
<1>2. r \in Rows
  <2>1. \A x \in DOMAIN m.row : NewRow(m, Layout(m), x) \in RowType
    BY RowIs
  <2>2. DOMAIN m.row \subseteq Internal \cup Surface
    BY <1>1, RowsOf
  <2>3. DOMAIN r = DOMAIN m.row /\ r \in [DOMAIN m.row -> RowType]
    BY <2>1
  <2> HIDE DEF r
  <2> QED
    BY <2>2, <2>3, RowsOf
<1>3. n \in Nat
  <2>1. /\ Layout(m).reserving \in Nat /\ Layout(m).staged \in Int
        /\ Len(Layout(m).line) \in Nat /\ Len(Layout(m).line) > 0
    <3>1. /\ Len(ReservingItems(m)) \in Nat \ {0} /\ Len(Shown(m, "fixed")) \in Nat
          /\ Len(ReservingItems(m) \o Shown(m, "fixed"))
               = Len(ReservingItems(m)) + Len(Shown(m, "fixed"))
      <4>1. Shown(m, "fixed") \in Seq(DockItem)
        BY <1>1, LineItems
      <4> QED
        BY <1>1, <4>1, LineItems
    <3>2. Layout(m).staged \in Int
      BY <1>1, LayoutIs DEF ModelSet
    <3> QED
      BY <1>1, <3>1, <3>2, LayoutIs
  <2>2. IndexOfNth(Layout(m), Len(Layout(m).line)) \in Nat
    BY <2>1, IndexIs
  <2> QED
    BY <2>2
<1>4. Laid(m) = [m EXCEPT !.row = r, !.count = n]
  BY Zenon DEF Laid
<1> HIDE DEF r, n
<1>5. /\ Laid(m) \in ModelSet
      /\ Laid(m).list = m.list /\ Laid(m).hidden = m.hidden
      /\ Laid(m).dockHidden = m.dockHidden /\ Laid(m).collapsed = m.collapsed
      /\ Laid(m).actions = m.actions /\ Laid(m).staged = m.staged
      /\ Laid(m).row = r /\ Laid(m).count = n
  <2>1. /\ Laid(m).list = m.list /\ Laid(m).hidden = m.hidden
        /\ Laid(m).dockHidden = m.dockHidden /\ Laid(m).collapsed = m.collapsed
        /\ Laid(m).actions = m.actions /\ Laid(m).staged = m.staged
    BY <1>1, <1>4 DEF ModelSet
  <2>2. Laid(m).row = r /\ Laid(m).count = n
    BY <1>1, <1>4 DEF ModelSet
  <2>3. n \in Int
    BY <1>3
  <2>4. Laid(m) \in ModelSet
    BY <1>1, <1>2, <1>4, <2>3 DEF ModelSet
  <2> QED
    BY <2>1, <2>2, <2>4
<1> QED
  BY <1>3, <1>5 DEF r, n

LEMMA LaidSane ==
  ASSUME NEW m, Ready(m)
  PROVE  Sane(Laid(m))
<1> DEFINE k == Laid(m)
<1>1. /\ k \in ModelSet /\ k.list = m.list /\ k.staged = m.staged
      /\ k.row = [x \in DOMAIN m.row |-> NewRow(m, Layout(m), x)]
  BY LaidIs
<1> HIDE DEF k
<1>2. Internal \subseteq DOMAIN m.row /\ DOMAIN k.row = DOMAIN m.row
  BY <1>1 DEF Ready
<1>3. /\ k.row[Placeholder].section = "stashed"
      /\ k.row[ShowStash].section = "tray-action" /\ k.row[Toggle].section = "tray-action"
      /\ k.row[Quick].section = "fixed"
  BY <1>1, <1>2, RowIs DEF Internal
<1>4. \A s \in Surface \cap DOMAIN k.row : \E c \in Section \ Forbids[s] : s \in ToSet(k.list[c])
  BY <1>1, <1>2 DEF Ready
<1>5. ASSUME NEW s \in Surface \cap DOMAIN k.row
      PROVE  /\ k.row[s].section \in Section \ Forbids[s]
             /\ s \in ToSet(k.list[k.row[s].section])
  <2>1. PICK c \in Section \ Forbids[s] : s \in ToSet(m.list[c])
    BY <1>1, <1>4
  <2>2. k.row[s] = NewRow(m, Layout(m), s)
    BY <1>1, <1>2
  <2>3. k.row[s].section = c
    <3> DEFINE n == IF c = "stashed" THEN NthOf(Layout(m).stash, s) - 1 ELSE LineIndex(m, s)
               seen == ItemVisible(m, c, s)
    <3>1. k.row[s] = [section |-> c, visible |-> seen, dockVisible |-> s \notin m.dockHidden,
                      index |-> n]
      BY <1>2, <2>1, <2>2, SurfaceRow
    <3> HIDE DEF n, seen
    <3> QED
      BY <3>1
  <2> QED
    BY <1>1, <2>1, <2>3
<1>6. Once(k.list, Section) /\ StagedWell(k)
  BY <1>1 DEF Ready, StagedWell
<1>8. k.row[ShowStash].index \in {0, -1}
  <2> DEFINE b == Layout(m).showStash
             n == IF Layout(m).showStash THEN 0 ELSE -1
  <2>1. k.row[ShowStash] = Seen(m.row[ShowStash], b, n)
    BY <1>1, <1>2, InternalRow DEF Internal
  <2>2. n \in {0, -1}
    OBVIOUS
  <2>3. m.row[ShowStash] \in RowType
    <3>1. m.row \in Rows
      BY DEF Ready, ModelSet
    <3> QED
      BY <1>2, <3>1, RowsOf DEF Internal
  <2> HIDE DEF b, n
  <2>4. Seen(m.row[ShowStash], b, n).index = n
    BY <2>3 DEF Seen, RowType
  <2> QED
    BY <2>1, <2>2, <2>4
<1>7. Sane(k)
  BY <1>1, <1>2, <1>3, <1>4, <1>5, <1>6, <1>8 DEF Sane, Ready
<1> QED
  BY <1>7 DEF k

-----------------------------------------------------------------------------
(* A surface is put somewhere.                                               *)

\* The lists k are the lists l with the surface d taken out and put into "to".
MovedTo(l, k, d, to) ==
  /\ k \in Lists /\ Once(k, Section)
  /\ \A c \in Section : /\ Others(k, c, d) = Others(l, c, d)
                         /\ ToSet(k[c]) \ {d} = ToSet(l[c]) \ {d}
  /\ d \in ToSet(k[to])

LEMMA OthersAre ==
  ASSUME NEW l, NEW c, NEW d
  PROVE  Others(l, c, d) = Only(l[c], Surface \ {d})
BY DEF Others

LEMMA PutKeeps ==
  ASSUME NEW l \in Lists, Once(l, Section), NEW d \in Surface, NEW from \in Section,
         \A c \in Section : d \in ToSet(l[c]) => c = from, NEW to \in Section, NEW r, NEW k, NEW s \in Seq(Item),
         r = [l EXCEPT ![from] = RemoveFirst(@, d)],
         IsInjective(s), ToSet(s) = ToSet(r[to]) \cup {d},
         Only(s, Surface \ {d}) = Only(r[to], Surface \ {d}),
         k = [r EXCEPT ![to] = s]
  PROVE  MovedTo(l, k, d, to)
<1>1. l \in [Section -> Seq(Item)]
  BY DEF Lists, Item
<1>2. /\ RemoveFirst(l[from], d) \in Seq(Item) /\ IsInjective(RemoveFirst(l[from], d))
      /\ ToSet(RemoveFirst(l[from], d)) = ToSet(l[from]) \ {d}
      /\ Only(RemoveFirst(l[from], d), Surface \ {d}) = Only(l[from], Surface \ {d})
  <2>1. l[from] \in Seq(Item) /\ IsInjective(l[from]) /\ d \notin Surface \ {d}
    BY <1>1 DEF Once
  <2> QED
    BY <2>1, RemoveFirstItems
<1>3. \A c \in Section \ {from} : d \notin ToSet(l[c])
  OBVIOUS
<1>4. /\ r \in [Section -> Seq(Item)]
      /\ \A c \in Section : r[c] = IF c = from THEN RemoveFirst(l[c], d) ELSE l[c]
  BY <1>1, <1>2
<1>5. ASSUME NEW c \in Section
      PROVE  /\ ToSet(r[c]) = ToSet(l[c]) \ {d} /\ IsInjective(r[c])
             /\ Only(r[c], Surface \ {d}) = Only(l[c], Surface \ {d})
  <2>1. CASE c = from
    BY <1>2, <1>4, <2>1
  <2>2. CASE c # from
    BY <1>3, <1>4, <2>2 DEF Once
  <2> QED
    BY <2>1, <2>2
<1>6. /\ k \in [Section -> Seq(Item)]
      /\ \A c \in Section : k[c] = IF c = to THEN s ELSE r[c]
  BY <1>4
<1>7. \A c \in Section : /\ ToSet(k[c]) = (ToSet(l[c]) \ {d}) \cup (IF c = to THEN {d} ELSE {})
                         /\ IsInjective(k[c])
                         /\ Only(k[c], Surface \ {d}) = Only(l[c], Surface \ {d})
  BY <1>5, <1>6
<1>8. Placeholder # d
  BY SurfaceAssumption DEF Internal
<1>9. Once(k, Section)
  <2>1. \A b, c \in Section : b # c => ToSet(k[b]) \cap ToSet(k[c]) = {}
    <3> SUFFICES ASSUME NEW b \in Section, NEW c \in Section, b # c
                 PROVE  ToSet(k[b]) \cap ToSet(k[c]) = {}
      OBVIOUS
    <3>1. ToSet(l[b]) \cap ToSet(l[c]) = {}
      BY DEF Once
    <3>2. /\ ToSet(k[b]) = (ToSet(l[b]) \ {d}) \cup (IF b = to THEN {d} ELSE {})
          /\ ToSet(k[c]) = (ToSet(l[c]) \ {d}) \cup (IF c = to THEN {d} ELSE {})
      BY <1>7
    <3>3. d \notin ToSet(k[b]) \/ d \notin ToSet(k[c])
      BY <3>2
    <3>4. ASSUME NEW x, x \in ToSet(k[b]), x \in ToSet(k[c]) PROVE FALSE
      <4>1. x # d
        BY <3>3, <3>4
      <4>2. x \in ToSet(l[b]) /\ x \in ToSet(l[c])
        BY <3>2, <3>4, <4>1
      <4> QED
        BY <3>1, <4>2
    <3> QED
      BY <3>4
  <2>2. \A c \in Section : Placeholder \in ToSet(k[c]) => c = "stashed"
    <3>1. \A c \in Section : Placeholder \in ToSet(l[c]) => c = "stashed"
      BY DEF Once
    <3> QED
      BY <1>7, <1>8, <3>1
  <2> QED
    BY <1>7, <2>1, <2>2 DEF Once
<1> QED
  BY <1>6, <1>7, <1>9, OthersAre DEF MovedTo, Lists, Item

\* Into the list, or after its last item.
LEMMA InsertKeeps ==
  ASSUME NEW l \in Lists, Once(l, Section), NEW d \in Surface, NEW from \in Section,
         \A c \in Section : d \in ToSet(l[c]) => c = from, NEW to \in Section, NEW r, NEW k,
         r = [l EXCEPT ![from] = RemoveFirst(@, d)],
         \/ \E n \in 1..Len(r[to]) + 1 : k = [r EXCEPT ![to] = InsertAt(@, n, d)]
         \/ k = [r EXCEPT ![to] = Append(@, d)]
  PROVE  MovedTo(l, k, d, to)
<1>1. l \in [Section -> Seq(Item)] /\ d \in Item
  BY DEF Lists, Item
<1>2. /\ RemoveFirst(l[from], d) \in Seq(Item) /\ IsInjective(RemoveFirst(l[from], d))
      /\ d \notin ToSet(RemoveFirst(l[from], d))
  <2>1. l[from] \in Seq(Item) /\ IsInjective(l[from])
    BY <1>1 DEF Once
  <2> QED
    BY <2>1, RemoveFirstItems
<1>3. r[to] \in Seq(Item) /\ IsInjective(r[to]) /\ d \notin ToSet(r[to])
  <2>1. CASE to = from
    BY <1>1, <1>2, <2>1
  <2>2. CASE to # from
    <3>1. r[to] = l[to]
      BY <1>1, <2>2
    <3>2. IsInjective(l[to])
      BY DEF Once
    <3> QED
      BY <1>1, <2>2, <3>1, <3>2
  <2> QED
    BY <2>1, <2>2
<1>4. d \notin Surface \ {d}
  OBVIOUS
<1>5. CASE \E n \in 1..Len(r[to]) + 1 : k = [r EXCEPT ![to] = InsertAt(@, n, d)]
  <2>1. PICK n \in 1..Len(r[to]) + 1 : k = [r EXCEPT ![to] = InsertAt(@, n, d)]
    BY <1>5
  <2>2. PICK s : s = InsertAt(r[to], n, d)
    OBVIOUS
  <2>3. /\ s \in Seq(Item) /\ IsInjective(s) /\ ToSet(s) = ToSet(r[to]) \cup {d}
        /\ Only(s, Surface \ {d}) = Only(r[to], Surface \ {d})
    <3>1. Only(InsertAt(r[to], n, d), Surface \ {d}) = Only(r[to], Surface \ {d})
      <4> DEFINE old == r[to]
      <4>1. old \in Seq(Item) /\ n \in 1..Len(old) + 1
        BY <1>3, <2>1
      <4> HIDE DEF old
      <4>2. Only(InsertAt(old, n, d), Surface \ {d}) = Only(old, Surface \ {d})
        BY <1>1, <1>4, <4>1, OnlyInserted
      <4> QED
        BY <4>2 DEF old
    <3>2. /\ s \in Seq(Item) /\ ToSet(s) = ToSet(r[to]) \cup {d}
          /\ IsInjective(r[to]) /\ d \notin ToSet(r[to]) => IsInjective(s)
      <4> DEFINE old == r[to]
      <4>1. old \in Seq(Item) /\ n \in 1..Len(old) + 1 /\ s = InsertAt(old, n, d)
        BY <1>3, <2>2
      <4> HIDE DEF old
      <4>2. /\ s \in Seq(Item) /\ ToSet(s) = ToSet(old) \cup {d}
            /\ IsInjective(old) /\ d \notin ToSet(old) => IsInjective(s)
        BY <1>1, <4>1, InsertAtItems
      <4> QED
        BY <4>2 DEF old
    <3> QED
      BY <1>3, <2>2, <3>1, <3>2
  <2>4. k = [r EXCEPT ![to] = s]
    BY <2>1, <2>2
  <2> QED
    BY <2>3, <2>4, PutKeeps
<1>6. CASE k = [r EXCEPT ![to] = Append(@, d)]
  <2>1. PICK s : s = Append(r[to], d)
    OBVIOUS
  <2>2. /\ s \in Seq(Item) /\ IsInjective(s) /\ ToSet(s) = ToSet(r[to]) \cup {d}
    BY <1>1, <1>3, <2>1, AppendDiffers, AppendItems
  <2>3. Only(s, Surface \ {d}) = Only(r[to], Surface \ {d})
    BY <1>1, <1>3, <1>4, <2>1, OnlyAppend
  <2>4. k = [r EXCEPT ![to] = s]
    BY <1>6, <2>1
  <2> QED
    BY <2>2, <2>3, <2>4, PutKeeps
<1> QED
  BY <1>5, <1>6

LEMMA FrontIsInsert ==
  ASSUME NEW A, NEW s \in Seq(A), NEW x \in A
  PROVE  <<x>> \o s = InsertAt(s, 1, x)
<1>1. SubSeq(s, 1, 1 - 1) = <<>> /\ SubSeq(s, 1, Len(s)) = s
  OBVIOUS
<1>2. <<>> \o <<x>> = <<x>>
  OBVIOUS
<1> QED
  BY <1>1, <1>2, Zenon DEF InsertAt

\* Where a surface of a row is.
LEMMA RowSection ==
  ASSUME NEW m, Sane(m), NEW s \in Surface \cap DOMAIN m.row
  PROVE  /\ m.row[s].section \in Section \ Forbids[s] /\ m.list \in Lists
         /\ Once(m.list, Section) /\ s \in ToSet(m.list[m.row[s].section])
         /\ \A c \in Section : s \in ToSet(m.list[c]) => c = m.row[s].section
<1>1. /\ m.row[s].section \in Section \ Forbids[s] /\ m.list \in Lists
      /\ Once(m.list, Section) /\ s \in ToSet(m.list[m.row[s].section])
  BY DEF Sane, Ready, ModelSet
<1> QED
  BY <1>1 DEF Once

LEMMA PutLastIs ==
  ASSUME NEW m, Sane(m), NEW d \in Surface \cap DOMAIN m.row, NEW to \in Section
  PROVE  MovedTo(m.list, PutLast(m, d, to), d, to)
<1>1. PICK r : r = [m.list EXCEPT ![m.row[d].section] = RemoveFirst(@, d)]
  OBVIOUS
<1>2. PutLast(m, d, to) = [r EXCEPT ![to] = Append(@, d)]
  BY <1>1 DEF PutLast, Taken
<1> QED
  BY <1>1, <1>2, RowSection, InsertKeeps

LEMMA PutFirstIs ==
  ASSUME NEW m, Sane(m), NEW d \in Surface \cap DOMAIN m.row, NEW to \in Section
  PROVE  MovedTo(m.list, PutFirst(m, d, to), d, to)
<1>1. PICK r : r = [m.list EXCEPT ![m.row[d].section] = RemoveFirst(@, d)]
  OBVIOUS
<1>2. PutFirst(m, d, to) = [r EXCEPT ![to] = <<d>> \o @]
  BY <1>1 DEF PutFirst, Taken
<1>3. m.list \in [Section -> Seq(Item)] /\ d \in Item
  BY RowSection DEF Lists, Item
<1>4. r[to] \in Seq(Item)
  <2>1. \A c \in Section : RemoveFirst(m.list[c], d) \in Seq(Item)
    BY <1>3, RemoveFirstItems
  <2> QED
    BY <1>1, <1>3, <2>1
<1>5. <<d>> \o r[to] = InsertAt(r[to], 1, d) /\ 1 \in 1..Len(r[to]) + 1
  BY <1>3, <1>4, FrontIsInsert
<1>6. PutFirst(m, d, to) = [r EXCEPT ![to] = InsertAt(@, 1, d)]
  BY <1>2, <1>5
<1>7. \E n \in 1..Len(r[to]) + 1 : PutFirst(m, d, to) = [r EXCEPT ![to] = InsertAt(@, n, d)]
  BY <1>5, <1>6
<1>8. /\ m.row[d].section \in Section /\ m.list \in Lists /\ Once(m.list, Section)
      /\ \A c \in Section : d \in ToSet(m.list[c]) => c = m.row[d].section
  BY RowSection
<1> QED
  BY <1>1, <1>7, <1>8, InsertKeeps

LEMMA PutBesideIs ==
  ASSUME NEW m, Sane(m), NEW d \in Surface \cap DOMAIN m.row,
         NEW t \in Surface \cap DOMAIN m.row, t # d, NEW before \in BOOLEAN
  PROVE  MovedTo(m.list, PutBeside(m, d, t, before), d, m.row[t].section)
<1> DEFINE from == m.row[d].section
           sec == m.row[t].section
<1>1. PICK r : r = [m.list EXCEPT ![from] = RemoveFirst(@, d)]
  OBVIOUS
<1>2. /\ from \in Section /\ sec \in Section /\ m.list \in Lists /\ Once(m.list, Section)
      /\ d \in ToSet(m.list[from]) /\ t \in ToSet(m.list[sec])
      /\ \A c \in Section : d \in ToSet(m.list[c]) => c = from
  BY RowSection
<1>3. m.list \in [Section -> Seq(Item)]
  BY <1>2 DEF Lists, Item
<1>4. /\ NthOf(m.list[sec], t) \in 1..Len(m.list[sec]) /\ Len(m.list[sec]) \in Nat
  BY <1>2, <1>3, NthIs
<1>5. CASE sec = from
  <2> DEFINE target == NthOf(m.list[sec], t)
                         - (IF before /\ NthOf(m.list[sec], t) > 1 THEN 1 ELSE 0)
             rest == RemoveFirst(m.list[sec], d)
  <2>1. PutBeside(m, d, t, before) = [m.list EXCEPT ![sec] = InsertAt(rest, target, d)]
    BY <1>5, Zenon DEF PutBeside, MovedWithin
  <2>2. Len(rest) = Len(m.list[sec]) - 1
    BY <1>2, <1>3, <1>5, RemoveFirstItems
  <2>3. target \in 1..Len(m.list[sec])
    BY <1>4
  <2>4. r[sec] = rest
    BY <1>1, <1>3, <1>5, <1>2
  <2> HIDE DEF target, rest
  <2>5. target \in 1..Len(r[sec]) + 1
    BY <1>4, <2>2, <2>3, <2>4
  <2>6. PutBeside(m, d, t, before) = [r EXCEPT ![sec] = InsertAt(@, target, d)]
    BY <1>1, <1>2, <1>3, <1>5, <2>1, <2>4
  <2> HIDE DEF from, sec
  <2>7. MovedTo(m.list, PutBeside(m, d, t, before), d, sec)
    BY <1>1, <1>2, <2>5, <2>6, InsertKeeps
  <2> QED
    BY <2>7 DEF sec
<1>6. CASE sec # from
  <2> DEFINE at == NthOf(m.list[sec], t) + (IF before THEN 0 ELSE 1)
  <2>1. PutBeside(m, d, t, before) = [r EXCEPT ![sec] = InsertAt(@, at, d)]
    BY <1>1, <1>6, Zenon DEF PutBeside, Taken
  <2>2. r[sec] = m.list[sec]
    BY <1>1, <1>2, <1>3, <1>6
  <2>3. at \in 1..Len(r[sec]) + 1
    BY <1>4, <2>2
  <2> HIDE DEF from, sec, at
  <2>4. MovedTo(m.list, PutBeside(m, d, t, before), d, sec)
    BY <1>1, <1>2, <2>1, <2>3, InsertKeeps
  <2> QED
    BY <2>4 DEF sec
<1> QED
  BY <1>5, <1>6

\* A drop leaves the lists, or moves the dragged surface to where it may be.
LEMMA DroppedIs ==
  ASSUME NEW m, Sane(m), NEW d \in Surface \cap DOMAIN m.row, NEW i, NEW t \in ItemsAt(m, i),
         t = ShowStash => "stashed" \notin Forbids[d], NEW before \in BOOLEAN
  PROVE  \/ DroppedOn(m, d, t, before) = m.list
         \/ \E to \in Section \ Forbids[d] : MovedTo(m.list, DroppedOn(m, d, t, before), d, to)
<1>1. {"stashed", "collapsable", "pinned"} \subseteq Section
  BY DEF Section
<1>2. CASE t = ShowStash
  <2>1. DroppedOn(m, d, t, before) \in {m.list, PutLast(m, d, "stashed")}
    BY <1>2, InternalDiffers DEF DroppedOn
  <2> QED
    BY <1>1, <1>2, <2>1, PutLastIs
<1>3. CASE t = Toggle /\ before
  <2>1. \/ DroppedOn(m, d, t, before) = m.list
        \/ /\ "collapsable" \notin Forbids[d]
           /\ DroppedOn(m, d, t, before) = PutLast(m, d, "collapsable")
    BY <1>3, InternalDiffers DEF DroppedOn
  <2> QED
    BY <1>1, <2>1, PutLastIs
<1>4. CASE t = Toggle /\ ~before
  <2>1. \/ DroppedOn(m, d, t, before) = m.list
        \/ /\ "pinned" \notin Forbids[d]
           /\ DroppedOn(m, d, t, before) = PutFirst(m, d, "pinned")
    BY <1>4, InternalDiffers DEF DroppedOn
  <2> QED
    BY <1>1, <2>1, PutFirstIs
<1>5. CASE t = Quick
  <2>1. \/ DroppedOn(m, d, t, before) = m.list
        \/ /\ "pinned" \notin Forbids[d]
           /\ DroppedOn(m, d, t, before) = PutLast(m, d, "pinned")
    BY <1>5, InternalDiffers DEF DroppedOn
  <2> QED
    BY <1>1, <2>1, PutLastIs
<1>6. CASE t = d
  BY <1>6, InternalDiffers DEF DroppedOn
<1>7. CASE t \notin {ShowStash, Toggle, Quick, d}
  <2>1. /\ t \in DOMAIN m.row /\ m.row[t].section # "stashed"
    BY DEF ItemsAt
  <2>2. t \in Surface
    <3>1. t \in Internal \cup Surface /\ t # Placeholder
      BY <2>1, RowsOf DEF Sane, Ready, ModelSet
    <3> QED
      BY <1>7, <3>1 DEF Internal
  <2>3. \/ DroppedOn(m, d, t, before) = m.list
        \/ /\ m.row[t].section \notin Forbids[d]
           /\ DroppedOn(m, d, t, before) = PutBeside(m, d, t, before)
    BY <1>7 DEF DroppedOn
  <2>4. m.row[t].section \in Section
    BY <2>1, <2>2, RowSection
  <2> QED
    BY <1>7, <2>1, <2>2, <2>3, <2>4, PutBesideIs
<1> QED
  BY <1>2, <1>3, <1>4, <1>5, <1>6, <1>7

\* With the surface moved, or the lists left, the model is one whose rows can be written.
LEMMA MovedReady ==
  ASSUME NEW m, Ready(m), NEW d \in Surface, NEW k \in ModelSet,
         k.staged = m.staged,
         DOMAIN k.row \subseteq DOMAIN m.row \cup {d},
         \A x \in Internal : x \in DOMAIN k.row /\ k.row[x].section = m.row[x].section,
         \/ k.list = m.list /\ (d \in DOMAIN k.row => d \in DOMAIN m.row)
         \/ \E to \in Section \ Forbids[d] : MovedTo(m.list, k.list, d, to)
  PROVE  Ready(k)
<1>1. StagedWell(k)
  BY DEF Ready, StagedWell
<1>2. /\ Internal \subseteq DOMAIN k.row /\ k.row[Placeholder].section = "stashed"
      /\ k.row[ShowStash].section = "tray-action" /\ k.row[Toggle].section = "tray-action"
  BY DEF Ready, Internal
<1>3. Once(k.list, Section)
  BY DEF Ready, MovedTo
<1>4. ASSUME NEW s \in Surface \cap DOMAIN k.row
      PROVE  \E c \in Section \ Forbids[s] : s \in ToSet(k.list[c])
  <2>1. CASE k.list = m.list /\ (d \in DOMAIN k.row => d \in DOMAIN m.row)
    BY <2>1 DEF Ready
  <2>2. CASE \E to \in Section \ Forbids[d] : MovedTo(m.list, k.list, d, to)
    <3>1. CASE s = d
      BY <2>2, <3>1 DEF MovedTo
    <3>2. CASE s # d
      <4>1. PICK c \in Section \ Forbids[s] : s \in ToSet(m.list[c])
        BY <3>2 DEF Ready
      <4>2. ToSet(k.list[c]) \ {d} = ToSet(m.list[c]) \ {d}
        BY <2>2 DEF MovedTo
      <4> QED
        BY <3>2, <4>1, <4>2
    <3> QED
      BY <3>1, <3>2
  <2> QED
    BY <2>1, <2>2
<1> QED
  BY <1>1, <1>2, <1>3, <1>4 DEF Ready

-----------------------------------------------------------------------------
(* A surface is registered.                                                  *)

LEMMA FoundIs ==
  ASSUME NEW m, Ready(m), NEW s \in Surface
  PROVE  /\ FoundIn(m, s) \in Section
         /\ \A c \in Section : s \in ToSet(m.list[c]) => c = FoundIn(m, s)
         /\ MustLeave(m, s) => s \in ToSet(m.list[FoundIn(m, s)])
         /\ ~MustLeave(m, s) => FoundIn(m, s) \notin Forbids[s]
<1>1. m.list \in Lists /\ Once(m.list, Section) /\ m.list \in [Section -> Seq(Item)]
  BY DEF Ready, ModelSet, Lists, Item
<1>2. Prefers[s] \in Section /\ Prefers[s] \notin Forbids[s]
  BY SurfaceAssumption
<1>3. CASE SectionsWith(m, s) = {}
  <2>1. \A c \in Section : s \notin ToSet(m.list[c])
    <3>1. \A c \in Section : ~Contains(m.list[c], s)
      BY <1>3 DEF SectionsWith
    <3> QED
      BY <1>1, <3>1, ListContains
  <2>2. FoundIn(m, s) = Prefers[s] /\ ~MustLeave(m, s)
    BY <1>3 DEF FoundIn, MustLeave
  <2> QED
    BY <1>2, <2>1, <2>2
<1>4. CASE SectionsWith(m, s) # {}
  <2>1. PICK c \in Section : Contains(m.list[c], s)
    BY <1>4 DEF SectionsWith
  <2>2. s \in ToSet(m.list[c])
    BY <1>1, <2>1, ListContains
  <2>3. SectionsWith(m, s) = {c}
    BY <1>1, <2>2, OneSection
  <2>4. FoundIn(m, s) = c
    BY <2>3 DEF FoundIn
  <2>5. \A b \in Section : s \in ToSet(m.list[b]) => b = c
    BY <1>1, <2>2 DEF Once
  <2> QED
    BY <1>4, <2>2, <2>4, <2>5 DEF MustLeave
<1> QED
  BY <1>3, <1>4

\* findSection and registerToSection: the surface is in one list, where it may be.
LEMMA RegisteredIs ==
  ASSUME NEW m, Ready(m), NEW s \in Surface, s \notin DOMAIN m.row
  PROVE  LET k == Registered(m, s)
         IN  /\ k \in ModelSet /\ k.staged = m.staged
             /\ k.dockHidden = m.dockHidden /\ k.collapsed = m.collapsed
             /\ DOMAIN k.row = DOMAIN m.row \cup {s}
             /\ \A x \in DOMAIN m.row : k.row[x] = m.row[x]
             /\ \E to \in Section \ Forbids[s] : MovedTo(m.list, k.list, s, to)
             /\ Ready(k)
<1> DEFINE k == Registered(m, s)
           from == FoundIn(m, s)
           to == SectionFor(m, s)
           leaves == MustLeave(m, s)
<1>1. PICK l1 : l1 = [m.list EXCEPT ![from] = IF leaves THEN RemoveFirst(@, s) ELSE @]
  OBVIOUS
<1>2. PICK l2 : l2 = [l1 EXCEPT ![to] = IF Contains(@, s) THEN @ ELSE Append(@, s)]
  OBVIOUS
<1>3. PICK h : h = IF HidesByDefault(m, s) THEN m.hidden \cup {s} ELSE m.hidden
  OBVIOUS
<1>4. PICK r : r = [x \in DOMAIN m.row \cup {s} |-> IF x = s THEN Row(to) ELSE m.row[x]]
  OBVIOUS
<1>5. m \in ModelSet /\ m.list \in Lists /\ m.list \in [Section -> Seq(Item)]
      /\ m.row \in Rows /\ m.hidden \subseteq Surface /\ Once(m.list, Section)
  BY DEF Ready, ModelSet, Lists, Item
<1>6. k = WithNewRow(AfterFindSection(m, s), s, to)
  BY DEF Registered
<1>7. PICK a : a = AfterFindSection(m, s)
  OBVIOUS
<1>8. a = [m EXCEPT !.hidden = h, !.list = l1]
  BY <1>1, <1>3, <1>5, <1>7 DEF AfterFindSection, ModelSet
<1>9. s \in Item /\ to \in Section /\ from \in Section /\ to \notin Forbids[s]
  <2>1. from \in Section /\ (~leaves => from \notin Forbids[s])
    BY FoundIs
  <2>2. Prefers[s] \in Section /\ Prefers[s] \notin Forbids[s]
    BY SurfaceAssumption
  <2> QED
    BY <2>1, <2>2 DEF SectionFor, Item
<1>10. /\ \A c \in Section : s \in ToSet(m.list[c]) => c = from
       /\ leaves => s \in ToSet(m.list[from]) /\ to # from
       /\ ~leaves => to = from
  <2>1. leaves => from \in Forbids[s]
    BY DEF MustLeave
  <2>2. leaves => to = Prefers[s]
    BY DEF SectionFor
  <2>3. ~leaves => to = from
    BY DEF SectionFor
  <2> QED
    BY <1>9, <2>1, <2>3, FoundIs
<1> HIDE DEF from, to, leaves
<1>11. MovedTo(m.list, l2, s, to)
  <2>1. l1 \in [Section -> Seq(Item)]
    <3>1. RemoveFirst(m.list[from], s) \in Seq(Item)
      BY <1>5, <1>9, RemoveFirstItems
    <3> QED
      BY <1>1, <1>5, <3>1
  <2>2. Contains(l1[to], s) <=> s \in ToSet(l1[to])
    BY <1>9, <2>1, ListContains
  <2>3. CASE leaves
    <3>1. l1 = [m.list EXCEPT ![from] = RemoveFirst(@, s)]
      BY <1>1, <2>3
    <3>2. s \notin ToSet(l1[to])
      BY <1>5, <1>9, <1>10, <2>3, <3>1
    <3>3. l2 = [l1 EXCEPT ![to] = Append(@, s)]
      BY <1>2, <2>2, <3>2
    <3> QED
      BY <1>5, <1>9, <1>10, <3>1, <3>3, InsertKeeps
  <2>4. CASE ~leaves /\ s \notin ToSet(m.list[from])
    <3>1. l1 = m.list
      BY <1>1, <1>5, <1>9, <2>4
    <3>2. RemoveFirst(m.list[from], s) = m.list[from]
      BY <1>5, <1>9, <2>4, RemoveFirstItems
    <3>3. l1 = [m.list EXCEPT ![from] = RemoveFirst(@, s)]
      BY <1>5, <1>9, <3>1, <3>2
    <3>4. l2 = [l1 EXCEPT ![to] = Append(@, s)]
      BY <1>2, <1>10, <2>2, <2>4, <3>1
    <3> QED
      BY <1>5, <1>9, <1>10, <3>3, <3>4, InsertKeeps
  <2>5. CASE ~leaves /\ s \in ToSet(m.list[from])
    <3>1. l1 = m.list
      BY <1>1, <1>5, <1>9, <2>5
    <3>2. l2 = m.list
      BY <1>2, <1>5, <1>9, <1>10, <2>2, <2>5, <3>1
    <3> QED
      BY <1>5, <1>10, <2>5, <3>2 DEF MovedTo
  <2> QED
    BY <2>3, <2>4, <2>5
<1>12. l2 \in Lists
  BY <1>11 DEF MovedTo
<1>13. h \subseteq Surface
  BY <1>3, <1>5
<1>14. r \in Rows /\ DOMAIN r = DOMAIN m.row \cup {s} /\ \A x \in DOMAIN m.row : r[x] = m.row[x]
  <2>1. Row(to) \in RowType
    BY <1>9 DEF Row, RowType
  <2>2. DOMAIN m.row \cup {s} \subseteq Internal \cup Surface /\ m.row \in [DOMAIN m.row -> RowType]
    BY <1>5, RowsOf
  <2>3. DOMAIN r = DOMAIN m.row \cup {s} /\ r \in [DOMAIN m.row \cup {s} -> RowType]
    BY <1>4, <2>1, <2>2
  <2>4. r \in Rows
    BY <2>2, <2>3, RowsOf
  <2> QED
    BY <1>4, <2>3, <2>4
<1>15. a.row = m.row /\ a.list = l1 /\ a.hidden = h /\ a.dockHidden = m.dockHidden
       /\ a.collapsed = m.collapsed /\ a.staged = m.staged /\ a.actions = m.actions
       /\ a.count = m.count
  BY <1>5, <1>8 DEF ModelSet
<1>16. k = [a EXCEPT !.row = r, !.list = l2]
  <2>1. k = WithNewRow(a, s, to)
    BY <1>6, <1>7 DEF to
  <2> HIDE DEF k
  <2> QED
    BY <1>2, <1>4, <1>15, <2>1 DEF WithNewRow
<1> HIDE DEF k
<1>17. k = [m EXCEPT !.hidden = h, !.list = l2, !.row = r]
  BY <1>5, <1>8, <1>16 DEF ModelSet
<1>18. /\ k.staged = m.staged /\ k.dockHidden = m.dockHidden /\ k.collapsed = m.collapsed
       /\ k.row = r /\ k.list = l2
  BY <1>5, <1>17 DEF ModelSet
<1>19. k \in ModelSet
  BY <1>5, <1>12, <1>13, <1>14, <1>17 DEF ModelSet
<1>20. Ready(k)
  <2>1. Internal \subseteq DOMAIN m.row
    BY DEF Ready
  <2> QED
    BY <1>9, <1>11, <1>14, <1>18, <1>19, <2>1, MovedReady
<1>21. \E c \in Section \ Forbids[s] : MovedTo(m.list, k.list, s, c)
  BY <1>9, <1>11, <1>18
<1> QED
  BY <1>14, <1>18, <1>19, <1>20, <1>21 DEF k

-----------------------------------------------------------------------------
(* The model and the configuration.                                          *)

Saved == Section \ {"fixed"}
ConfigSet == [list : SavedLists, hidden : SUBSET Surface, dockHidden : SUBSET Surface,
              collapsed : BOOLEAN]
CallSet == [id : Surface, visible : BOOLEAN]

\* The lists l of a model are the saved ones, but for the placeholder of an empty stash.
SameLists(l, saved) ==
  \A c \in Saved :
    \/ l[c] = saved[c]
    \/ /\ c = "stashed" /\ Placeholder \notin ToSet(saved[c])
       /\ l[c] = Append(saved[c], Placeholder)

\* The model m and the settings have what the configuration c has, as far as they heard.
InStep(m, c) ==
  /\ SameLists(m.list, c.list) /\ m.collapsed = c.collapsed
  /\ "model" \notin told => m.hidden = c.hidden /\ m.dockHidden = c.dockHidden

TrayInv ==
  /\ Sane(model) /\ \E m : Ready(m) /\ model = Laid(m)
  /\ avail = Surface \cap DOMAIN model.row
  /\ config \in ConfigSet /\ Once(config.list, Saved)
  /\ InStep(model, config)
  /\ "settings" \notin told => settings = config.hidden
  /\ settings \subseteq Surface /\ calls \in Seq(CallSet) /\ told \subseteq {"model", "settings"}

\* After a step the model is one whose rows were written.
LEMMA StepLaid ==
  ASSUME NEW m, Ready(m), model' = Laid(m), avail' = Surface \cap DOMAIN m.row,
         config' \in ConfigSet, Once(config'.list, Saved),
         SameLists(m.list, config'.list), m.collapsed = config'.collapsed,
         "model" \notin told' => m.hidden = config'.hidden /\ m.dockHidden = config'.dockHidden,
         "settings" \notin told' => settings' = config'.hidden,
         settings' \subseteq Surface, calls' \in Seq(CallSet), told' \subseteq {"model", "settings"}
  PROVE  TrayInv'
<1>1. Sane(model') /\ \E k : Ready(k) /\ model' = Laid(k)
  BY LaidSane
<1>2. /\ model'.list = m.list /\ model'.hidden = m.hidden /\ model'.dockHidden = m.dockHidden
      /\ model'.collapsed = m.collapsed /\ DOMAIN model'.row = DOMAIN m.row
  BY LaidIs
<1>3. InStep(model, config)'
  BY <1>2 DEF InStep
<1> QED
  BY <1>1, <1>2, <1>3 DEF TrayInv

\* What is saved are the lists but the fixed one.
LEMMA SavedIs ==
  ASSUME NEW m, Ready(m), NEW l, l = [c \in Section \ {"fixed"} |-> m.list[c]]
  PROVE  l \in SavedLists /\ Once(l, Saved) /\ SameLists(m.list, l)
<1>1. m.list \in [Section -> Seq(Surface \cup {Placeholder})] /\ Once(m.list, Section)
  BY DEF Ready, ModelSet, Lists
<1>2. \A c \in Saved : l[c] = m.list[c] /\ c \in Section
  BY DEF Saved
<1> QED
  BY <1>1, <1>2 DEF SavedLists, Once, SameLists, Saved

\* Who has to hear of a write.
LEMMA WriteIs ==
  ASSUME told \subseteq {"model", "settings"}, NEW c, Write(c)
  PROVE  /\ config' = c /\ told' \subseteq {"model", "settings"} /\ told \subseteq told'
         /\ c.hidden # config.hidden => "model" \in told' /\ "settings" \in told'
         /\ c.dockHidden # config.dockHidden => "model" \in told'
BY DEF Write

LEMMA ModelParts ==
  ASSUME NEW m, m \in ModelSet
  PROVE  /\ m.list \in Lists /\ m.hidden \subseteq Surface /\ m.dockHidden \subseteq Surface
         /\ m.collapsed \in BOOLEAN /\ m.actions \in BOOLEAN /\ m.row \in Rows
         /\ m.staged.id \in Surface \cup {NoSurface} /\ m.staged.index \in Int
BY DEF ModelSet

LEMMA ConfigParts ==
  ASSUME NEW c, c \in ConfigSet
  PROVE  /\ c.list \in SavedLists /\ c.hidden \subseteq Surface /\ c.dockHidden \subseteq Surface
         /\ c.collapsed \in BOOLEAN
BY DEF ConfigSet

\* The lists and the hidden surfaces are saved.
LEMMA SurfacesSaved ==
  ASSUME TrayInv, NEW m, Ready(m), m.dockHidden = model.dockHidden,
         m.collapsed = model.collapsed, avail' = Surface \cap DOMAIN m.row,
         AvailableSurfacesChanged(m), calls' \in Seq(CallSet)
  PROVE  TrayInv'
<1> DEFINE c == SavedHidden(SavedOrder(config, m), m)
           l == [b \in Section \ {"fixed"} |-> m.list[b]]
<1>1. l \in SavedLists /\ Once(l, Saved) /\ SameLists(m.list, l)
  BY SavedIs
<1>2. model' = Laid(m) /\ Write(c) /\ settings' = settings
  BY DEF AvailableSurfacesChanged
<1>3. config \in ConfigSet /\ m.hidden \subseteq Surface
  BY ModelParts DEF TrayInv, Ready
<1> HIDE DEF l
<1>4. /\ c \in ConfigSet /\ c.list = l /\ c.hidden = m.hidden
      /\ c.dockHidden = config.dockHidden /\ c.collapsed = config.collapsed
  BY <1>1, <1>3 DEF SavedHidden, SavedOrder, ConfigSet, l
<1> HIDE DEF c
<1>5. /\ config' = c /\ told' \subseteq {"model", "settings"} /\ told \subseteq told'
      /\ c.hidden # config.hidden => "model" \in told' /\ "settings" \in told'
  BY <1>2, WriteIs DEF TrayInv
<1>6. /\ m.collapsed = c.collapsed
      /\ "model" \notin told' => m.hidden = c.hidden /\ m.dockHidden = c.dockHidden
      /\ "settings" \notin told' => settings' = c.hidden
      /\ settings' \subseteq Surface
  BY <1>2, <1>4, <1>5 DEF TrayInv, InStep
<1> QED
  BY <1>1, <1>2, <1>4, <1>5, <1>6, StepLaid

LEMMA CreatedStep ==
  ASSUME TrayInv, NEW s \in Surface, SurfaceCreated(s)
  PROVE  TrayInv' /\ \E to \in Section : MovedTo(model.list, model'.list, s, to)
<1>1. Ready(model) /\ avail = Surface \cap DOMAIN model.row
  BY DEF TrayInv, Sane
<1>2. PICK k : k = Registered(model, s)
  OBVIOUS
<1>3. /\ s \notin avail /\ avail' = avail \cup {s} /\ AvailableSurfacesChanged(k)
      /\ calls' = calls \/ calls' = Called(calls, s, FALSE)
  BY <1>2 DEF SurfaceCreated
<1>4. s \notin DOMAIN model.row
  BY <1>1, <1>3
<1>5. /\ Ready(k) /\ k.dockHidden = model.dockHidden /\ k.collapsed = model.collapsed
      /\ DOMAIN k.row = DOMAIN model.row \cup {s}
      /\ \E to \in Section \ Forbids[s] : MovedTo(model.list, k.list, s, to)
  BY <1>1, <1>2, <1>4, RegisteredIs
<1>6. calls' \in Seq(CallSet)
  <2>1. calls \in Seq(CallSet)
    BY DEF TrayInv
  <2>2. [id |-> s, visible |-> FALSE] \in CallSet
    BY DEF CallSet
  <2> QED
    BY <1>3, <2>1, <2>2 DEF Called
<1>7. avail' = Surface \cap DOMAIN k.row
  BY <1>1, <1>3, <1>5
<1>8. model'.list = k.list
  BY <1>3, <1>5, LaidIs DEF AvailableSurfacesChanged
<1> QED
  BY <1>3, <1>5, <1>6, <1>7, <1>8, SurfacesSaved

\* Coming and going leave alone what is hidden from the dock.
LEMMA CreatedKeeps ==
  ASSUME TrayInv, NEW s \in Surface, SurfaceCreated(s) \/ SurfaceDestroyed(s)
  PROVE  config'.dockHidden = config.dockHidden
<1>1. \E m : Write(SavedHidden(SavedOrder(config, m), m))
  BY DEF SurfaceCreated, SurfaceDestroyed, AvailableSurfacesChanged
<1>2. config \in ConfigSet
  BY DEF TrayInv
<1>3. \A m : SavedHidden(SavedOrder(config, m), m).dockHidden = config.dockHidden
  BY <1>2 DEF SavedHidden, SavedOrder, ConfigSet
<1> QED
  BY <1>1, <1>3 DEF Write

LEMMA DestroyedStep ==
  ASSUME TrayInv, NEW s \in Surface, SurfaceDestroyed(s)
  PROVE  TrayInv' /\ model'.list = model.list
<1>1. Ready(model) /\ avail = Surface \cap DOMAIN model.row
  BY DEF TrayInv, Sane
<1>2. PICK k : k = OnlyRows(model, avail')
  OBVIOUS
<1>3. avail' = avail \ {s} /\ AvailableSurfacesChanged(k) /\ calls' = calls
  BY <1>2 DEF SurfaceDestroyed
<1>4. PICK r : r = [x \in DOMAIN model.row \cap (Internal \cup avail') |-> model.row[x]]
  OBVIOUS
<1>5. model \in ModelSet /\ model.row \in Rows
  BY <1>1 DEF Ready, ModelSet
<1>6. r \in Rows /\ DOMAIN r = DOMAIN model.row \cap (Internal \cup avail')
      /\ \A x \in DOMAIN r : r[x] = model.row[x]
  <2>1. DOMAIN model.row \subseteq Internal \cup Surface /\ model.row \in [DOMAIN model.row -> RowType]
    BY <1>5, RowsOf
  <2>2. /\ DOMAIN r = DOMAIN model.row \cap (Internal \cup avail')
        /\ \A x \in DOMAIN r : r[x] = model.row[x]
        /\ r \in [DOMAIN r -> RowType]
    BY <1>4, <2>1
  <2> QED
    BY <2>1, <2>2, RowsOf
<1>7. k = [model EXCEPT !.row = r]
  BY <1>2, <1>4, <1>5 DEF OnlyRows
<1>8. /\ k \in ModelSet /\ k.row = r /\ k.list = model.list /\ k.staged = model.staged
      /\ k.dockHidden = model.dockHidden /\ k.collapsed = model.collapsed
  BY <1>5, <1>6, <1>7 DEF ModelSet
<1>9. Internal \subseteq DOMAIN model.row
  BY <1>1 DEF Ready
<1>10. Ready(k)
  BY <1>1, <1>6, <1>8, <1>9, MovedReady
<1>11. avail' = Surface \cap DOMAIN k.row
  <2>1. Internal \cap Surface = {}
    BY SurfaceAssumption
  <2> QED
    BY <1>1, <1>3, <1>6, <1>8, <2>1
<1>12. calls' \in Seq(CallSet)
  BY <1>3 DEF TrayInv
<1>13. model'.list = k.list
  BY <1>3, <1>10, LaidIs DEF AvailableSurfacesChanged
<1> QED
  BY <1>3, <1>8, <1>10, <1>11, <1>12, <1>13, SurfacesSaved

-----------------------------------------------------------------------------
(* Drops.                                                                    *)

\* What a drop may do to the lists.
Moves(l, k, d) == l = k \/ \E to \in Section \ Forbids[d] : MovedTo(l, k, d, to)

\* A model like the dock's, but for its numbers.
Alike(m) ==
  /\ Ready(m) /\ m.list = model.list /\ m.hidden = model.hidden
  /\ m.dockHidden = model.dockHidden /\ m.collapsed = model.collapsed
  /\ DOMAIN m.row = DOMAIN model.row

\* Nothing is saved, and the model stays what it was but for its rows.
LEMMA UnsavedStep ==
  ASSUME TrayInv, NEW m, Alike(m), model' = Laid(m), UNCHANGED <<avail, config, settings, calls, told>>
  PROVE  TrayInv' /\ model'.list = model.list /\ config' = config
<1>1. /\ SameLists(m.list, config.list) /\ m.collapsed = config.collapsed
      /\ "model" \notin told => m.hidden = config.hidden /\ m.dockHidden = config.dockHidden
  BY DEF TrayInv, InStep, Alike
<1>2. model'.list = model.list
  BY LaidIs DEF Alike
<1>3. TrayInv'
  BY <1>1, StepLaid DEF TrayInv, Alike
<1> QED
  BY <1>2, <1>3

\* Everything is saved.
LEMMA DataSaved ==
  ASSUME TrayInv, NEW m, Ready(m), DOMAIN m.row = DOMAIN model.row, model' = Laid(m),
         Write(SavedData(config, m)), avail' = avail, settings' = settings, calls' \in Seq(CallSet)
  PROVE  TrayInv' /\ model'.list = m.list /\ config'.dockHidden = m.dockHidden
<1> DEFINE c == SavedData(config, m)
           l == [b \in Section \ {"fixed"} |-> m.list[b]]
<1>1. l \in SavedLists /\ Once(l, Saved) /\ SameLists(m.list, l)
  BY SavedIs
<1>2. config \in ConfigSet /\ m.hidden \subseteq Surface /\ m.dockHidden \subseteq Surface
      /\ m.collapsed \in BOOLEAN
  BY ModelParts DEF TrayInv, Ready
<1> HIDE DEF l
<1>3. /\ c \in ConfigSet /\ c.list = l /\ c.hidden = m.hidden
      /\ c.dockHidden = m.dockHidden /\ c.collapsed = m.collapsed
  <2>1. PICK a : a = SavedOrder(config, m)
    OBVIOUS
  <2>2. a \in ConfigSet /\ a.list = l
    BY <1>1, <1>2, <2>1 DEF SavedOrder, ConfigSet, l
  <2>3. PICK b : b = SavedHidden(a, m)
    OBVIOUS
  <2>4. b \in ConfigSet /\ b.list = l /\ b.hidden = m.hidden
    BY <1>2, <2>2, <2>3 DEF SavedHidden, ConfigSet
  <2>5. PICK e : e = SavedDockHidden(b, m)
    OBVIOUS
  <2>6. e \in ConfigSet /\ e.list = l /\ e.hidden = m.hidden /\ e.dockHidden = m.dockHidden
    BY <1>2, <2>4, <2>5 DEF SavedDockHidden, ConfigSet
  <2>7. c = [e EXCEPT !.collapsed = m.collapsed]
    BY <2>1, <2>3, <2>5 DEF SavedData, SavedCollapsed
  <2> HIDE DEF c
  <2> QED
    BY <1>2, <2>6, <2>7 DEF ConfigSet
<1> HIDE DEF c
<1>4. /\ config' = c /\ told' \subseteq {"model", "settings"} /\ told \subseteq told'
      /\ c.hidden # config.hidden => "model" \in told' /\ "settings" \in told'
  BY WriteIs DEF TrayInv, c
<1>5. /\ "settings" \notin told' => settings' = c.hidden
      /\ settings' \subseteq Surface /\ avail' = Surface \cap DOMAIN m.row
  BY <1>3, <1>4 DEF TrayInv
<1>6. model'.list = m.list
  BY LaidIs
<1> QED
  BY <1>1, <1>3, <1>4, <1>5, <1>6, StepLaid

LEMMA DropStep ==
  ASSUME TrayInv, NEW m, Sane(m), Alike(m), NEW d \in Surface, NEW i, NEW before \in BOOLEAN,
         NEW after \in BOOLEAN, DropToDockTray(m, d, i, before, after),
         ShowStash \in ItemsAt(m, i) => "stashed" \notin Forbids[d]
  PROVE  /\ TrayInv' /\ Moves(model.list, model'.list, d)
         /\ "model" \notin told => config.dockHidden = config'.dockHidden
<1>1. m \in ModelSet /\ Ready(m) /\ Internal \subseteq DOMAIN m.row /\ m.list \in Lists
      /\ m.hidden \subseteq Surface
  BY ModelParts DEF Sane, Ready
<1>2. avail' = avail /\ settings' = settings
  BY DEF DropToDockTray
<1>3. CASE /\ model' = Laid([m EXCEPT !.actions = after])
           /\ UNCHANGED <<config, told, calls>>
  <2> DEFINE k == [m EXCEPT !.actions = after]
  <2>1. /\ k \in ModelSet /\ k.list = m.list /\ k.staged = m.staged /\ k.row = m.row
        /\ k.hidden = m.hidden /\ k.dockHidden = m.dockHidden /\ k.collapsed = m.collapsed
    BY <1>1 DEF ModelSet
  <2> HIDE DEF k
  <2>2. Ready(k)
    BY <1>1, <2>1, MovedReady
  <2>3. Alike(k)
    BY <2>1, <2>2 DEF Alike
  <2>4. TrayInv' /\ model'.list = model.list /\ config' = config
    BY <1>2, <1>3, <2>3, UnsavedStep DEF k
  <2> QED
    BY <2>4 DEF Moves
<1>4. ASSUME NEW t \in ItemsAt(m, i), d \in DOMAIN m.row,
             calls' = IF d \in m.hidden THEN Called(calls, d, TRUE) ELSE calls,
             LET dropped == [m EXCEPT !.list = DroppedOn(m, d, t, before),
                                      !.hidden = @ \ {d}, !.actions = after]
             IN  model' = Laid(dropped) /\ Write(SavedData(config, dropped))
      PROVE  /\ TrayInv' /\ Moves(model.list, model'.list, d)
             /\ "model" \notin told => config.dockHidden = config'.dockHidden
  <2>1. PICK l : l = DroppedOn(m, d, t, before)
    OBVIOUS
  <2>2. l = m.list \/ \E to \in Section \ Forbids[d] : MovedTo(m.list, l, d, to)
    BY <1>4, <2>1, DroppedIs
  <2>3. l \in Lists
    BY <1>1, <2>2 DEF MovedTo
  <2>4. PICK k : k = [m EXCEPT !.list = l, !.hidden = @ \ {d}, !.actions = after]
    OBVIOUS
  <2>5. /\ k \in ModelSet /\ k.list = l /\ k.staged = m.staged /\ k.row = m.row
        /\ k.dockHidden = m.dockHidden
    BY <1>1, <2>3, <2>4 DEF ModelSet
  <2>6. model' = Laid(k) /\ Write(SavedData(config, k))
    BY <1>4, <2>1, <2>4
  <2>7. Ready(k)
    BY <1>1, <1>4, <2>2, <2>5, MovedReady
  <2>8. calls' \in Seq(CallSet)
    <3>1. calls \in Seq(CallSet)
      BY DEF TrayInv
    <3>2. [id |-> d, visible |-> TRUE] \in CallSet
      BY DEF CallSet
    <3> QED
      BY <1>4, <3>1, <3>2 DEF Called
  <2>9. DOMAIN k.row = DOMAIN model.row
    BY <2>5 DEF Alike
  <2>10. TrayInv' /\ model'.list = k.list /\ config'.dockHidden = k.dockHidden
    BY <1>2, <2>6, <2>7, <2>8, <2>9, DataSaved
  <2>11. Moves(model.list, model'.list, d)
    BY <2>2, <2>5, <2>10 DEF Moves, Alike
  <2>12. "model" \notin told => config.dockHidden = config'.dockHidden
    BY <2>5, <2>10 DEF TrayInv, InStep, Alike
  <2> QED
    BY <2>10, <2>11, <2>12
<1> QED
  BY <1>3, <1>4 DEF DropToDockTray

\* The stash's button has the number 0, and who may drop there may be in the stash.
LEMMA StashTarget ==
  ASSUME NEW m, Sane(m), NEW d \in Surface, NEW i \in Nat, ShowStash \in ItemsAt(m, i),
         i = 0 /\ m.row[ShowStash].visible => d \in AppTray
  PROVE  "stashed" \notin Forbids[d]
<1>1. m.row[ShowStash].index = i /\ m.row[ShowStash].visible
  BY DEF ItemsAt
<1>2. i = 0
  BY <1>1 DEF Sane
<1> QED
  BY <1>1, <1>2, AppTrayAssumption

LEMMA ModelAlike == ASSUME TrayInv PROVE Sane(model) /\ Alike(model)
BY DEF TrayInv, Sane, Alike

LEMMA DragStep ==
  ASSUME TrayInv, NEW d \in Surface, NEW i \in 0..MaxIndex, NEW before \in BOOLEAN,
         HoverDrop(d, i, before) \/ ReleaseDrop(d, i, before)
  PROVE  /\ TrayInv' /\ Moves(model.list, model'.list, d)
         /\ "model" \notin told => config.dockHidden = config'.dockHidden
<1>1. i \in Nat
  BY SurfaceAssumption
<1>2. /\ \E after \in BOOLEAN : DropToDockTray(model, d, i, before, after)
      /\ i = 0 /\ model.row[ShowStash].visible => d \in AppTray
  BY DEF HoverDrop, ReleaseDrop, MayDropAt
<1>3. ShowStash \in ItemsAt(model, i) => "stashed" \notin Forbids[d]
  BY <1>1, <1>2, ModelAlike, StashTarget
<1> QED
  BY <1>2, <1>3, ModelAlike, DropStep

LEMMA DropToStashStep ==
  ASSUME TrayInv, NEW d \in Surface, DropToStash(d)
  PROVE  /\ TrayInv' /\ Moves(model.list, model'.list, d)
         /\ "model" \notin told => config.dockHidden = config'.dockHidden
<1>1. Sane(model) /\ Ready(model) /\ model \in ModelSet /\ "stashed" \in Section
  BY DEF TrayInv, Sane, Ready, Section
<1>2. PICK l : l = IF model.row[d].section = "stashed" THEN model.list ELSE PutLast(model, d, "stashed")
  OBVIOUS
<1>3. PICK k : k = IF model.row[d].section = "stashed" THEN model
                   ELSE [model EXCEPT !.list = PutLast(model, d, "stashed")]
  OBVIOUS
<1>4. /\ d \in DOMAIN model.row /\ "stashed" \notin Forbids[d]
      /\ model' = Laid(k) /\ Write(SavedData(config, k)) /\ UNCHANGED <<avail, settings, calls>>
  BY <1>3 DEF DropToStash
<1>5. l = model.list \/ MovedTo(model.list, l, d, "stashed")
  BY <1>1, <1>2, <1>4, PutLastIs
<1>6. l \in Lists
  BY <1>1, <1>5, ModelParts DEF MovedTo
<1>7. /\ k \in ModelSet /\ k.list = l /\ k.row = model.row /\ k.staged = model.staged
      /\ k.dockHidden = model.dockHidden
  <2>1. k = [model EXCEPT !.list = l] \/ (k = model /\ l = model.list)
    BY <1>2, <1>3
  <2> QED
    BY <1>1, <1>6, <2>1 DEF ModelSet
<1>8. Ready(k)
  <2>1. Internal \subseteq DOMAIN model.row
    BY <1>1 DEF Ready
  <2> QED
    BY <1>1, <1>4, <1>5, <1>7, <2>1, MovedReady
<1>9. TrayInv' /\ model'.list = k.list /\ config'.dockHidden = k.dockHidden
  BY <1>4, <1>7, <1>8, DataSaved DEF TrayInv
<1>10. Moves(model.list, model'.list, d)
  BY <1>1, <1>4, <1>5, <1>7, <1>9 DEF Moves
<1> QED
  BY <1>7, <1>9, <1>10 DEF TrayInv, InStep

\* Only the fields that a drag uses change.
LEMMA FieldsAlike ==
  ASSUME TrayInv, NEW k \in ModelSet, k.list = model.list, k.hidden = model.hidden,
         k.dockHidden = model.dockHidden, k.collapsed = model.collapsed, k.row = model.row,
         StagedWell(k)
  PROVE  Alike(k)
BY DEF TrayInv, Sane, Ready, Alike

LEMMA PointerStep ==
  ASSUME TrayInv,
         \/ \E d \in Surface, i \in 0..MaxIndex : StageDropPosition(d, i)
         \/ DragEnter \/ DragExit
  PROVE  TrayInv' /\ model'.list = model.list /\ config' = config
<1>1. Ready(model) /\ model \in ModelSet
  BY DEF TrayInv, Sane, Ready
<1>3. ASSUME NEW d \in Surface, NEW i \in 0..MaxIndex, StageDropPosition(d, i)
      PROVE  TrayInv' /\ model'.list = model.list /\ config' = config
  <2>1. PICK k : k = [model EXCEPT !.staged = [id |-> d, index |-> i]]
    OBVIOUS
  <2>2. i \in Int /\ i > 0 /\ d # NoSurface
    BY <1>3, SurfaceAssumption DEF StageDropPosition
  <2>3. /\ k \in ModelSet /\ k.list = model.list /\ k.hidden = model.hidden
        /\ k.dockHidden = model.dockHidden /\ k.collapsed = model.collapsed
        /\ k.row = model.row /\ k.staged = [id |-> d, index |-> i]
    BY <1>1, <2>1, <2>2 DEF ModelSet
  <2>4. Alike(k)
    BY <2>2, <2>3, FieldsAlike DEF StagedWell
  <2>5. model' = Laid(k) /\ UNCHANGED <<avail, config, settings, calls, told>>
    BY <1>3, <2>1 DEF StageDropPosition
  <2> QED
    BY <2>4, <2>5, UnsavedStep
<1>4. CASE DragEnter
  <2>1. PICK k : k = [model EXCEPT !.actions = TRUE]
    OBVIOUS
  <2>2. /\ k \in ModelSet /\ k.list = model.list /\ k.hidden = model.hidden
        /\ k.dockHidden = model.dockHidden /\ k.collapsed = model.collapsed
        /\ k.row = model.row /\ k.staged = model.staged
    BY <1>1, <2>1 DEF ModelSet
  <2>3. Alike(k)
    BY <1>1, <2>2, FieldsAlike DEF Ready, StagedWell
  <2>4. model' = Laid(k) /\ UNCHANGED <<avail, config, settings, calls, told>>
    BY <1>4, <2>1 DEF DragEnter
  <2> QED
    BY <2>3, <2>4, UnsavedStep
<1>5. CASE DragExit
  <2>1. PICK k : k = [model EXCEPT !.actions = FALSE, !.staged = NotStaged]
    OBVIOUS
  <2>2. NotStaged \in [id : Surface \cup {NoSurface}, index : Int] /\ NotStaged.index = -1
      /\ NotStaged.id = NoSurface
    BY DEF NotStaged
  <2>3. /\ k \in ModelSet /\ k.list = model.list /\ k.hidden = model.hidden
        /\ k.dockHidden = model.dockHidden /\ k.collapsed = model.collapsed
        /\ k.row = model.row /\ k.staged = NotStaged
    BY <1>1, <2>1, <2>2 DEF ModelSet
  <2>4. Alike(k)
    BY <2>2, <2>3, FieldsAlike DEF StagedWell
  <2>5. model' = Laid(k) /\ UNCHANGED <<avail, config, settings, calls, told>>
    BY <1>5, <2>1 DEF DragExit
  <2> QED
    BY <2>4, <2>5, UnsavedStep
<1> QED
  BY <1>3, <1>4, <1>5

LEMMA CommitStagedStep ==
  ASSUME TrayInv, CommitStagedDrop
  PROVE  /\ TrayInv' /\ \E d \in Surface : Moves(model.list, model'.list, d)
         /\ "model" \notin told => config.dockHidden = config'.dockHidden
<1>1. Ready(model) /\ model \in ModelSet
  BY DEF TrayInv, Sane, Ready
<1>2. PICK k : k = [model EXCEPT !.staged = NotStaged]
  OBVIOUS
<1>3. NotStaged \in [id : Surface \cup {NoSurface}, index : Int] /\ NotStaged.index = -1
      /\ NotStaged.id = NoSurface
  BY DEF NotStaged
<1>4. /\ k \in ModelSet /\ k.list = model.list /\ k.hidden = model.hidden
      /\ k.dockHidden = model.dockHidden /\ k.collapsed = model.collapsed
      /\ k.row = model.row /\ k.staged = NotStaged
  BY <1>1, <1>2, <1>3 DEF ModelSet
<1>5. Alike(k)
  BY <1>3, <1>4, FieldsAlike DEF StagedWell
<1>6. Sane(Laid(k)) /\ Alike(Laid(k))
  <2>1. Sane(Laid(k))
    BY <1>5, LaidSane DEF Alike
  <2>2. /\ Laid(k).list = k.list /\ Laid(k).hidden = k.hidden /\ Laid(k).dockHidden = k.dockHidden
        /\ Laid(k).collapsed = k.collapsed /\ DOMAIN Laid(k).row = DOMAIN k.row
    BY <1>5, LaidIs DEF Alike
  <2> QED
    BY <1>5, <2>1, <2>2 DEF Alike, Sane
<1> DEFINE d == model.staged.id
           i == model.staged.index
<1>7. d \in Surface /\ i \in Nat /\ i > 0
  <2>1. d \in Surface \cup {NoSurface} /\ i \in Int /\ d # NoSurface /\ StagedWell(model)
    BY <1>1, ModelParts DEF CommitStagedDrop, Ready
  <2> QED
    BY <2>1 DEF StagedWell
<1>8. DropToDockTray(Laid(k), d, i, TRUE, FALSE)
  BY <1>2 DEF CommitStagedDrop
<1> HIDE DEF d, i
<1>9. ShowStash \in ItemsAt(Laid(k), i) => "stashed" \notin Forbids[d]
  BY <1>6, <1>7, StashTarget
<1>10. /\ TrayInv' /\ Moves(model.list, model'.list, d)
       /\ "model" \notin told => config.dockHidden = config'.dockHidden
  BY <1>6, <1>7, <1>8, <1>9, DropStep
<1> QED
  BY <1>7, <1>10

-----------------------------------------------------------------------------
(* Settings.                                                                 *)

LEMMA CollapsedStep ==
  ASSUME TrayInv, ToggleCollapsed
  PROVE  /\ TrayInv' /\ model'.list = model.list
         /\ config'.dockHidden = config.dockHidden
<1>1. Ready(model) /\ model \in ModelSet /\ config \in ConfigSet
  BY DEF TrayInv, Sane, Ready
<1>2. PICK m : m = [model EXCEPT !.collapsed = ~@]
  OBVIOUS
<1>3. PICK c : c = SavedCollapsed(config, m)
  OBVIOUS
<1>4. model' = Laid(m) /\ Write(c) /\ UNCHANGED <<avail, settings, calls>>
  BY <1>2, <1>3 DEF ToggleCollapsed
<1>5. /\ m \in ModelSet /\ m.list = model.list /\ m.hidden = model.hidden
      /\ m.dockHidden = model.dockHidden /\ m.row = model.row /\ m.staged = model.staged
  <2>1. PICK b : b = ~model.collapsed
    OBVIOUS
  <2>2. b \in BOOLEAN
    BY <2>1, Zenon
  <2>3. m = [model EXCEPT !.collapsed = b]
    BY <1>2, <2>1, Zenon
  <2> QED
    BY <1>1, <2>2, <2>3 DEF ModelSet
<1>6. Ready(m)
  BY <1>1, <1>5 DEF Ready, StagedWell
<1>7. /\ c \in ConfigSet /\ c.list = config.list /\ c.hidden = config.hidden
      /\ c.dockHidden = config.dockHidden /\ c.collapsed = m.collapsed
  <2>1. m.collapsed \in BOOLEAN
    BY <1>5, ModelParts
  <2> QED
    BY <1>1, <1>3, <2>1 DEF SavedCollapsed, ConfigSet
<1>8. config' = c /\ told' \subseteq {"model", "settings"} /\ told \subseteq told'
  BY <1>4, WriteIs DEF TrayInv
<1>9. /\ SameLists(m.list, c.list) /\ Once(c.list, Saved)
      /\ "model" \notin told' => m.hidden = c.hidden /\ m.dockHidden = c.dockHidden
      /\ "settings" \notin told' => settings' = c.hidden
      /\ settings' \subseteq Surface /\ avail' = Surface \cap DOMAIN m.row
      /\ calls' \in Seq(CallSet)
  BY <1>4, <1>5, <1>7, <1>8 DEF TrayInv, InStep
<1>10. TrayInv'
  BY <1>4, <1>6, <1>7, <1>8, <1>9, StepLaid
<1> QED
  BY <1>4, <1>5, <1>6, <1>7, <1>8, <1>10, LaidIs

\* The model is left as it is.
LEMMA ModelKept ==
  ASSUME TrayInv, UNCHANGED <<model, avail>>, config' \in ConfigSet,
         config'.list = config.list, config'.collapsed = config.collapsed,
         "model" \notin told' => /\ "model" \notin told
                                 /\ config'.hidden = config.hidden
                                 /\ config'.dockHidden = config.dockHidden,
         "settings" \notin told' => settings' = config'.hidden,
         settings' \subseteq Surface, calls' \in Seq(CallSet), told' \subseteq {"model", "settings"}
  PROVE  TrayInv'
<1>1. PICK m : Ready(m) /\ model = Laid(m)
  BY DEF TrayInv
<1>2. m.list = model.list /\ DOMAIN m.row = DOMAIN model.row
      /\ m.hidden = model.hidden /\ m.dockHidden = model.dockHidden
      /\ m.collapsed = model.collapsed
  BY <1>1, LaidIs
<1>3. PICK c : c = config'
  OBVIOUS
<1>4. c.list = config.list
  BY <1>3
<1>5. Once(c.list, Saved) /\ SameLists(m.list, c.list)
  BY <1>2, <1>4 DEF TrayInv, InStep
<1>6. /\ c \in ConfigSet /\ m.collapsed = c.collapsed /\ avail' = Surface \cap DOMAIN m.row
      /\ "model" \notin told' => m.hidden = c.hidden /\ m.dockHidden = c.dockHidden
      /\ "settings" \notin told' => settings' = c.hidden
  BY <1>2, <1>3 DEF TrayInv, InStep
<1>7. model' = Laid(m) /\ Ready(m) /\ config' = c
  BY <1>1, <1>3
<1> QED
  BY <1>5, <1>6, <1>7, StepLaid

LEMMA CallStep ==
  ASSUME TrayInv, NEW s \in CanHide, NEW visible0 \in BOOLEAN, CallSetItemOnDock(s, visible0)
  PROVE  TrayInv' /\ model' = model /\ config' = config
<1>1. [id |-> s, visible |-> visible0] \in CallSet /\ calls \in Seq(CallSet)
  BY SurfaceAssumption DEF CallSet, TrayInv
<1>2. /\ calls' = Append(calls, [id |-> s, visible |-> visible0])
      /\ UNCHANGED <<model, avail, config, settings, told>>
  BY DEF CallSetItemOnDock, Called
<1>3. calls' \in Seq(CallSet)
  BY <1>1, <1>2
<1> QED
  BY <1>2, <1>3, ModelKept DEF TrayInv

LEMMA SetItemStep ==
  ASSUME TrayInv, SetItemOnDock
  PROVE  TrayInv' /\ model' = model /\ config'.dockHidden = config.dockHidden
<1>1. calls \in Seq(CallSet) /\ calls # <<>> /\ settings \subseteq Surface /\ config \in ConfigSet
      /\ told \subseteq {"model", "settings"}
  BY DEF SetItemOnDock, TrayInv
<1>2. /\ calls' = Tail(calls) /\ UNCHANGED <<model, avail>>
  BY DEF SetItemOnDock
<1>3. calls' \in Seq(CallSet) /\ Head(calls) \in CallSet
  BY <1>1, <1>2
<1>4. Head(calls).id \in Surface
  BY <1>3 DEF CallSet
<1>5. CASE UNCHANGED <<settings, config, told>>
  BY <1>1, <1>2, <1>3, <1>5, ModelKept DEF TrayInv
<1>6. ASSUME settings' = With(settings, Head(calls).id, ~Head(calls).visible),
             Write([config EXCEPT !.hidden = settings'])
      PROVE  TrayInv' /\ config'.dockHidden = config.dockHidden
  <2>1. settings' \subseteq Surface
    BY <1>1, <1>4, <1>6 DEF With
  <2>2. PICK c : c = [config EXCEPT !.hidden = settings']
    OBVIOUS
  <2>3. /\ c \in ConfigSet /\ c.list = config.list /\ c.collapsed = config.collapsed
        /\ c.dockHidden = config.dockHidden /\ c.hidden = settings'
    BY <1>1, <2>1, <2>2 DEF ConfigSet
  <2>4. Write(c)
    BY <1>6, <2>2
  <2>5. /\ config' = c /\ told' \subseteq {"model", "settings"} /\ told \subseteq told'
        /\ c.hidden # config.hidden => "model" \in told'
    BY <1>1, <2>4, WriteIs
  <2>6. TrayInv'
    BY <1>2, <1>3, <2>1, <2>3, <2>5, ModelKept
  <2> QED
    BY <2>3, <2>5, <2>6
<1>7. \/ UNCHANGED <<settings, config, told>>
      \/ /\ settings' = With(settings, Head(calls).id, ~Head(calls).visible)
         /\ Write([config EXCEPT !.hidden = settings'])
  BY DEF SetItemOnDock
<1> QED
  BY <1>2, <1>5, <1>6, <1>7

LEMMA SettingsToldStep ==
  ASSUME TrayInv, SettingsTold
  PROVE  TrayInv' /\ model' = model /\ config' = config
<1>1. /\ told' = told \ {"settings"} /\ settings' = config.hidden
      /\ UNCHANGED <<model, avail, config, calls>>
  BY DEF SettingsTold
<1>2. config \in ConfigSet /\ config.hidden \subseteq Surface
  BY ConfigParts DEF TrayInv
<1>3. /\ calls' \in Seq(CallSet) /\ told' \subseteq {"model", "settings"}
      /\ "model" \notin told' => "model" \notin told
  BY <1>1 DEF TrayInv
<1> QED
  BY <1>1, <1>2, <1>3, ModelKept

LEMMA OthersHideStep ==
  ASSUME TrayInv, NEW s \in DockHides, OthersDockHide(s)
  PROVE  TrayInv' /\ model' = model /\ config.dockHidden \subseteq config'.dockHidden
<1>1. config \in ConfigSet /\ config.dockHidden \subseteq Surface /\ s \in Surface
      /\ told \subseteq {"model", "settings"}
  BY ConfigParts, SurfaceAssumption DEF TrayInv
<1>2. PICK c : c = [config EXCEPT !.dockHidden = @ \cup {s}]
  OBVIOUS
<1>3. /\ c \in ConfigSet /\ c.list = config.list /\ c.collapsed = config.collapsed
      /\ c.dockHidden = config.dockHidden \cup {s} /\ c.hidden = config.hidden
  BY <1>1, <1>2 DEF ConfigSet
<1>4. Write(c) /\ UNCHANGED <<model, avail, settings, calls>>
  BY <1>2 DEF OthersDockHide
<1>5. /\ config' = c /\ told' \subseteq {"model", "settings"} /\ told \subseteq told'
      /\ c.dockHidden # config.dockHidden => "model" \in told'
  BY <1>1, <1>4, WriteIs
<1>6. /\ "model" \notin told' => /\ "model" \notin told /\ config'.hidden = config.hidden
                                 /\ config'.dockHidden = config.dockHidden
      /\ "settings" \notin told' => settings' = config'.hidden
      /\ settings' \subseteq Surface /\ calls' \in Seq(CallSet)
  BY <1>3, <1>4, <1>5 DEF TrayInv
<1>7. TrayInv'
  BY <1>3, <1>4, <1>5, <1>6, ModelKept
<1> QED
  BY <1>3, <1>4, <1>5, <1>7

LEMMA StutterStep ==
  ASSUME TrayInv, UNCHANGED vars
  PROVE  TrayInv' /\ model' = model /\ config' = config
<1>1. /\ UNCHANGED <<model, avail, config, settings, calls, told>>
  BY DEF vars
<1> QED
  BY <1>1, ModelKept DEF TrayInv

-----------------------------------------------------------------------------
(* The configuration is read.                                                *)

\* The lists an announcement brings: the fixed section's is the model's own.
LEMMA LoadedIs ==
  ASSUME NEW m, Ready(m), NEW c, c \in ConfigSet, Once(c.list, Saved), SameLists(m.list, c.list)
  PROVE  LET k == Loaded(m, c)
         IN  /\ Ready(k) /\ SameLists(k.list, c.list) /\ k.hidden = c.hidden
             /\ k.dockHidden = c.dockHidden /\ k.collapsed = c.collapsed
             /\ DOMAIN k.row = DOMAIN m.row
             /\ \A sec \in Section : \A d \in Surface : Others(k.list, sec, d) = Others(m.list, sec, d)
<1>1. PICK l : l = [sec \in Section |-> IF sec = "fixed" THEN m.list[sec] ELSE c.list[sec]]
  OBVIOUS
<1>2. PICK k : k = Loaded(m, c)
  OBVIOUS
<1>3. /\ m \in ModelSet /\ m.list \in [Section -> Seq(Item)] /\ Once(m.list, Section)
      /\ c.list \in [Saved -> Seq(Item)] /\ c.hidden \subseteq Surface
      /\ c.dockHidden \subseteq Surface /\ c.collapsed \in BOOLEAN
  BY ConfigParts, ModelParts DEF Ready, Lists, Item, SavedLists, Saved
<1>4. l \in [Section -> Seq(Item)] /\ "fixed" \in Section
  BY <1>1, <1>3 DEF Saved, Section
<1>5. k = [m EXCEPT !.list = l, !.hidden = c.hidden, !.dockHidden = c.dockHidden,
                    !.collapsed = c.collapsed]
  BY <1>1, <1>2, <1>3 DEF Loaded, ModelSet
<1>6. /\ k \in ModelSet /\ k.list = l /\ k.hidden = c.hidden /\ k.dockHidden = c.dockHidden
      /\ k.collapsed = c.collapsed /\ k.row = m.row /\ k.staged = m.staged
  <2>1. PICK b : b = c.collapsed
    OBVIOUS
  <2>2. l \in Lists
    BY <1>4 DEF Lists, Item
  <2>3. k = [m EXCEPT !.list = l, !.hidden = c.hidden, !.dockHidden = c.dockHidden,
                      !.collapsed = b]
    BY <1>5, <2>1
  <2>4. b \in BOOLEAN
    BY <1>3, <2>1
  <2> QED
    BY <1>3, <2>1, <2>2, <2>3, <2>4 DEF ModelSet
<1>7. ASSUME NEW sec \in Section
      PROVE  \/ l[sec] = m.list[sec]
             \/ /\ sec = "stashed" /\ Placeholder \notin ToSet(l[sec]) /\ l[sec] \in Seq(Item)
                /\ m.list[sec] = Append(l[sec], Placeholder)
  BY <1>1, <1>3, <1>4 DEF SameLists, Saved
<1>8. ASSUME NEW sec \in Section
      PROVE  /\ ToSet(l[sec]) \subseteq ToSet(m.list[sec])
             /\ ToSet(m.list[sec]) \subseteq ToSet(l[sec]) \cup {Placeholder}
  <2>1. CASE l[sec] = m.list[sec]
    BY <2>1
  <2>2. CASE l[sec] \in Seq(Item) /\ m.list[sec] = Append(l[sec], Placeholder)
    BY <2>2, AppendItems
  <2> QED
    BY <1>7, <2>1, <2>2
<1>9. Once(l, Section)
  <2>1. \A sec \in Section : IsInjective(l[sec])
    BY <1>1, <1>3 DEF Once, Saved
  <2>2. ASSUME NEW a \in Section, NEW b \in Section, a # b
        PROVE  ToSet(l[a]) \cap ToSet(l[b]) = {}
    <3>1. ToSet(m.list[a]) \cap ToSet(m.list[b]) = {}
      BY <1>3, <2>2 DEF Once
    <3>2. ToSet(l[a]) \subseteq ToSet(m.list[a]) /\ ToSet(l[b]) \subseteq ToSet(m.list[b])
      BY <1>8
    <3> QED
      BY <3>1, <3>2
  <2>3. \A sec \in Section : Placeholder \in ToSet(l[sec]) => sec = "stashed"
    BY <1>3, <1>8 DEF Once
  <2> QED
    BY <2>1, <2>2, <2>3 DEF Once
<1>10. Ready(k)
  <2>1. ASSUME NEW s \in Surface \cap DOMAIN k.row
        PROVE  \E a \in Section \ Forbids[s] : s \in ToSet(k.list[a])
    <3>1. PICK a \in Section \ Forbids[s] : s \in ToSet(m.list[a])
      BY <1>6 DEF Ready
    <3>2. s # Placeholder
      BY InternalDiffers DEF Internal
    <3> QED
      BY <1>6, <1>8, <3>1, <3>2
  <2>2. /\ Internal \subseteq DOMAIN k.row /\ k.row[Placeholder].section = "stashed"
        /\ k.row[ShowStash].section = "tray-action" /\ k.row[Toggle].section = "tray-action"
        /\ StagedWell(k)
    BY <1>6 DEF Ready, StagedWell
  <2> QED
    BY <1>6, <1>9, <2>1, <2>2 DEF Ready
<1>11. SameLists(k.list, c.list)
  BY <1>1, <1>6 DEF SameLists, Saved
<1>12. ASSUME NEW sec \in Section, NEW d \in Surface
       PROVE  Others(k.list, sec, d) = Others(m.list, sec, d)
  <2>1. CASE l[sec] = m.list[sec]
    BY <1>6, <2>1 DEF Others
  <2>2. CASE l[sec] \in Seq(Item) /\ m.list[sec] = Append(l[sec], Placeholder)
    <3>1. Placeholder \in Item /\ Placeholder \notin Surface \ {d}
      BY InternalDiffers DEF Item, Internal
    <3> QED
      BY <1>6, <2>2, <3>1, OnlyAppend DEF Others
  <2> QED
    BY <1>7, <2>1, <2>2
<1> QED
  BY <1>2, <1>6, <1>10, <1>11, <1>12

LEMMA ModelToldStep ==
  ASSUME TrayInv, ModelTold
  PROVE  /\ TrayInv' /\ config' = config
         /\ \A sec \in Section : \A d \in Surface :
              Others(model'.list, sec, d) = Others(model.list, sec, d)
<1>1. /\ Ready(model) /\ config \in ConfigSet /\ Once(config.list, Saved)
      /\ SameLists(model.list, config.list) /\ avail = Surface \cap DOMAIN model.row
  BY DEF TrayInv, Sane, InStep
<1>2. PICK k : k = Loaded(model, config)
  OBVIOUS
<1>3. /\ Ready(k) /\ SameLists(k.list, config.list) /\ k.hidden = config.hidden
      /\ k.dockHidden = config.dockHidden /\ k.collapsed = config.collapsed
      /\ DOMAIN k.row = DOMAIN model.row
      /\ \A sec \in Section : \A d \in Surface : Others(k.list, sec, d) = Others(model.list, sec, d)
  BY <1>1, <1>2, LoadedIs
<1>4. /\ model' = Laid(k) /\ told' = told \ {"model"}
      /\ UNCHANGED <<avail, config, settings, calls>>
  BY <1>2 DEF ModelTold
<1>5. /\ "settings" \notin told' => settings' = config.hidden
      /\ settings' \subseteq Surface /\ calls' \in Seq(CallSet)
      /\ told' \subseteq {"model", "settings"} /\ avail' = Surface \cap DOMAIN k.row
  BY <1>1, <1>3, <1>4 DEF TrayInv
<1>6. PICK c : c = config
  OBVIOUS
<1>7. config' = c /\ c \in ConfigSet /\ Once(c.list, Saved) /\ SameLists(k.list, c.list)
      /\ k.hidden = c.hidden /\ k.dockHidden = c.dockHidden /\ k.collapsed = c.collapsed
      /\ ("settings" \notin told' => settings' = c.hidden)
  BY <1>1, <1>3, <1>4, <1>5, <1>6
<1>8. TrayInv'
  BY <1>3, <1>4, <1>5, <1>7, StepLaid
<1>9. model'.list = k.list
  BY <1>3, <1>4, LaidIs
<1> QED
  BY <1>3, <1>4, <1>8, <1>9 DEF Others

\* The constructor's model: the saved lists, and no surface has a row.
LEMMA NewModelIs ==
  ASSUME NEW c, c \in ConfigSet, Once(c.list, Saved)
  PROVE  \E k : /\ Ready(k) /\ NewModel(c) = Laid(k) /\ SameLists(k.list, c.list)
                /\ k.hidden = c.hidden /\ k.dockHidden = c.dockHidden
                /\ k.collapsed = c.collapsed /\ DOMAIN k.row = Internal
<1>1. PICK l : l = [sec \in Section |-> IF sec = "fixed" THEN <<>> ELSE c.list[sec]]
  OBVIOUS
<1>2. PICK r : r = [x \in Internal |->
                      Row(IF x = Placeholder THEN "stashed" ELSE "tray-action")]
  OBVIOUS
<1>3. PICK m : m = [list |-> l, hidden |-> c.hidden, dockHidden |-> c.dockHidden,
                    collapsed |-> c.collapsed, actions |-> FALSE, staged |-> NotStaged,
                    count |-> 0, row |-> r]
  OBVIOUS
<1>4. PICK n : n = [l EXCEPT !["stashed"] =
                      IF Contains(@, Placeholder) THEN @ ELSE Append(@, Placeholder)]
  OBVIOUS
<1>5. PICK k : k = [m EXCEPT !.list = n]
  OBVIOUS
<1>6. NewModel(c) = Laid(k)
  <2>1. NewModel(c) = Laid([m EXCEPT !.list["stashed"] =
                              IF Contains(@, Placeholder) THEN @ ELSE Append(@, Placeholder)])
    BY <1>1, <1>2, <1>3, Zenon DEF NewModel
  <2>2. [m EXCEPT !.list["stashed"] =
           IF Contains(@, Placeholder) THEN @ ELSE Append(@, Placeholder)] = k
    BY <1>3, <1>4, <1>5
  <2> QED
    BY <2>1, <2>2
<1>7. /\ c.list \in [Saved -> Seq(Item)] /\ c.hidden \subseteq Surface
      /\ c.dockHidden \subseteq Surface /\ c.collapsed \in BOOLEAN
  BY ConfigParts DEF SavedLists, Saved, Item
<1>8. l \in [Section -> Seq(Item)] /\ "stashed" \in Section /\ "fixed" \in Section
      /\ Placeholder \in Item
  <2>1. <<>> \in Seq(Item)
    OBVIOUS
  <2> QED
    BY <1>1, <1>7, <2>1 DEF Saved, Section, Item
<1>9. Contains(l["stashed"], Placeholder) <=> Placeholder \in ToSet(l["stashed"])
  BY <1>8, ListContains
<1>10. Once(l, Section)
  <2>1. IsInjective(<<>>) /\ ToSet(<<>>) = {}
    BY DEF IsInjective, ToSet
  <2>2. \A sec \in Saved : l[sec] = c.list[sec] /\ sec \in Section
    BY <1>1 DEF Saved
  <2>3. l["fixed"] = <<>> /\ \A sec \in Section : sec = "fixed" \/ sec \in Saved
    BY <1>1, <1>8 DEF Saved
  <2> QED
    BY <2>1, <2>2, <2>3 DEF Once
<1>11. /\ n \in [Section -> Seq(Item)]
       /\ \A sec \in Section \ {"stashed"} : n[sec] = l[sec]
       /\ ToSet(n["stashed"]) = ToSet(l["stashed"]) \cup {Placeholder}
       /\ IsInjective(n["stashed"])
       /\ n["stashed"] = l["stashed"]
          \/ /\ Placeholder \notin ToSet(l["stashed"])
             /\ n["stashed"] = Append(l["stashed"], Placeholder)
  <2>1. CASE Placeholder \in ToSet(l["stashed"])
    BY <1>4, <1>8, <1>9, <1>10, <2>1 DEF Once
  <2>2. CASE Placeholder \notin ToSet(l["stashed"])
    <3>1. /\ Append(l["stashed"], Placeholder) \in Seq(Item)
          /\ ToSet(Append(l["stashed"], Placeholder)) = ToSet(l["stashed"]) \cup {Placeholder}
          /\ IsInjective(Append(l["stashed"], Placeholder))
      <4>1. IsInjective(l["stashed"]) /\ l["stashed"] \in Seq(Item)
        BY <1>8, <1>10 DEF Once
      <4> QED
        BY <1>8, <2>2, <4>1, AppendItems, AppendDiffers
    <3> QED
      BY <1>4, <1>8, <1>9, <2>2, <3>1
  <2> QED
    BY <2>1, <2>2
<1>12. Once(n, Section)
  <2>1. \A sec \in Section : IsInjective(n[sec])
    BY <1>10, <1>11 DEF Once
  <2>2. ASSUME NEW a \in Section, NEW b \in Section, a # b
        PROVE  ToSet(n[a]) \cap ToSet(n[b]) = {}
    <3>1. ToSet(l[a]) \cap ToSet(l[b]) = {}
      BY <1>10, <2>2 DEF Once
    <3>2. \A sec \in Section \ {"stashed"} : Placeholder \notin ToSet(l[sec])
      BY <1>10 DEF Once
    <3> QED
      BY <1>11, <2>2, <3>1, <3>2
  <2>3. \A sec \in Section : Placeholder \in ToSet(n[sec]) => sec = "stashed"
    BY <1>10, <1>11 DEF Once
  <2> QED
    BY <2>1, <2>2, <2>3 DEF Once
<1>13. r \in Rows /\ DOMAIN r = Internal /\ r[Placeholder].section = "stashed"
       /\ r[ShowStash].section = "tray-action" /\ r[Toggle].section = "tray-action"
  <2>1. \A x \in Internal : Row(IF x = Placeholder THEN "stashed" ELSE "tray-action") \in RowType
    BY DEF Row, RowType, Section
  <2>2. r \in [Internal -> RowType]
    BY <1>2, <2>1
  <2>3. r \in Rows /\ DOMAIN r = Internal
    BY <2>2, RowsOf
  <2> QED
    BY <1>2, <2>3, InternalDiffers DEF Row, Internal
<1>14. /\ k \in ModelSet /\ k.list = n /\ k.hidden = c.hidden /\ k.dockHidden = c.dockHidden
       /\ k.collapsed = c.collapsed /\ k.row = r /\ k.staged = NotStaged
  <2>1. k = [list |-> n, hidden |-> c.hidden, dockHidden |-> c.dockHidden,
             collapsed |-> c.collapsed, actions |-> FALSE, staged |-> NotStaged,
             count |-> 0, row |-> r]
    BY <1>3, <1>5
  <2>2. NotStaged \in [id : Surface \cup {NoSurface}, index : Int]
    BY DEF NotStaged
  <2>3. n \in Lists
    BY <1>11 DEF Lists, Item
  <2>4. PICK b \in BOOLEAN : b = c.collapsed
    BY <1>7
  <2> QED
    BY <1>7, <1>13, <2>1, <2>2, <2>3, <2>4 DEF ModelSet
<1>15. Ready(k)
  <2>1. StagedWell(k)
    BY <1>14 DEF StagedWell, NotStaged
  <2>2. Surface \cap DOMAIN k.row = {}
    BY <1>13, <1>14, InternalDiffers
  <2> QED
    BY <1>12, <1>13, <1>14, <2>1, <2>2 DEF Ready
<1>16. SameLists(k.list, c.list)
  <2>1. \A sec \in Saved : l[sec] = c.list[sec] /\ sec \in Section
    BY <1>1 DEF Saved
  <2> QED
    BY <1>11, <1>14, <2>1 DEF SameLists
<1> QED
  BY <1>6, <1>13, <1>14, <1>15, <1>16

\* What the lists of a model have of the surfaces is what was saved.
LEMMA SameOthers ==
  ASSUME NEW l, NEW saved \in SavedLists, SameLists(l, saved), NEW c \in Saved,
         NEW S, Placeholder \notin S
  PROVE  Only(l[c], S) = Only(saved[c], S)
<1>1. saved[c] \in Seq(Item) /\ Placeholder \in Item
  BY DEF SavedLists, Saved, Item
<1>2. l[c] = saved[c] \/ l[c] = Append(saved[c], Placeholder)
  BY DEF SameLists
<1>3. PICK q : q = saved[c]
  OBVIOUS
<1>4. Only(Append(q, Placeholder), S) = Only(q, S)
  BY <1>1, <1>3, OnlyAppend
<1> QED
  BY <1>2, <1>3, <1>4

LEMMA RestartStep ==
  ASSUME TrayInv, Restart
  PROVE  /\ TrayInv' /\ config' = config
         /\ \A sec \in Saved : \A d \in Surface :
              Others(model'.list, sec, d) = Others(model.list, sec, d)
<1>1. PICK c : c = config
  OBVIOUS
<1>2. c \in ConfigSet /\ Once(c.list, Saved) /\ SameLists(model.list, c.list)
      /\ c.list \in SavedLists /\ c.hidden \subseteq Surface
  BY <1>1, ConfigParts DEF TrayInv, InStep
<1>3. PICK k : /\ Ready(k) /\ NewModel(c) = Laid(k) /\ SameLists(k.list, c.list)
               /\ k.hidden = c.hidden /\ k.dockHidden = c.dockHidden
               /\ k.collapsed = c.collapsed /\ DOMAIN k.row = Internal
  BY <1>2, NewModelIs
<1>4. /\ model' = Laid(k) /\ config' = c /\ settings' = c.hidden
      /\ avail' = {} /\ calls' = <<>> /\ told' = {}
  BY <1>1, <1>3 DEF Restart
<1>5. avail' = Surface \cap DOMAIN k.row /\ calls' \in Seq(CallSet)
      /\ told' \subseteq {"model", "settings"} /\ settings' \subseteq Surface
  <2>1. <<>> \in Seq(CallSet)
    OBVIOUS
  <2> QED
    BY <1>2, <1>3, <1>4, <2>1, InternalDiffers
<1>6. TrayInv'
  BY <1>2, <1>3, <1>4, <1>5, StepLaid
<1>7. model'.list = k.list
  BY <1>3, <1>4, LaidIs
<1>8. ASSUME NEW sec \in Saved, NEW d \in Surface
      PROVE  Others(model'.list, sec, d) = Others(model.list, sec, d)
  <2>1. Placeholder \notin Surface \ {d}
    BY InternalDiffers DEF Internal
  <2>2. Only(model.list[sec], Surface \ {d}) = Only(c.list[sec], Surface \ {d})
    BY <1>2, <2>1, SameOthers
  <2>3. Only(k.list[sec], Surface \ {d}) = Only(c.list[sec], Surface \ {d})
    BY <1>2, <1>3, <2>1, SameOthers
  <2> QED
    BY <1>7, <2>2, <2>3 DEF Others
<1> QED
  BY <1>1, <1>4, <1>6, <1>8

-----------------------------------------------------------------------------
(* Every step.                                                               *)

LEMMA TrayInit == Init => TrayInv
<1> SUFFICES ASSUME Init PROVE TrayInv
  OBVIOUS
<1>1. PICK order \in OldOrders :
        /\ config = [list |-> order, hidden |-> {}, dockHidden |-> {}, collapsed |-> FALSE]
        /\ model = NewModel(config)
        /\ settings = {} /\ avail = {} /\ calls = <<>> /\ told = {}
  BY DEF Init
<1>2. order \in SavedLists /\ Once(order, Saved)
  BY OrdersAssumption DEF Saved
<1>3. config \in ConfigSet /\ config.list = order /\ config.hidden = {}
  BY <1>1, <1>2 DEF ConfigSet
<1>4. PICK k : /\ Ready(k) /\ NewModel(config) = Laid(k) /\ SameLists(k.list, config.list)
               /\ k.hidden = config.hidden /\ k.dockHidden = config.dockHidden
               /\ k.collapsed = config.collapsed /\ DOMAIN k.row = Internal
  BY <1>2, <1>3, NewModelIs
<1>5. /\ Sane(model) /\ model.list = k.list /\ model.hidden = k.hidden
      /\ model.dockHidden = k.dockHidden /\ model.collapsed = k.collapsed
      /\ DOMAIN model.row = Internal
  <2>1. model = Laid(k)
    BY <1>1, <1>4
  <2> QED
    BY <1>4, <2>1, LaidIs, LaidSane
<1>6. calls \in Seq(CallSet)
  BY <1>1
<1>7. avail = Surface \cap DOMAIN model.row
  BY <1>1, <1>5, InternalDiffers
<1> QED
  BY <1>1, <1>2, <1>3, <1>4, <1>5, <1>6, <1>7 DEF TrayInv, InStep

\* One surface may have moved, and what the configuration hides from the dock is kept.
OneMoved ==
  \E d \in Surface : \A sec \in Section \ {"fixed"} :
    Others(model'.list, sec, d) = Others(model.list, sec, d)
StillHidden == "model" \notin told => config.dockHidden \subseteq config'.dockHidden

LEMMA OneMovedIs ==
  /\ model'.list = model.list => OneMoved
  /\ (\E d \in Surface : Moves(model.list, model'.list, d)) => OneMoved
<1>1. Surface # {}
  BY SurfaceAssumption
<1>2. ASSUME model'.list = model.list
      PROVE  OneMoved
  BY <1>1, <1>2 DEF OneMoved
<1>3. ASSUME NEW d \in Surface, NEW to \in Section, MovedTo(model.list, model'.list, d, to)
      PROVE  OneMoved
  BY <1>3 DEF OneMoved, MovedTo
<1> QED
  BY <1>2, <1>3 DEF Moves

LEMMA TrayStep ==
  ASSUME TrayInv, [Next]_vars
  PROVE  TrayInv' /\ OneMoved /\ StillHidden
<1>1. ASSUME NEW s \in Surface, SurfaceCreated(s)
      PROVE  TrayInv' /\ OneMoved /\ StillHidden
  <2>1. TrayInv' /\ \E to \in Section : MovedTo(model.list, model'.list, s, to)
    BY <1>1, CreatedStep
  <2>2. OneMoved
    BY <2>1 DEF OneMoved, MovedTo
  <2>3. config'.dockHidden = config.dockHidden
    BY <1>1, CreatedKeeps
  <2> QED
    BY <2>1, <2>2, <2>3 DEF StillHidden
<1>2. ASSUME NEW s \in Surface, SurfaceDestroyed(s)
      PROVE  TrayInv' /\ OneMoved /\ StillHidden
  BY <1>2, DestroyedStep, CreatedKeeps, OneMovedIs DEF StillHidden
<1>3. ASSUME NEW d \in Surface, NEW i \in 0..MaxIndex, NEW before \in BOOLEAN,
             HoverDrop(d, i, before) \/ ReleaseDrop(d, i, before)
      PROVE  TrayInv' /\ OneMoved /\ StillHidden
  <2>1. /\ TrayInv' /\ Moves(model.list, model'.list, d)
        /\ "model" \notin told => config.dockHidden = config'.dockHidden
    BY <1>3, DragStep
  <2> QED
    BY <2>1, OneMovedIs DEF StillHidden
<1>4. ASSUME NEW d \in Surface, DropToStash(d)
      PROVE  TrayInv' /\ OneMoved /\ StillHidden
  <2>1. /\ TrayInv' /\ Moves(model.list, model'.list, d)
        /\ "model" \notin told => config.dockHidden = config'.dockHidden
    BY <1>4, DropToStashStep
  <2> QED
    BY <2>1, OneMovedIs DEF StillHidden
<1>5. CASE \/ \E d \in Surface, i \in 0..MaxIndex : StageDropPosition(d, i)
           \/ DragEnter \/ DragExit
  <2>1. TrayInv' /\ model'.list = model.list /\ config' = config
    BY <1>5, PointerStep
  <2> QED
    BY <2>1, OneMovedIs DEF StillHidden
<1>6. CASE CommitStagedDrop
  <2>1. /\ TrayInv' /\ \E d \in Surface : Moves(model.list, model'.list, d)
        /\ "model" \notin told => config.dockHidden = config'.dockHidden
    BY <1>6, CommitStagedStep
  <2> QED
    BY <2>1, OneMovedIs DEF StillHidden
<1>7. CASE ToggleCollapsed
  <2>1. TrayInv' /\ model'.list = model.list /\ config'.dockHidden = config.dockHidden
    BY <1>7, CollapsedStep
  <2> QED
    BY <2>1, OneMovedIs DEF StillHidden
<1>8. ASSUME NEW s \in CanHide, NEW shows \in BOOLEAN, CallSetItemOnDock(s, shows)
      PROVE  TrayInv' /\ OneMoved /\ StillHidden
  <2>1. TrayInv' /\ model' = model /\ config' = config
    BY <1>8, CallStep
  <2> QED
    BY <2>1, OneMovedIs DEF StillHidden
<1>9. CASE SetItemOnDock
  <2>1. TrayInv' /\ model' = model /\ config'.dockHidden = config.dockHidden
    BY <1>9, SetItemStep
  <2> QED
    BY <2>1, OneMovedIs DEF StillHidden
<1>10. CASE ModelTold
  <2>1. /\ TrayInv' /\ config' = config
        /\ \A sec \in Section : \A d \in Surface :
             Others(model'.list, sec, d) = Others(model.list, sec, d)
    BY <1>10, ModelToldStep
  <2> QED
    BY <2>1, SurfaceAssumption DEF OneMoved, StillHidden
<1>11. CASE SettingsTold
  <2>1. TrayInv' /\ model' = model /\ config' = config
    BY <1>11, SettingsToldStep
  <2> QED
    BY <2>1, OneMovedIs DEF StillHidden
<1>12. ASSUME NEW s \in DockHides, OthersDockHide(s)
       PROVE  TrayInv' /\ OneMoved /\ StillHidden
  <2>1. TrayInv' /\ model' = model /\ config.dockHidden \subseteq config'.dockHidden
    BY <1>12, OthersHideStep
  <2> QED
    BY <2>1, OneMovedIs DEF StillHidden
<1>13. CASE Restart
  <2>1. /\ TrayInv' /\ config' = config
        /\ \A sec \in Saved : \A d \in Surface :
             Others(model'.list, sec, d) = Others(model.list, sec, d)
    BY <1>13, RestartStep
  <2> QED
    BY <2>1, SurfaceAssumption DEF OneMoved, StillHidden, Saved
<1>14. CASE UNCHANGED vars
  <2>1. TrayInv' /\ model' = model /\ config' = config
    BY <1>14, StutterStep
  <2> QED
    BY <2>1, OneMovedIs DEF StillHidden
<1>15. CASE Next
  BY <1>1, <1>2, <1>3, <1>4, <1>5, <1>6, <1>7, <1>8, <1>9, <1>10, <1>11, <1>12, <1>13, <1>15
     DEF Next
<1> QED
  BY <1>14, <1>15

-----------------------------------------------------------------------------
(* The theorems.                                                             *)

\* TrayInv: whatever surfaces come and go, are dragged, staged or hidden and whatever other
\* programs write, the lists and rows of TraySortOrderModel fit together, and so do the
\* configuration and what is still to be told of it.
THEOREM TrayKeepsStep == Spec => []TrayInv
<1>1. Init => TrayInv
  BY TrayInit
<1>2. TrayInv /\ [Next]_vars => TrayInv'
  BY TrayStep
<1> QED
  BY <1>1, <1>2, PTL DEF Spec

LEMMA AgreeHolds == TrayInv => Agree
<1> SUFFICES ASSUME TrayInv, told = {} PROVE
      /\ model.hidden = config.hidden /\ settings = config.hidden
      /\ model.dockHidden = config.dockHidden /\ model.collapsed = config.collapsed
      /\ \A sec \in Section \ {"fixed"} :
           Only(model.list[sec], Surface) = Only(config.list[sec], Surface)
  BY DEF Agree
<1>1. config.list \in SavedLists /\ SameLists(model.list, config.list)
  BY ConfigParts DEF TrayInv, InStep
<1>2. Placeholder \notin Surface
  BY InternalDiffers DEF Internal
<1>3. \A sec \in Saved : Only(model.list[sec], Surface) = Only(config.list[sec], Surface)
  BY <1>1, <1>2, SameOthers
<1> QED
  BY <1>3 DEF TrayInv, InStep, Saved

\* Agree: when nothing is under way, what TraySortOrderModel shows is what it saved, so a
\* restart brings it back.
THEOREM TrayAgrees == Spec => []Agree
BY TrayKeepsStep, AgreeHolds, PTL

\* MovesOne: registering, dropping, reloading or removing moves one surface, and the others
\* of the saved sections keep their section and their order.
THEOREM TrayMovesOne == Spec => MovesOne
<1>1. TrayInv /\ [Next]_vars =>
        [\E d \in Surface : \A sec \in Section \ {"fixed"} :
           Others(model'.list, sec, d) = Others(model.list, sec, d)]_vars
  BY TrayStep DEF OneMoved
<1>2. Spec => [][Next]_vars
  BY PTL DEF Spec
<1> QED
  BY <1>1, <1>2, TrayKeepsStep, PTL DEF MovesOne

\* HeardIsKept: a drop, which saves every list of the model, takes back nothing that other
\* programs hid from the dock and the model was told of.
THEOREM TrayKeepsHeard == Spec => HeardIsKept
<1>1. TrayInv /\ [Next]_vars =>
        ["model" \notin told => config.dockHidden \subseteq config'.dockHidden]_vars
  BY TrayStep DEF StillHidden
<1>2. Spec => [][Next]_vars
  BY PTL DEF Spec
<1> QED
  BY <1>1, <1>2, TrayKeepsStep, PTL DEF HeardIsKept

-----------------------------------------------------------------------------
(* The numbers.                                                              *)

\* As many values as arguments, when they differ.
LEMMA DifferentValues ==
  ASSUME NEW S, IsFiniteSet(S), NEW g, \A x, y \in S : g[x] = g[y] => x = y
  PROVE  Cardinality({g[x] : x \in S}) = Cardinality(S)
<1> DEFINE T == {g[x] : x \in S}
           f == [x \in S |-> g[x]]
<1>1. f \in [S -> T] /\ \A x \in S : f[x] = g[x]
  OBVIOUS
<1> HIDE DEF f
<1>2. f \in Surjection(S, T) /\ f \in Injection(S, T)
  BY <1>1 DEF Surjection, Injection, IsInjective
<1> HIDE DEF T
<1>3. Cardinality(T) = Cardinality(S)
  BY <1>2, FS_Surjection
<1> QED
  BY <1>3 DEF T

\* The list s has different items, and their ranks r climb from lo to hi.
Climbs(s, r, lo, hi) ==
  /\ \A i \in 1..Len(s) : lo <= r[s[i]] /\ r[s[i]] <= hi
  /\ \A i, j \in 1..Len(s) : i < j => s[i] # s[j] /\ r[s[i]] <= r[s[j]]

LEMMA ClimbsFlat ==
  ASSUME NEW A, NEW s \in Seq(A), IsInjective(s), NEW r \in [A -> Nat], NEW k \in Nat,
         \A x \in ToSet(s) : r[x] = k
  PROVE  Climbs(s, r, k, k)
<1>1. DOMAIN s = 1..Len(s) /\ Len(s) \in Nat
  OBVIOUS
<1>2. \A i \in 1..Len(s) : r[s[i]] = k
  BY <1>1 DEF ToSet
<1>3. \A i, j \in 1..Len(s) : i < j => s[i] # s[j]
  <2>1. \A i, j \in 1..Len(s) : s[i] = s[j] => i = j
    BY <1>1 DEF IsInjective
  <2>2. \A i, j \in 1..Len(s) : i < j => i # j
    BY <1>1
  <2> QED
    BY <2>1, <2>2
<1> QED
  BY <1>2, <1>3 DEF Climbs

LEMMA ClimbsJoin ==
  ASSUME NEW A, NEW s \in Seq(A), NEW t \in Seq(A), NEW r \in [A -> Nat],
         NEW a \in Nat, NEW b \in Nat, NEW c \in Nat, NEW d \in Nat, a <= b, b < c, c <= d,
         Climbs(s, r, a, b), Climbs(t, r, c, d)
  PROVE  Climbs(s \o t, r, a, d)
<1>1. /\ s \o t \in Seq(A) /\ Len(s \o t) = Len(s) + Len(t)
      /\ \A k \in 1..Len(s) + Len(t) : (s \o t)[k] = IF k <= Len(s) THEN s[k] ELSE t[k - Len(s)]
  BY JoinedItems
<1>2. PICK q : q = s \o t
  OBVIOUS
<1>3. PICK l : l = Len(s)
  OBVIOUS
<1>4. PICK n : n = Len(t)
  OBVIOUS
<1>5. /\ l \in Nat /\ n \in Nat /\ Len(q) = l + n
      /\ \A k \in 1..l : k \in 1..(l + n) /\ q[k] = s[k]
      /\ \A k \in 1..(l + n) : k \in 1..l \/ (k - l \in 1..n /\ q[k] = t[k - l])
  BY <1>1, <1>2, <1>3, <1>4
<1>6. /\ \A i \in 1..l : a <= r[s[i]] /\ r[s[i]] <= b /\ r[s[i]] \in Nat
      /\ \A i, j \in 1..l : i < j => s[i] # s[j] /\ r[s[i]] <= r[s[j]]
      /\ \A i \in 1..n : c <= r[t[i]] /\ r[t[i]] <= d /\ r[t[i]] \in Nat
      /\ \A i, j \in 1..n : i < j => t[i] # t[j] /\ r[t[i]] <= r[t[j]]
  <2>1. \A i \in 1..l : r[s[i]] \in Nat
    BY <1>3
  <2>2. \A i \in 1..n : r[t[i]] \in Nat
    BY <1>4
  <2> QED
    BY <1>3, <1>4, <2>1, <2>2 DEF Climbs
<1>7. ASSUME NEW i \in 1..(l + n)
      PROVE  a <= r[q[i]] /\ r[q[i]] <= d
  <2>1. CASE i \in 1..l
    <3>1. q[i] = s[i] /\ a <= r[s[i]] /\ r[s[i]] <= b /\ r[s[i]] \in Nat
      BY <1>5, <1>6, <2>1
    <3>2. a <= r[q[i]] /\ r[q[i]] <= b /\ r[q[i]] \in Nat
      BY <3>1
    <3> QED
      BY <3>2
  <2>2. CASE i - l \in 1..n /\ q[i] = t[i - l]
    <3>1. c <= r[t[i - l]] /\ r[t[i - l]] <= d /\ r[t[i - l]] \in Nat
      BY <1>6, <2>2
    <3>2. c <= r[q[i]] /\ r[q[i]] <= d /\ r[q[i]] \in Nat
      BY <2>2, <3>1
    <3> QED
      BY <3>2
  <2> QED
    BY <1>5, <2>1, <2>2
<1>8. ASSUME NEW i \in 1..(l + n), NEW j \in 1..(l + n), i < j
      PROVE  q[i] # q[j] /\ r[q[i]] <= r[q[j]]
  <2>1. CASE i \in 1..l /\ j \in 1..l
    BY <1>5, <1>6, <1>8, <2>1
  <2>2. CASE i \in 1..l /\ j - l \in 1..n /\ q[j] = t[j - l]
    <3>1. r[q[i]] <= b /\ c <= r[q[j]] /\ r[q[i]] \in Nat /\ r[q[j]] \in Nat
      BY <1>5, <1>6, <2>2
    <3>2. r[q[i]] < r[q[j]]
      BY <3>1
    <3> QED
      BY <3>1, <3>2
  <2>3. CASE i - l \in 1..n /\ q[i] = t[i - l] /\ j - l \in 1..n /\ q[j] = t[j - l]
    <3>1. i - l < j - l
      BY <1>5, <1>8
    <3> QED
      BY <1>6, <2>3, <3>1
  <2>4. CASE i \notin 1..l /\ j \in 1..l
    BY <1>5, <1>8, <2>4
  <2> QED
    BY <1>5, <2>1, <2>2, <2>3, <2>4
<1>9. Climbs(q, r, a, d)
  BY <1>5, <1>7, <1>8 DEF Climbs
<1> QED
  BY <1>2, <1>9

\* The numbers of the line: none twice, none left out but the one of what is staged, which
\* the part of the line that reserves goes around.
LEMMA NumbersAre ==
  ASSUME NEW v, v.reserving \in Nat, v.reserving > 0, v.staged \in Int,
         NEW l \in Nat, v.reserving <= l
  PROVE  /\ \A n \in 1..l : IndexOfNth(v, n) \in Nat /\ IndexOfNth(v, n) >= Base(v)
         /\ \A n, k \in 1..l : n < k => IndexOfNth(v, n) < IndexOfNth(v, k)
         /\ \A n \in 1..l : n <= v.reserving => IndexOfNth(v, n) # v.staged
         /\ \A i \in Base(v)..IndexOfNth(v, l) :
              i = v.staged \/ \E n \in 1..l : IndexOfNth(v, n) = i
<1> DEFINE f(n) == IndexOfNth(v, n)
<1>1. PICK b : b = Base(v)
  OBVIOUS
<1>2. b \in {0, 1}
  BY <1>1 DEF Base
<1>3. PICK e : e = v.reserving
  OBVIOUS
<1>4. PICK g : g = v.staged
  OBVIOUS
<1>5. e \in Nat /\ e > 0 /\ g \in Int /\ e <= l
  BY <1>3, <1>4
<1>6. ASSUME NEW n \in 1..l
      PROVE  f(n) = IF b <= g /\ g <= b + (IF n <= e THEN n ELSE e) - 1 THEN b + n ELSE b + n - 1
  <2>1. PICK skips : skips = (b <= g /\ g <= b + (IF n <= e THEN n ELSE e) - 1)
    OBVIOUS
  <2>2. f(n) = b + n - 1 + (IF skips THEN 1 ELSE 0)
    BY <1>1, <1>3, <1>4, <2>1, Zenon DEF IndexOfNth, Base
  <2>3. n \in Int
    BY <1>6
  <2>4. CASE skips
    <3>1. f(n) = b + n - 1 + 1
      BY <2>2, <2>4
    <3>2. b + n - 1 + 1 = b + n
      BY <1>2, <2>3
    <3> QED
      BY <2>1, <2>4, <3>1, <3>2
  <2>5. CASE ~skips
    <3>1. f(n) = b + n - 1 + 0
      BY <2>2, <2>5
    <3>2. b + n - 1 + 0 = b + n - 1
      BY <1>2, <2>3
    <3> QED
      BY <2>1, <2>5, <3>1, <3>2
  <2> QED
    BY <2>4, <2>5
<1> HIDE DEF f
<1>7. \A n \in 1..l : f(n) \in Nat /\ f(n) >= b
  BY <1>2, <1>5, <1>6
<1>8. \A n, k \in 1..l : n < k => f(n) < f(k)
  BY <1>2, <1>5, <1>6
<1>9. \A n \in 1..l : n <= e => f(n) # g
  BY <1>2, <1>5, <1>6
<1>10. ASSUME NEW i \in b..f(l), i # g
       PROVE  \E n \in 1..l : f(n) = i
  <2>1. i \in Int /\ b <= i /\ i <= f(l) /\ l \in 1..l
    BY <1>2, <1>5, <1>7
  <2>2. CASE b <= g /\ g <= b + e - 1 /\ g < i
    <3>1. f(l) = b + l
      BY <1>2, <1>5, <1>6, <2>1, <2>2
    <3>2. i - b \in 1..l
      BY <1>2, <1>5, <2>1, <2>2, <3>1
    <3>3. f(i - b) = i
      <4>1. g <= b + (IF i - b <= e THEN i - b ELSE e) - 1
        BY <1>2, <1>5, <2>1, <2>2
      <4>2. f(i - b) = b + (i - b)
        BY <1>6, <2>2, <3>2, <4>1
      <4> QED
        BY <1>2, <2>1, <4>2
    <3> QED
      BY <3>2, <3>3
  <2>3. CASE b <= g /\ g <= b + e - 1 /\ i < g
    <3>1. (i - b) + 1 \in 1..l /\ (i - b) + 1 <= e
      BY <1>2, <1>5, <2>1, <2>3
    <3>2. f((i - b) + 1) = i
      <4>1. ~(g <= b + ((i - b) + 1) - 1)
        BY <1>2, <1>5, <2>1, <2>3
      <4>2. f((i - b) + 1) = b + ((i - b) + 1) - 1
        BY <1>6, <3>1, <4>1
      <4> QED
        BY <1>2, <2>1, <4>2
    <3> QED
      BY <3>1, <3>2
  <2>4. CASE ~(b <= g /\ g <= b + e - 1)
    <3>1. \A n \in 1..l : f(n) = b + n - 1
      BY <1>2, <1>5, <1>6, <2>4
    <3>2. (i - b) + 1 \in 1..l
      BY <1>2, <1>5, <2>1, <3>1
    <3>3. f((i - b) + 1) = i
      <4>1. f((i - b) + 1) = b + ((i - b) + 1) - 1
        BY <3>1, <3>2
      <4> QED
        BY <1>2, <2>1, <4>1
    <3> QED
      BY <3>2, <3>3
  <2> QED
    BY <1>5, <1>10, <2>1, <2>2, <2>3, <2>4
<1>11. /\ \A n \in 1..l : f(n) \in Nat /\ f(n) >= Base(v)
       /\ \A n, k \in 1..l : n < k => f(n) < f(k)
       /\ \A n \in 1..l : n <= v.reserving => f(n) # v.staged
       /\ \A i \in Base(v)..f(l) : i = v.staged \/ \E n \in 1..l : f(n) = i
  BY <1>1, <1>3, <1>4, <1>7, <1>8, <1>9, <1>10
<1> QED
  BY <1>11 DEF f

\* From left to right: the stash's button, what can be collapsed, the toggle, what is pinned,
\* the quick settings and the fixed plugins.
RankIn(m) ==
  [x \in DockItem |->
     CASE x = ShowStash -> 0 [] x = Toggle -> 2 [] x = Quick -> 4
       [] OTHER -> IF x \in ToSet(m.list["collapsable"]) THEN 1
                   ELSE IF x \in ToSet(m.list["pinned"]) THEN 3 ELSE 5]

LEMMA RanksAre ==
  ASSUME NEW m, Ready(m)
  PROVE  /\ RankIn(m) \in [DockItem -> Nat]
         /\ RankIn(m)[ShowStash] = 0 /\ RankIn(m)[Toggle] = 2 /\ RankIn(m)[Quick] = 4
         /\ \A s \in Surface : /\ s \in ToSet(m.list["collapsable"]) => RankIn(m)[s] = 1
                               /\ s \in ToSet(m.list["pinned"]) => RankIn(m)[s] = 3
                               /\ s \in ToSet(m.list["fixed"]) => RankIn(m)[s] = 5
<1>1. {ShowStash, Toggle, Quick} \subseteq DockItem /\ Surface \subseteq DockItem
  BY DEF DockItem, Internal
<1>2. /\ ToSet(m.list["pinned"]) \cap ToSet(m.list["collapsable"]) = {}
      /\ ToSet(m.list["fixed"]) \cap ToSet(m.list["collapsable"]) = {}
      /\ ToSet(m.list["fixed"]) \cap ToSet(m.list["pinned"]) = {}
  BY DEF Ready, Once, Section
<1>3. RankIn(m) \in [DockItem -> Nat]
  BY DEF RankIn
<1>4. RankIn(m)[ShowStash] = 0 /\ RankIn(m)[Toggle] = 2 /\ RankIn(m)[Quick] = 4
  BY <1>1, InternalDiffers DEF RankIn
<1>5. \A s \in Surface :
        RankIn(m)[s] = IF s \in ToSet(m.list["collapsable"]) THEN 1
                       ELSE IF s \in ToSet(m.list["pinned"]) THEN 3 ELSE 5
  BY <1>1, InternalDiffers DEF RankIn
<1> QED
  BY <1>2, <1>3, <1>4, <1>5

\* What is shown of a section has the section's rank.
LEMMA ShownRank ==
  ASSUME NEW m, Ready(m)
  PROVE  /\ Climbs(OpenSection(m), RankIn(m), 1, 1) /\ Climbs(ToggleItem(m), RankIn(m), 2, 2)
         /\ Climbs(Shown(m, "pinned"), RankIn(m), 3, 3) /\ Climbs(<<Quick>>, RankIn(m), 4, 4)
         /\ Climbs(Shown(m, "fixed"), RankIn(m), 5, 5)
<1>1. m \in ModelSet /\ {"collapsable", "pinned", "fixed"} \subseteq Section
      /\ \A c \in Section : IsInjective(m.list[c])
  BY DEF Ready, Section, Once
<1>2. \A c \in Section : /\ IsInjective(Shown(m, c))
                         /\ ToSet(Shown(m, c)) \subseteq ToSet(m.list[c]) \cap Surface
  BY <1>1, ShownIs
<1>3. RankIn(m) \in [DockItem -> Nat]
  BY RanksAre
<1>4. \A r, k : Climbs(<<>>, r, k, k)
  BY DEF Climbs
<1>5. /\ OpenSection(m) \in Seq(DockItem) /\ ToggleItem(m) \in Seq(DockItem)
      /\ Shown(m, "pinned") \in Seq(DockItem) /\ Shown(m, "fixed") \in Seq(DockItem)
      /\ <<Quick>> \in Seq(DockItem)
  BY <1>1, LineItems
<1>6. Climbs(OpenSection(m), RankIn(m), 1, 1)
  <2>1. CASE m.collapsed
    BY <1>4, <2>1 DEF OpenSection
  <2>2. CASE ~m.collapsed
    <3>1. OpenSection(m) = Shown(m, "collapsable")
      BY <2>2 DEF OpenSection
    <3>2. \A x \in ToSet(OpenSection(m)) : RankIn(m)[x] = 1
      BY <1>1, <1>2, <3>1, RanksAre
    <3>3. IsInjective(OpenSection(m))
      BY <1>1, <1>2, <3>1
    <3> QED
      BY <1>3, <1>5, <3>2, <3>3, ClimbsFlat
  <2> QED
    BY <2>1, <2>2
<1>7. \A x : IsInjective(<<x>>) /\ ToSet(<<x>>) = {x}
  BY DEF IsInjective, ToSet
<1>8. Climbs(ToggleItem(m), RankIn(m), 2, 2)
  <2>1. CASE ToggleItem(m) = <<>>
    BY <1>4, <2>1
  <2>2. CASE ToggleItem(m) = <<Toggle>>
    <3>1. \A x \in ToSet(ToggleItem(m)) : RankIn(m)[x] = 2
      BY <1>7, <2>2, RanksAre
    <3>2. IsInjective(ToggleItem(m))
      BY <1>7, <2>2
    <3> QED
      BY <1>3, <1>5, <3>1, <3>2, ClimbsFlat
  <2> QED
    BY <2>1, <2>2 DEF ToggleItem
<1>9. Climbs(Shown(m, "pinned"), RankIn(m), 3, 3)
  <2>1. \A x \in ToSet(Shown(m, "pinned")) : RankIn(m)[x] = 3
    BY <1>1, <1>2, RanksAre
  <2> QED
    BY <1>1, <1>2, <1>3, <1>5, <2>1, ClimbsFlat
<1>10. Climbs(<<Quick>>, RankIn(m), 4, 4)
  <2>1. \A x \in ToSet(<<Quick>>) : RankIn(m)[x] = 4
    BY <1>7, RanksAre
  <2> QED
    BY <1>3, <1>5, <1>7, <2>1, ClimbsFlat
<1>11. Climbs(Shown(m, "fixed"), RankIn(m), 5, 5)
  <2>1. \A x \in ToSet(Shown(m, "fixed")) : RankIn(m)[x] = 5
    BY <1>1, <1>2, RanksAre
  <2> QED
    BY <1>1, <1>2, <1>3, <1>5, <2>1, ClimbsFlat
<1> QED
  BY <1>6, <1>8, <1>9, <1>10, <1>11

\* The line climbs, and the part of it that reserves is the part left of the fixed plugins.
LEMMA LineClimbs ==
  ASSUME NEW m, Ready(m), NEW line, line = Layout(m).line, NEW e, e = Layout(m).reserving
  PROVE  /\ line \in Seq(DockItem) /\ e \in Nat /\ e > 0 /\ e <= Len(line)
         /\ Climbs(line, RankIn(m), 1, 5)
         /\ \A n \in 1..Len(line) : n > e => RankIn(m)[line[n]] = 5
<1>1. m \in ModelSet
  BY DEF Ready
<1>2. PICK res : res = ReservingItems(m)
  OBVIOUS
<1>3. PICK fix : fix = Shown(m, "fixed")
  OBVIOUS
<1>4. line = res \o fix /\ e = Len(res)
  BY <1>1, <1>2, <1>3, LayoutIs
<1>5. /\ OpenSection(m) \in Seq(DockItem) /\ ToggleItem(m) \in Seq(DockItem)
      /\ Shown(m, "pinned") \in Seq(DockItem) /\ <<Quick>> \in Seq(DockItem)
      /\ res \in Seq(DockItem) /\ fix \in Seq(DockItem) /\ Len(res) \in Nat \ {0}
  BY <1>1, <1>2, <1>3, LineItems
<1>6. RankIn(m) \in [DockItem -> Nat]
  BY RanksAre
<1>7. PICK r : r = RankIn(m)
  OBVIOUS
<1>14. ASSUME NEW s \in Seq(DockItem), NEW t \in Seq(DockItem), NEW b \in Nat, NEW d \in Nat,
             1 <= b, b < d, Climbs(s, r, 1, b), Climbs(t, r, d, d)
      PROVE  Climbs(s \o t, r, 1, d)
  <2>1. 1 \in Nat /\ d <= d /\ r \in [DockItem -> Nat]
    BY <1>6, <1>7
  <2> QED
    BY <1>14, <2>1, ClimbsJoin
<1>15. /\ Climbs(OpenSection(m), r, 1, 1) /\ Climbs(ToggleItem(m), r, 2, 2)
       /\ Climbs(Shown(m, "pinned"), r, 3, 3) /\ Climbs(<<Quick>>, r, 4, 4)
       /\ Climbs(fix, r, 5, 5)
  BY <1>3, <1>7, ShownRank
<1>8. Climbs(res, r, 1, 4)
  <2>1. PICK a : a = OpenSection(m) \o ToggleItem(m)
    OBVIOUS
  <2>2. PICK b : b = a \o Shown(m, "pinned")
    OBVIOUS
  <2>3. a \in Seq(DockItem) /\ b \in Seq(DockItem)
    BY <1>5, <2>1, <2>2, JoinedItems
  <2>4. Climbs(a, r, 1, 2)
    BY <1>5, <1>14, <1>15, <2>1
  <2>5. Climbs(b, r, 1, 3)
    BY <1>5, <1>14, <1>15, <2>2, <2>3, <2>4
  <2>6. PICK q : q = <<Quick>>
    OBVIOUS
  <2>7. res = b \o q
    BY <1>2, <2>1, <2>2, <2>6 DEF ReservingItems
  <2>8. q \in Seq(DockItem) /\ Climbs(q, r, 4, 4)
    BY <1>5, <1>15, <2>6
  <2>9. Climbs(b \o q, r, 1, 4)
    BY <1>14, <2>3, <2>5, <2>8
  <2> QED
    BY <2>7, <2>9
<1>10. Climbs(line, r, 1, 5)
  BY <1>4, <1>5, <1>8, <1>14, <1>15
<1>11. /\ line \in Seq(DockItem) /\ Len(line) = Len(res) + Len(fix) /\ Len(fix) \in Nat
       /\ \A k \in 1..Len(res) + Len(fix) :
            line[k] = IF k <= Len(res) THEN res[k] ELSE fix[k - Len(res)]
  BY <1>4, <1>5, JoinedItems
<1>12. ASSUME NEW n \in 1..Len(line), n > e PROVE r[line[n]] = 5
  <2>1. n - Len(res) \in 1..Len(fix) /\ line[n] = fix[n - Len(res)]
    BY <1>4, <1>5, <1>11, <1>12
  <2>2. fix[n - Len(res)] \in DockItem
    BY <1>5, <2>1
  <2> QED
    BY <1>6, <1>7, <1>15, <2>1, <2>2 DEF Climbs
<1>13. e \in Nat /\ e > 0 /\ e <= Len(line)
  BY <1>4, <1>5, <1>11
<1> QED
  BY <1>7, <1>10, <1>11, <1>12, <1>13

\* Who is in the line.
LEMMA InLine ==
  ASSUME NEW m, Ready(m), NEW x
  PROVE  x \in ToSet(Layout(m).line) <=>
           \/ x = Quick
           \/ x = Toggle /\ Layout(m).toggle
           \/ ~m.collapsed /\ x \in ToSet(Shown(m, "collapsable"))
           \/ x \in ToSet(Shown(m, "pinned"))
           \/ x \in ToSet(Shown(m, "fixed"))
<1>1. m \in ModelSet
  BY DEF Ready
<1>2. /\ OpenSection(m) \in Seq(DockItem) /\ ToggleItem(m) \in Seq(DockItem)
      /\ Shown(m, "pinned") \in Seq(DockItem) /\ <<Quick>> \in Seq(DockItem)
      /\ ReservingItems(m) \in Seq(DockItem) /\ Shown(m, "fixed") \in Seq(DockItem)
  BY <1>1, LineItems
<1>3. PICK a : a = OpenSection(m) \o ToggleItem(m)
  OBVIOUS
<1>4. PICK b : b = a \o Shown(m, "pinned")
  OBVIOUS
<1>5. a \in Seq(DockItem) /\ b \in Seq(DockItem)
  BY <1>2, <1>3, <1>4, JoinedItems
<1>6. ReservingItems(m) = b \o <<Quick>>
  BY <1>3, <1>4 DEF ReservingItems
<1>7. ToSet(a) = ToSet(OpenSection(m)) \cup ToSet(ToggleItem(m))
  BY <1>2, <1>3, JoinedSets
<1>8. ToSet(b) = ToSet(a) \cup ToSet(Shown(m, "pinned"))
  BY <1>2, <1>4, <1>5, JoinedSets
<1>9. ToSet(ReservingItems(m)) = ToSet(b) \cup ToSet(<<Quick>>)
  BY <1>2, <1>5, <1>6, JoinedSets
<1>10. ToSet(Layout(m).line) = ToSet(ReservingItems(m)) \cup ToSet(Shown(m, "fixed"))
  <2>1. Layout(m).line = ReservingItems(m) \o Shown(m, "fixed")
    BY <1>1, LayoutIs
  <2>2. PICK p : p = ReservingItems(m)
    OBVIOUS
  <2>3. PICK q : q = Shown(m, "fixed")
    OBVIOUS
  <2>4. ToSet(p \o q) = ToSet(p) \cup ToSet(q)
    BY <1>2, <2>2, <2>3, JoinedSets
  <2> QED
    BY <2>1, <2>2, <2>3, <2>4
<1>11. ToSet(<<>>) = {} /\ ToSet(<<Quick>>) = {Quick} /\ ToSet(<<Toggle>>) = {Toggle}
  BY DEF ToSet
<1>12. ToSet(OpenSection(m)) = IF m.collapsed THEN {} ELSE ToSet(Shown(m, "collapsable"))
  BY <1>11 DEF OpenSection
<1>13. ToSet(ToggleItem(m)) = IF Layout(m).toggle THEN {Toggle} ELSE {}
  <2>1. ToggleItem(m) = IF Layout(m).toggle THEN <<Toggle>> ELSE <<>>
    BY <1>1, LayoutIs DEF ToggleItem
  <2> QED
    BY <1>11, <2>1
<1> QED
  BY <1>7, <1>8, <1>9, <1>10, <1>11, <1>12, <1>13

\* The number of who is in the line.
LEMMA LineNumber ==
  ASSUME NEW m, Ready(m), NEW x
  PROVE  /\ x \in ToSet(Layout(m).line) =>
              /\ LineIndex(m, x) >= 0
              /\ \E n \in 1..Len(Layout(m).line) : /\ Layout(m).line[n] = x
                                                   /\ LineIndex(m, x) = IndexOfNth(Layout(m), n)
         /\ x \notin ToSet(Layout(m).line) => LineIndex(m, x) = -1
<1>1. PICK line : line = Layout(m).line
  OBVIOUS
<1>2. /\ line \in Seq(DockItem) /\ Layout(m).reserving \in Nat /\ Layout(m).reserving > 0
      /\ Layout(m).reserving <= Len(line) /\ Len(line) \in Nat
  <2>1. \A s \in Seq(DockItem) : Len(s) \in Nat
    OBVIOUS
  <2> QED
    BY <1>1, <2>1, LineClimbs
<1>3. Layout(m).staged \in Int
  BY LayoutIs DEF Ready, ModelSet
<1>4. Contains(line, x) <=> x \in ToSet(line)
  BY <1>2, ListContains
<1>5. CASE x \in ToSet(line)
  <2>1. NthOf(line, x) \in 1..Len(line) /\ line[NthOf(line, x)] = x
    BY <1>2, <1>5, NthIs
  <2>2. LineIndex(m, x) = IndexOfNth(Layout(m), NthOf(line, x))
    BY <1>1, <1>4, <1>5 DEF LineIndex
  <2>3. \A n \in 1..Len(line) : IndexOfNth(Layout(m), n) \in Nat
    BY <1>2, <1>3, NumbersAre
  <2>4. LineIndex(m, x) >= 0
    BY <2>1, <2>2, <2>3
  <2> QED
    BY <1>1, <1>5, <2>1, <2>2, <2>4
<1>6. CASE x \notin ToSet(line)
  BY <1>1, <1>4, <1>6 DEF LineIndex
<1> QED
  BY <1>1, <1>5, <1>6

\* What is shown of the stash has a number there.
LEMMA StashNumber ==
  ASSUME NEW m, Ready(m), NEW x
  PROVE  NthOf(Layout(m).stash, x) - 1 >= 0 <=> x \in ToSet(Shown(m, "stashed"))
<1>1. PICK q : q = Shown(m, "stashed")
  OBVIOUS
<1>2. q \in Seq(Item) /\ Layout(m).stash = q
  BY <1>1, ShownIs, LayoutIs DEF Ready, Section
<1>3. /\ x \in ToSet(q) => NthOf(q, x) \in 1..Len(q)
      /\ x \notin ToSet(q) => NthOf(q, x) = 0
  BY <1>2, NthIs
<1>4. Len(q) \in Nat
  BY <1>2
<1> QED
  BY <1>1, <1>2, <1>3, <1>4

\* The rows of the surfaces.
LEMMA SurfaceNumber ==
  ASSUME NEW m, Ready(m), NEW x \in Surface \cap DOMAIN m.row, NEW r, r = NewRow(m, Layout(m), x)
  PROVE  /\ (r.index >= 0 /\ r.section # "stashed") <=> x \in ToSet(Layout(m).line)
         /\ x \in ToSet(Layout(m).line) =>
              /\ r.index = LineIndex(m, x)
              /\ RankIn(m)[x] = CASE r.section = "collapsable" -> 1 [] r.section = "pinned" -> 3
                                  [] OTHER -> 5
         /\ r.index >= 0 <=> /\ r.visible /\ r.dockVisible
                             /\ ~(m.collapsed /\ r.section = "collapsable")
<1>1. PICK c \in Section : x \in ToSet(m.list[c])
  BY DEF Ready
<1>2. m \in ModelSet /\ m.collapsed \in BOOLEAN
      /\ \A b \in Section : x \in ToSet(m.list[b]) => b = c
  BY <1>1, ModelParts DEF Ready, Once
<1>3. PICK n : n = IF c = "stashed" THEN NthOf(Layout(m).stash, x) - 1 ELSE LineIndex(m, x)
  OBVIOUS
<1>4. PICK seen : seen = ItemVisible(m, c, x)
  OBVIOUS
<1>5. r = [section |-> c, visible |-> seen, dockVisible |-> x \notin m.dockHidden, index |-> n]
  BY <1>1, <1>3, <1>4, SurfaceRow
<1>11. r.section = c /\ r.index = n /\ (r.visible <=> seen) /\ (r.dockVisible <=> x \notin m.dockHidden)
  <2>1. PICK dock : dock = (x \notin m.dockHidden)
    OBVIOUS
  <2>2. r = [section |-> c, visible |-> seen, dockVisible |-> dock, index |-> n]
    BY <1>5, <2>1, Zenon
  <2>3. r.section = c /\ r.index = n /\ r.visible = seen /\ r.dockVisible = dock
    BY <2>2
  <2> QED
    BY <2>1, <2>3, Zenon
<1>6. \A b \in Section : x \in ToSet(Shown(m, b)) <=> b = c /\ seen /\ x \notin m.dockHidden
  <2>1. ASSUME NEW b \in Section
        PROVE  x \in ToSet(Shown(m, b)) <=>
                 x \in ToSet(m.list[b]) /\ ItemVisible(m, b, x) /\ x \notin m.dockHidden
    BY <1>2, ShownIs
  <2> QED
    BY <1>1, <1>2, <1>4, <2>1
<1>7. x # Quick /\ x # Toggle /\ {"stashed", "collapsable", "pinned", "fixed"} = Section
  BY InternalDiffers DEF Section
<1>8. x \in ToSet(Layout(m).line) <=>
        /\ seen /\ x \notin m.dockHidden
        /\ c # "stashed" /\ ~(m.collapsed /\ c = "collapsable")
  BY <1>6, <1>7, InLine
<1>9. CASE c = "stashed"
  <2>1. n >= 0 <=> seen /\ x \notin m.dockHidden
    BY <1>3, <1>6, <1>7, <1>9, StashNumber
  <2>2. /\ r.index >= 0 <=> seen /\ x \notin m.dockHidden
        /\ r.section = "stashed" /\ r.section # "collapsable"
        /\ x \notin ToSet(Layout(m).line)
    BY <1>8, <1>9, <1>11, <2>1
  <2> QED
    BY <1>11, <2>2, Zenon
<1>10. CASE c # "stashed"
  <2>1. n = LineIndex(m, x)
    BY <1>3, <1>10
  <2>2. n >= 0 <=> x \in ToSet(Layout(m).line)
    BY <2>1, LineNumber
  <2>3. RankIn(m)[x] = CASE c = "collapsable" -> 1 [] c = "pinned" -> 3 [] OTHER -> 5
    BY <1>1, <1>7, <1>10, RanksAre
  <2>4. /\ r.index >= 0 <=> x \in ToSet(Layout(m).line)
        /\ r.index = LineIndex(m, x) /\ r.section # "stashed"
    BY <1>10, <1>11, <2>1, <2>2
  <2>5. RankIn(m)[x] = CASE r.section = "collapsable" -> 1 [] r.section = "pinned" -> 3
                         [] OTHER -> 5
    BY <1>11, <2>3
  <2>6. r.index >= 0 <=> /\ r.visible /\ r.dockVisible
                         /\ ~(m.collapsed /\ r.section = "collapsable")
    BY <1>8, <1>10, <1>11, <2>4, Zenon
  <2> QED
    BY <2>4, <2>5, <2>6, Zenon
<1> QED
  BY <1>9, <1>10

\* The rows of the model itself.
LEMMA InternalNumber ==
  ASSUME NEW m, Ready(m), NEW x \in Internal, NEW r, r = NewRow(m, Layout(m), x)
  PROVE  /\ (r.index >= 0 /\ r.section # "stashed") <=>
              x \in ToSet(Layout(m).line) \/ (x = ShowStash /\ Layout(m).showStash)
         /\ x \in ToSet(Layout(m).line) => r.index = LineIndex(m, x)
         /\ x = ShowStash /\ Layout(m).showStash => r.index = 0
<1>1. /\ m.row \in Rows /\ Internal \subseteq DOMAIN m.row /\ m \in ModelSet
  BY DEF Ready, ModelSet
<1>2. m.row[x] \in RowType /\ r.section = IF x = Placeholder THEN "stashed"
                                          ELSE IF x = Quick THEN "fixed" ELSE "tray-action"
  <2>1. x \in DOMAIN m.row
    BY <1>1
  <2> QED
    BY <1>1, <2>1, RowsOf, RowIs, InternalDiffers DEF Internal
<1>3. \A y \in ToSet(Layout(m).line) : y \in Surface \/ y \in {Toggle, Quick}
  <2>1. {"collapsable", "pinned", "fixed"} \subseteq Section
    BY DEF Section
  <2>2. \A c \in Section : ToSet(Shown(m, c)) \subseteq Surface
    BY <1>1, ShownIs
  <2> QED
    BY <2>1, <2>2, InLine
<1>4. CASE x = Placeholder
  BY <1>2, <1>3, <1>4, InternalDiffers DEF Internal
<1>5. CASE x = ShowStash
  <2> DEFINE b == Layout(m).showStash
             n == IF Layout(m).showStash THEN 0 ELSE -1
  <2>1. r = Seen(m.row[ShowStash], b, n)
    BY <1>5, InternalRow
  <2> HIDE DEF b, n
  <2>2. r.index = n
    BY <1>2, <1>5, <2>1 DEF Seen, RowType
  <2>3. x \notin ToSet(Layout(m).line)
    BY <1>3, <1>5, InternalDiffers
  <2>4. Layout(m).showStash \in BOOLEAN
    BY <1>1, LayoutIs, ModelParts, Zenon
  <2> QED
    BY <1>2, <1>5, <2>2, <2>3, <2>4, InternalDiffers DEF n
<1>6. CASE x = Toggle
  <2> DEFINE b == Layout(m).toggle
             n == LineIndex(m, Toggle)
  <2>1. r = Seen(m.row[Toggle], b, n)
    BY <1>6, InternalRow
  <2> HIDE DEF b, n
  <2>2. r.index = n
    BY <1>2, <1>6, <2>1 DEF Seen, RowType
  <2> QED
    BY <1>2, <1>6, <2>2, LineNumber, InternalDiffers DEF n
<1>7. CASE x = Quick
  <2> DEFINE n == LineIndex(m, Quick)
  <2>1. r = [m.row[Quick] EXCEPT !.section = "fixed", !.index = n]
    BY <1>7, InternalRow
  <2> HIDE DEF n
  <2>2. r.index = n
    BY <1>2, <1>7, <2>1 DEF RowType
  <2> QED
    BY <1>2, <1>7, <2>2, LineNumber, InternalDiffers DEF n
<1> QED
  BY <1>4, <1>5, <1>6, <1>7 DEF Internal

\* The numbers of a model whose rows were written.
LEMMA NumberedHolds == ASSUME TrayInv PROVE Numbered
<1>1. PICK m : Ready(m) /\ model = Laid(m)
  BY DEF TrayInv
<1>2. /\ model.row = [x \in DOMAIN m.row |-> NewRow(m, Layout(m), x)]
      /\ model.count = IndexOfNth(Layout(m), Len(Layout(m).line)) + 1
      /\ model.staged = m.staged /\ model.collapsed = m.collapsed /\ model.list = m.list
  BY <1>1, LaidIs
<1>3. PICK v : v = Layout(m)
  OBVIOUS
<1>4. PICK line : line = v.line
  OBVIOUS
<1>5. PICK l : l = Len(line)
  OBVIOUS
<1>6. PICK r : r = RankIn(m)
  OBVIOUS
<1>7. PICK f : f = [n \in 1..l |-> IndexOfNth(v, n)]
  OBVIOUS
<1>8. PICK num : num = [x \in DOMAIN m.row |-> model.row[x].index]
  OBVIOUS
<1>9. PICK docked : docked = {x \in DOMAIN model.row : Indexed(x)}
  OBVIOUS
<1>10. /\ line \in Seq(DockItem) /\ v.reserving \in Nat /\ v.reserving > 0
       /\ v.reserving <= l /\ l \in Nat /\ DOMAIN line = 1..l
       /\ Climbs(line, r, 1, 5) /\ r \in [DockItem -> Nat]
       /\ \A n \in 1..l : n > v.reserving => r[line[n]] = 5
  <2>1. \A s \in Seq(DockItem) : Len(s) \in Nat /\ DOMAIN s = 1..Len(s)
    OBVIOUS
  <2> QED
    BY <1>1, <1>3, <1>4, <1>5, <1>6, <2>1, LineClimbs, RanksAre
<1>11. v.staged = model.staged.index /\ v.staged \in Int
  <2>1. v.staged = IF m.staged.id = NoSurface THEN -1 ELSE m.staged.index
    BY <1>1, <1>3, LayoutIs DEF Ready
  <2>2. m.staged.index \in Int
    BY <1>1, ModelParts DEF Ready
  <2> QED
    BY <1>1, <1>2, <2>1, <2>2 DEF Ready, StagedWell
<1>12. /\ \A n \in 1..l : f[n] \in Nat /\ f[n] >= Base(v)
       /\ \A n, k \in 1..l : n < k => f[n] < f[k]
       /\ \A n \in 1..l : n <= v.reserving => f[n] # v.staged
       /\ \A i \in Base(v)..f[l] : i = v.staged \/ \E n \in 1..l : f[n] = i
       /\ model.count = f[l] + 1 /\ l \in 1..l
  <2>1. l \in 1..l
    BY <1>10
  <2>2. \A n \in 1..l : f[n] = IndexOfNth(v, n)
    BY <1>7
  <2>3. /\ \A n \in 1..l : IndexOfNth(v, n) \in Nat /\ IndexOfNth(v, n) >= Base(v)
        /\ \A n, k \in 1..l : n < k => IndexOfNth(v, n) < IndexOfNth(v, k)
        /\ \A n \in 1..l : n <= v.reserving => IndexOfNth(v, n) # v.staged
        /\ \A i \in Base(v)..IndexOfNth(v, l) :
             i = v.staged \/ \E n \in 1..l : IndexOfNth(v, n) = i
    BY <1>10, <1>11, NumbersAre
  <2>4. model.count = f[l] + 1
    BY <1>2, <1>3, <1>4, <1>5, <2>1, <2>2
  <2>5. \A i \in Base(v)..f[l] : i = v.staged \/ \E n \in 1..l : f[n] = i
    <3>1. f[l] = IndexOfNth(v, l)
      BY <2>1, <2>2
    <3> QED
      BY <2>2, <2>3, <3>1
  <2>6. \A n, k \in 1..l : n < k => f[n] < f[k]
    BY <2>2, <2>3
  <2> QED
    BY <2>1, <2>2, <2>3, <2>4, <2>5, <2>6
<1>13. Base(v) = (IF v.showStash THEN 1 ELSE 0)
  BY DEF Base
<1>14. /\ DOMAIN m.row \subseteq Internal \cup Surface /\ Internal \subseteq DOMAIN m.row
       /\ DOMAIN model.row = DOMAIN m.row /\ m \in ModelSet
  BY <1>1, <1>2, ModelParts, RowsOf DEF Ready
<1>15. ToSet(line) \subseteq DOMAIN m.row
  <2>1. {"collapsable", "pinned", "fixed"} \subseteq Section /\ {Toggle, Quick} \subseteq Internal
    BY DEF Section, Internal
  <2>2. \A c \in Section : ToSet(Shown(m, c)) \subseteq DOMAIN m.row
    BY <1>14, ShownIs
  <2> QED
    BY <1>1, <1>3, <1>4, <1>14, <2>1, <2>2, InLine
<1>16. ASSUME NEW x \in DOMAIN m.row
       PROVE  /\ x \in docked <=> x \in ToSet(line) \/ (x = ShowStash /\ v.showStash)
              /\ x \in ToSet(line) => num[x] = LineIndex(m, x)
              /\ x = ShowStash /\ v.showStash => num[x] = 0
              /\ x \in docked => Rank(x) = r[x]
  <2>1. PICK row : row = NewRow(m, Layout(m), x)
    OBVIOUS
  <2>2. /\ model.row[x] = row /\ num[x] = row.index
        /\ x \in docked <=> row.index >= 0 /\ row.section # "stashed"
    BY <1>2, <1>8, <1>9, <2>1 DEF Indexed
  <2>3. CASE x \in Surface
    <3>1. x # ShowStash /\ x # Toggle /\ x # Quick
      BY <2>3, InternalDiffers
    <3>2. /\ (row.index >= 0 /\ row.section # "stashed") <=> x \in ToSet(line)
          /\ x \in ToSet(line) =>
               /\ row.index = LineIndex(m, x)
               /\ r[x] = CASE row.section = "collapsable" -> 1 [] row.section = "pinned" -> 3
                           [] OTHER -> 5
      BY <1>1, <1>3, <1>4, <1>6, <2>1, <2>3, SurfaceNumber
    <3>3. Rank(x) = CASE row.section = "collapsable" -> 1 [] row.section = "pinned" -> 3
                      [] OTHER -> 5
      BY <2>2, <3>1 DEF Rank
    <3> QED
      BY <2>2, <3>1, <3>2, <3>3
  <2>4. CASE x \in Internal
    <3>1. /\ (row.index >= 0 /\ row.section # "stashed") <=>
               x \in ToSet(line) \/ (x = ShowStash /\ v.showStash)
          /\ x \in ToSet(line) => row.index = LineIndex(m, x)
          /\ x = ShowStash /\ v.showStash => row.index = 0
      BY <1>1, <1>3, <1>4, <2>1, <2>4, InternalNumber
    <3>2. x \in docked => x # Placeholder
      <4>1. x = Placeholder => row.section = "stashed"
        BY <1>1, <2>1, RowIs
      <4> QED
        BY <2>2, <4>1
    <3>3. x \in docked => Rank(x) = r[x]
      <4>1. /\ Rank(ShowStash) = 0 /\ Rank(Toggle) = 2 /\ Rank(Quick) = 4
        BY InternalDiffers DEF Rank
      <4> QED
        BY <1>1, <1>6, <2>4, <3>2, <4>1, RanksAre DEF Internal
    <3> QED
      BY <2>2, <3>1, <3>3
  <2> QED
    BY <1>14, <2>3, <2>4
<1>17. docked \subseteq DOMAIN m.row /\ ShowStash \in DOMAIN m.row
  BY <1>9, <1>14 DEF Internal
<1>18. ASSUME NEW x \in ToSet(line)
       PROVE  \E n \in 1..l : line[n] = x /\ num[x] = f[n]
  <2>1. x \in DOMAIN m.row /\ num[x] = LineIndex(m, x)
    BY <1>15, <1>16
  <2>2. PICK n \in 1..l : line[n] = x /\ LineIndex(m, x) = IndexOfNth(v, n)
    BY <1>1, <1>3, <1>4, <1>5, <1>18, LineNumber
  <2> QED
    BY <1>7, <2>1, <2>2
<1>19. \A n \in 1..l : line[n] \in ToSet(line) /\ line[n] \in DockItem /\ r[line[n]] \in Nat
  <2>1. \A n \in 1..l : line[n] \in ToSet(line) /\ line[n] \in DockItem
    BY <1>10 DEF ToSet
  <2> QED
    BY <1>10, <2>1
<1>20. \A n \in 1..l : num[line[n]] = f[n]
  <2>1. ASSUME NEW n \in 1..l PROVE num[line[n]] = f[n]
    <3>1. PICK k \in 1..l : line[k] = line[n] /\ num[line[n]] = f[k]
      BY <1>18, <1>19
    <3>2. ~(k < n) /\ ~(n < k)
      BY <1>10, <3>1 DEF Climbs
    <3>3. k = n
      BY <1>10, <3>2
    <3> QED
      BY <3>1, <3>3
  <2> QED
    BY <2>1
<1>21. ASSUME NEW x \in docked
       PROVE  \/ x = ShowStash /\ num[x] = 0 /\ Base(v) = 1 /\ r[x] = 0
              \/ \E n \in 1..l : x = line[n] /\ num[x] = f[n]
  <2>1. CASE x \in ToSet(line)
    BY <1>18, <2>1
  <2>2. CASE x = ShowStash /\ v.showStash
    BY <1>1, <1>6, <1>13, <1>16, <1>17, <2>2, RanksAre
  <2> QED
    BY <1>16, <1>17, <2>1, <2>2
<1>22. \A n \in 1..l : line[n] \in docked
  BY <1>15, <1>16, <1>19
<1>23. ASSUME NEW x \in docked, NEW y \in docked
       PROVE  /\ num[x] = num[y] => x = y
              /\ r[x] < r[y] => num[x] < num[y]
  <2>1. CASE x = ShowStash /\ num[x] = 0 /\ Base(v) = 1 /\ r[x] = 0
    <3>1. CASE y = ShowStash
      BY <2>1, <3>1
    <3>2. ASSUME NEW n \in 1..l, y = line[n], num[y] = f[n]
          PROVE  num[x] < num[y]
      BY <1>12, <2>1, <3>2
    <3>3. num[x] \in Int /\ (y = ShowStash => num[y] = num[x])
      BY <2>1
    <3>4. y = ShowStash \/ (num[x] < num[y] /\ num[y] \in Int)
      BY <1>12, <1>21, <3>2
    <3> QED
      BY <2>1, <3>1, <3>3, <3>4
  <2>2. ASSUME NEW n \in 1..l, x = line[n], num[x] = f[n]
        PROVE  /\ num[x] = num[y] => x = y
               /\ r[x] < r[y] => num[x] < num[y]
    <3>1. CASE y = ShowStash /\ num[y] = 0 /\ Base(v) = 1 /\ r[y] = 0
      <4>1. r[x] \in Nat /\ num[x] \in Nat /\ num[x] >= 1
        BY <1>12, <1>19, <2>2, <3>1
      <4> QED
        BY <3>1, <4>1
    <3>2. ASSUME NEW k \in 1..l, y = line[k], num[y] = f[k]
          PROVE  /\ num[x] = num[y] => x = y
                 /\ r[x] < r[y] => num[x] < num[y]
      <4>1. n \in Nat /\ k \in Nat /\ f[n] \in Nat /\ f[k] \in Nat
            /\ r[x] \in Nat /\ r[y] \in Nat
        BY <1>12, <1>19, <2>2, <3>2
      <4>2. CASE n < k
        <5>1. f[n] < f[k]
          BY <1>12, <4>2
        <5> QED
          BY <2>2, <3>2, <4>1, <5>1
      <4>3. CASE k < n
        <5>1. f[k] < f[n] /\ r[y] <= r[x]
          BY <1>10, <1>12, <2>2, <3>2, <4>3 DEF Climbs
        <5> QED
          BY <2>2, <3>2, <4>1, <5>1
      <4>4. CASE n = k
        BY <2>2, <3>2, <4>1, <4>4
      <4> QED
        BY <4>1, <4>2, <4>3, <4>4
    <3> QED
      BY <1>21, <3>1, <3>2
  <2> QED
    BY <1>21, <2>1, <2>2
<1>24. {model.row[x].index : x \in docked} = {num[x] : x \in docked}
  BY <1>2, <1>8, <1>17
<1>25. IsFiniteSet(docked)
  <2>1. IsInjective(line)
    <3>1. \A i, j \in 1..l : i < j => line[i] # line[j]
      BY <1>5, <1>10 DEF Climbs
    <3>2. \A i, j \in 1..l : i < j \/ j < i \/ i = j
      BY <1>10
    <3> QED
      BY <1>10, <3>1, <3>2 DEF IsInjective
  <2>2. IsFiniteSet(ToSet(line))
    BY <1>10, <2>1, InjectiveLength
  <2>3. IsFiniteSet(ToSet(line) \cup {ShowStash})
    BY <2>2, FS_AddElement
  <2>4. docked \subseteq ToSet(line) \cup {ShowStash}
    BY <1>16, <1>17
  <2> QED
    BY <2>3, <2>4, FS_Subset
<1>26. Cardinality({num[x] : x \in docked}) = Cardinality(docked)
  BY <1>23, <1>25, DifferentValues
<1>27. 0..(model.count - 1) \subseteq {num[x] : x \in docked} \cup {model.staged.index}
  <2>1. SUFFICES ASSUME NEW i \in 0..f[l], i # v.staged
                 PROVE  \E x \in docked : num[x] = i
    <3>1. model.count - 1 = f[l]
      BY <1>12
    <3> QED
      BY <1>11, <3>1
  <2>2. CASE i \in Base(v)..f[l]
    <3>1. PICK n \in 1..l : f[n] = i
      BY <1>12, <2>1, <2>2
    <3> QED
      BY <1>20, <1>22, <3>1
  <2>3. CASE i \notin Base(v)..f[l]
    <3>1. v.showStash /\ i = 0
      BY <1>12, <1>13, <2>1, <2>3
    <3>2. ShowStash \in docked /\ num[ShowStash] = 0
      BY <1>16, <1>17, <3>1
    <3> QED
      BY <3>1, <3>2
  <2> QED
    BY <2>2, <2>3
<1>28. ASSUME NEW x \in docked
       PROVE  num[x] < model.count /\ (num[x] = v.staged => r[x] \in {0, 5})
  <2>1. f[l] \in Nat /\ model.count = f[l] + 1
    BY <1>12
  <2>2. CASE num[x] = 0 /\ r[x] = 0
    BY <2>1, <2>2
  <2>3. ASSUME NEW n \in 1..l, x = line[n], num[x] = f[n]
        PROVE  num[x] < model.count /\ (num[x] = v.staged => r[x] \in {0, 5})
    <3>1. n = l \/ n < l
      BY <1>10
    <3>2. f[n] <= f[l] /\ f[n] \in Nat
      BY <1>12, <2>1, <3>1
    <3>3. f[n] = v.staged => n > v.reserving
      BY <1>10, <1>12
    <3> QED
      BY <1>10, <2>1, <2>3, <3>2, <3>3
  <2> QED
    BY <1>21, <2>2, <2>3
<1>29. \A s \in avail :
         (model.row[s].index >= 0) <=>
           /\ model.row[s].visible /\ model.row[s].dockVisible
           /\ ~(model.collapsed /\ model.row[s].section = "collapsable")
  <2>1. ASSUME NEW s \in avail
        PROVE  s \in Surface \cap DOMAIN m.row /\ model.row[s] = NewRow(m, Layout(m), s)
    BY <1>2, <2>1 DEF TrayInv
  <2> QED
    BY <1>1, <1>2, <2>1, SurfaceNumber
<1>30. \A x \in docked : Rank(x) = r[x] /\ model.row[x].index = num[x]
  BY <1>2, <1>8, <1>16, <1>17
<1>31. /\ Cardinality({model.row[x].index : x \in docked}) = Cardinality(docked)
       /\ 0..(model.count - 1) \subseteq {model.row[x].index : x \in docked} \cup {model.staged.index}
       /\ \A x \in docked : /\ model.row[x].index < model.count
                            /\ model.row[x].index = model.staged.index => Rank(x) \in {0, 5}
       /\ \A x, y \in docked : Rank(x) < Rank(y) => model.row[x].index < model.row[y].index
  <2>1. \A x \in docked : /\ model.row[x].index < model.count
                          /\ model.row[x].index = model.staged.index => Rank(x) \in {0, 5}
    BY <1>11, <1>28, <1>30
  <2>2. \A x, y \in docked : Rank(x) < Rank(y) => model.row[x].index < model.row[y].index
    BY <1>23, <1>30
  <2> QED
    BY <1>24, <1>26, <1>27, <2>1, <2>2
<1> QED
  BY <1>9, <1>29, <1>31 DEF Numbered

LEMMA TypeHolds == ASSUME TrayInv PROVE TypeOK
<1>1. PICK m : Ready(m) /\ model = Laid(m)
  BY DEF TrayInv
<1>2. model \in ModelSet /\ model.count \in Nat /\ Ready(model) /\ Sane(model)
  BY <1>1, LaidIs, LaidSane DEF Sane
<1>3. \A x \in DOMAIN model.row : model.row[x] \in RowType
  BY <1>2, ModelParts, RowsOf
<1>4. ModelType
  <2>1. /\ Internal \subseteq DOMAIN model.row /\ DOMAIN model.row \subseteq Internal \cup Surface
    BY <1>2, ModelParts, RowsOf DEF Ready
  <2>2. \A x \in DOMAIN model.row : model.row[x].section \in Section \cup {"tray-action"}
    BY <1>3 DEF RowType
  <2> QED
    BY <1>2, <2>1, <2>2, ModelParts DEF ModelType
<1> QED
  BY <1>4, ConfigParts DEF TypeOK, TrayInv, CallSet

LEMMA PlacedHolds == ASSUME TrayInv PROVE Placed
<1> SUFFICES ASSUME NEW s \in avail
             PROVE  /\ s \in DOMAIN model.row
                    /\ SectionsWith(model, s) = {model.row[s].section}
                    /\ Cardinality({i \in DOMAIN model.list[model.row[s].section] :
                                       model.list[model.row[s].section][i] = s}) = 1
                    /\ model.row[s].section \notin Forbids[s]
  BY DEF Placed
<1>1. s \in Surface \cap DOMAIN model.row /\ Sane(model) /\ model \in ModelSet
  BY DEF TrayInv, Sane, Ready
<1>2. PICK c : c = model.row[s].section
  OBVIOUS
<1>3. /\ c \in Section \ Forbids[s] /\ s \in ToSet(model.list[c])
      /\ Once(model.list, Section) /\ model.list \in Lists
  BY <1>1, <1>2, ModelParts DEF Sane, Ready
<1>4. SectionsWith(model, s) = {c}
  BY <1>1, <1>3, OneSection
<1>5. PICK q : q = model.list[c]
  OBVIOUS
<1>6. IsInjective(q) /\ s \in ToSet(q)
  BY <1>3, <1>5 DEF Once
<1>7. PICK i \in DOMAIN q : q[i] = s
  BY <1>6 DEF ToSet
<1>8. {j \in DOMAIN q : q[j] = s} = {i}
  BY <1>6, <1>7 DEF IsInjective
<1>9. Cardinality({j \in DOMAIN q : q[j] = s}) = 1
  BY <1>8, FS_Singleton
<1> QED
  BY <1>1, <1>2, <1>3, <1>4, <1>5, <1>9

\* The lists, the rows and the numbers of the model fit together.
THEOREM TrayListsSound == Spec => []ListsSound
<1>1. TrayInv => ListsSound
  BY TypeHolds, PlacedHolds, NumberedHolds DEF ListsSound
<1> QED
  BY <1>1, TrayKeepsStep, PTL

-----------------------------------------------------------------------------
(* The popups of a panel.                                                    *)

Geometry == Popups!Geometry

\* What is put off: a change of size is of nobody, a popup that opens is of somebody.
Deferred ==
  {e \in [do : {"geometry", "ask", "open", "inactive", "ungrab"}, for : Control \cup {NoControl}] :
     /\ e.do = "geometry" => e = Geometry
     /\ e.do = "open" => e.for \in Control}
For(do, c) == [do |-> do, for |-> c]

\* Nobody but the visible window has the focus, and a grab of it is remembered.
PopupWindow ==
  /\ visible \in BOOLEAN /\ active \in BOOLEAN /\ transition \in BOOLEAN
  /\ unfocused \in BOOLEAN /\ settle \in Nat
  /\ current \in Control \cup {NoControl} /\ geometry \in Control \cup {NoControl}
  /\ due \in Control \cup {NoControl} /\ focus \in {"in", "out", "grabbed"}
  /\ openPending \subseteq Control /\ grabPending \subseteq Control
  /\ visible => current # NoControl
  /\ focus # "out" => visible
  /\ transition => visible /\ focus # "in" /\ current \in grabPending

\* The window has the size of its item, or will ask for it.
SizeIs(queue) ==
  /\ queue \in Seq(Deferred)
  /\ Geometry \in ToSet(queue) \/ geometry = current

\* The popup that was opened last is shown, or it is the window's and asks for its size, or
\* it opens later.
DueIs(queue) ==
  \/ due = NoControl
  \/ visible /\ current = due
  \/ /\ current = due /\ due \in openPending
     /\ For("ask", due) \in ToSet(queue) \/ Geometry \in ToSet(queue)
  \/ current # due /\ For("open", due) \in ToSet(queue)

\* A window that lost the focus has somebody who will close it.
UnfocusedIs(queue) ==
  unfocused =>
    /\ visible /\ ~active
    /\ \/ current \in grabPending
       \/ For("inactive", current) \in ToSet(queue)
       \/ For("ungrab", current) \in ToSet(queue)

PopupInv == PopupWindow /\ SizeIs(later) /\ DueIs(later) /\ UnfocusedIs(later)

LEMMA GeometryIs == Geometry \in Deferred /\ Geometry.do = "geometry"
BY DEF Geometry, Popups!Geometry, Deferred

LEMMA AskIs ==
  ASSUME NEW queue \in Seq(Deferred)
  PROVE  /\ Popups!Ask(queue) \in Seq(Deferred)
         /\ ToSet(Popups!Ask(queue)) = ToSet(queue) \cup {Geometry}
<1>1. Popups!Contains(queue, Geometry) = Contains(queue, Geometry)
  BY Zenon DEF Popups!Contains, Contains
<1>2. Contains(queue, Geometry) <=> Geometry \in ToSet(queue)
  BY ListContains
<1>3. Popups!Ask(queue) = IF Contains(queue, Geometry) THEN queue ELSE Append(queue, Geometry)
  BY <1>1, Zenon DEF Popups!Ask, Geometry
<1>4. /\ Append(queue, Geometry) \in Seq(Deferred)
      /\ ToSet(Append(queue, Geometry)) = ToSet(queue) \cup {Geometry}
  BY GeometryIs, AppendItems
<1> QED
  BY <1>2, <1>3, <1>4

LEMMA WithItemIs ==
  ASSUME NEW queue \in Seq(Deferred), NEW c
  PROVE  /\ Popups!WithItem(c, queue) \in Seq(Deferred)
         /\ ToSet(queue) \subseteq ToSet(Popups!WithItem(c, queue))
         /\ c = current => Popups!WithItem(c, queue) = queue
         /\ c # current => Geometry \in ToSet(Popups!WithItem(c, queue))
BY AskIs DEF Popups!WithItem

LEMMA AddedIs ==
  ASSUME NEW queue \in Seq(Deferred), NEW e \in Deferred
  PROVE  /\ Append(queue, e) \in Seq(Deferred)
         /\ ToSet(Append(queue, e)) = ToSet(queue) \cup {e}
BY AppendItems

\* A popup closes: what it was owed is forgotten.
LEMMA CloseStep ==
  ASSUME PopupWindow, NEW queue, SizeIs(queue), NEW c \in Control \cup {NoControl},
         due = c \/ DueIs(queue), current = c \/ UnfocusedIs(queue), Popups!Close(c, queue)
  PROVE  PopupInv'
<1>1. /\ openPending' = openPending \ {c} /\ grabPending' = grabPending \ {c}
      /\ due' = (IF due = c THEN NoControl ELSE due) /\ geometry' = geometry /\ active' = active
  BY DEF Popups!Close
<1>2. CASE current # c
  <2>1. /\ visible' = visible /\ settle' = settle /\ transition' = transition
        /\ focus' = focus /\ unfocused' = unfocused /\ later' = queue /\ current' = current
    BY <1>2 DEF Popups!Close, Popups!KeepWindow
  <2>2. PopupWindow'
    BY <1>1, <1>2, <2>1 DEF PopupWindow
  <2>3. SizeIs(later)'
    BY <1>1, <2>1 DEF SizeIs
  <2>4. DueIs(later)'
    BY <1>1, <1>2, <2>1 DEF DueIs
  <2>5. UnfocusedIs(later)'
    BY <1>1, <1>2, <2>1 DEF UnfocusedIs
  <2> QED
    BY <2>2, <2>3, <2>4, <2>5 DEF PopupInv
<1>3. CASE current = c
  <2>1. /\ visible' = FALSE /\ settle' = settle + (IF visible THEN 1 ELSE 0)
        /\ transition' = (transition /\ ~visible) /\ focus' = "out" /\ unfocused' = FALSE
        /\ current' = NoControl /\ later' = Popups!WithItem(NoControl, queue)
    BY <1>3 DEF Popups!Close, Popups!Hide
  <2>2. transition' = FALSE /\ settle' \in Nat
    <3>1. transition' = FALSE
      BY <2>1, Zenon DEF PopupWindow
    <3>2. settle' \in Nat
      BY <2>1 DEF PopupWindow
    <3> QED
      BY <3>1, <3>2
  <2>3. PopupWindow'
    BY <1>1, <2>1, <2>2 DEF PopupWindow
  <2>4. /\ later' \in Seq(Deferred) /\ ToSet(queue) \subseteq ToSet(later')
        /\ Geometry \in ToSet(later') \/ (later' = queue /\ current = NoControl)
    BY <2>1, WithItemIs DEF SizeIs
  <2>5. SizeIs(later)'
    BY <1>1, <2>1, <2>4 DEF SizeIs
  <2>6. DueIs(later)'
    BY <1>1, <1>3, <2>1, <2>4 DEF DueIs
  <2>7. UnfocusedIs(later)'
    BY <2>1 DEF UnfocusedIs
  <2> QED
    BY <2>3, <2>5, <2>6, <2>7 DEF PopupInv
<1> QED
  BY <1>2, <1>3

\* A popup opens, or will.
LEMMA OpenStep ==
  ASSUME PopupWindow, NEW queue, SizeIs(queue), NEW c \in Control,
         unfocused => visible, Popups!Open(c, queue)
  PROVE  PopupInv'
<1>1. /\ current # c /\ due' = c /\ geometry' = geometry /\ active' = active
      /\ grabPending' = grabPending /\ c # NoControl
  BY ControlAssumption DEF Popups!Open
<1>2. ASSUME visible, Popups!Hide, current' = NoControl, openPending' = openPending,
             later' = Append(Popups!WithItem(NoControl, queue), [do |-> "open", for |-> c])
      PROVE  PopupInv'
  <2>1. /\ visible' = FALSE /\ settle' = settle + (IF visible THEN 1 ELSE 0)
        /\ transition' = (transition /\ ~visible) /\ focus' = "out" /\ unfocused' = FALSE
    BY <1>2 DEF Popups!Hide
  <2>2. transition' = FALSE /\ settle' \in Nat
    <3>1. transition' = FALSE
      BY <2>1, Zenon DEF PopupWindow
    <3>2. settle' \in Nat
      BY <2>1 DEF PopupWindow
    <3> QED
      BY <3>1, <3>2
  <2>3. PopupWindow'
    BY <1>1, <1>2, <2>1, <2>2 DEF PopupWindow
  <2>4. current # NoControl
    BY <1>2 DEF PopupWindow
  <2>5. For("open", c) \in Deferred /\ later' = Append(Popups!WithItem(NoControl, queue), For("open", c))
    BY <1>2 DEF For, Deferred
  <2>6. later' \in Seq(Deferred) /\ Geometry \in ToSet(later') /\ For("open", c) \in ToSet(later')
    BY <2>4, <2>5, WithItemIs, AddedIs DEF SizeIs
  <2>7. SizeIs(later)'
    BY <2>6 DEF SizeIs
  <2>8. DueIs(later)'
    BY <1>1, <1>2, <2>6 DEF DueIs
  <2>9. UnfocusedIs(later)'
    BY <2>1 DEF UnfocusedIs
  <2> QED
    BY <2>3, <2>7, <2>8, <2>9 DEF PopupInv
<1>3. ASSUME ~visible, Popups!KeepWindow, current' = c, openPending' = openPending \cup {c},
             later' = Append(Popups!WithItem(c, queue), [do |-> "ask", for |-> c])
      PROVE  PopupInv'
  <2>1. /\ visible' = visible /\ settle' = settle /\ transition' = transition
        /\ focus' = focus /\ unfocused' = unfocused
    BY <1>3 DEF Popups!KeepWindow
  <2>2. PopupWindow'
    BY <1>1, <1>3, <2>1 DEF PopupWindow
  <2>3. For("ask", c) \in Deferred /\ later' = Append(Popups!WithItem(c, queue), For("ask", c))
    BY <1>3 DEF For, Deferred
  <2>4. later' \in Seq(Deferred) /\ Geometry \in ToSet(later') /\ For("ask", c) \in ToSet(later')
    BY <1>1, <2>3, WithItemIs, AddedIs DEF SizeIs
  <2>5. SizeIs(later)'
    BY <2>4 DEF SizeIs
  <2>6. DueIs(later)'
    BY <1>1, <1>3, <2>4 DEF DueIs
  <2>7. UnfocusedIs(later)'
    BY <1>3, <2>1 DEF UnfocusedIs
  <2> QED
    BY <2>2, <2>5, <2>6, <2>7 DEF PopupInv
<1> QED
  BY <1>2, <1>3 DEF Popups!Open

\* The queue without its first callback.
LEMMA RestIs ==
  ASSUME PopupInv, later # <<>>
  PROVE  /\ Tail(later) \in Seq(Deferred) /\ Head(later) \in Deferred
         /\ ToSet(later) = ToSet(Tail(later)) \cup {Head(later)}
BY TailItems DEF PopupInv, SizeIs

\* The window stays as it is, and the queue keeps what is needed of it.
LEMMA KeptStep ==
  ASSUME PopupInv, Popups!Nothing, NEW queue, later' = queue, SizeIs(queue), DueIs(queue),
         UnfocusedIs(queue)
  PROVE  PopupInv'
<1>1. /\ visible' = visible /\ settle' = settle /\ transition' = transition /\ focus' = focus
      /\ unfocused' = unfocused /\ current' = current /\ geometry' = geometry /\ active' = active
      /\ openPending' = openPending /\ grabPending' = grabPending /\ due' = due
  BY DEF Popups!Nothing, Popups!KeepWindow
<1>2. PopupWindow'
  BY <1>1 DEF PopupWindow, PopupInv
<1> QED
  BY <1>1, <1>2 DEF PopupInv, SizeIs, DueIs, UnfocusedIs

\* The window gets the size of what it shows, and is shown if it was to open.
LEMMA FinalizeStep ==
  ASSUME PopupInv, later # <<>>, Head(later).do = "geometry", Popups!FinalizeOpen(Tail(later))
  PROVE  PopupInv'
<1>1. /\ geometry' = current /\ openPending' = openPending \ {current}
      /\ visible' = (visible \/ current \in openPending)
      /\ settle' = settle + (IF visible' = visible THEN 0 ELSE 1)
      /\ later' = Tail(later) /\ current' = current /\ active' = active /\ focus' = focus
      /\ transition' = transition /\ grabPending' = grabPending /\ due' = due
      /\ unfocused' = unfocused
  BY DEF Popups!FinalizeOpen, Popups!UpdateGeometry
<1>2. PopupWindow /\ Tail(later) \in Seq(Deferred) /\ Head(later) = Geometry
      /\ ToSet(later) = ToSet(Tail(later)) \cup {Geometry}
  BY RestIs DEF PopupInv, Deferred
<1>3. visible' \in BOOLEAN /\ (visible' <=> visible \/ current \in openPending)
  BY <1>1, Zenon
<1>4. PopupWindow'
  <2>1. settle' \in Nat
    BY <1>1, <1>2 DEF PopupWindow
  <2>2. visible' => current # NoControl
    BY <1>2, <1>3, ControlAssumption DEF PopupWindow
  <2> QED
    BY <1>1, <1>2, <1>3, <2>1, <2>2 DEF PopupWindow
<1>5. SizeIs(later)'
  BY <1>1, <1>2 DEF SizeIs
<1>6. \A c : For("open", c) # Geometry /\ For("inactive", c) # Geometry /\ For("ungrab", c) # Geometry
  BY DEF For, Geometry, Popups!Geometry
<1>7. DueIs(later)'
  <2>1. CASE current = due /\ due \in openPending
    BY <1>1, <1>3, <2>1 DEF DueIs
  <2>2. CASE current # due /\ For("open", due) \in ToSet(later)
    BY <1>1, <1>2, <1>6, <2>2 DEF DueIs
  <2>3. CASE visible /\ current = due
    BY <1>1, <1>3, <2>3 DEF DueIs
  <2> QED
    BY <1>1, <2>1, <2>2, <2>3 DEF PopupInv, DueIs
<1>8. UnfocusedIs(later)'
  BY <1>1, <1>2, <1>3, <1>6 DEF PopupInv, UnfocusedIs
<1> QED
  BY <1>4, <1>5, <1>7, <1>8 DEF PopupInv

LEMMA LaterStep ==
  ASSUME PopupInv, Popups!CallLater
  PROVE  PopupInv'
<1>1. PICK rest : rest = Tail(later)
  OBVIOUS
<1>2. PICK e : e = Head(later)
  OBVIOUS
<1>3. later # <<>>
  BY DEF Popups!CallLater
<1>4. /\ rest \in Seq(Deferred) /\ e \in Deferred /\ ToSet(later) = ToSet(rest) \cup {e}
      /\ e.for \in Control \cup {NoControl} /\ (e.do = "open" => e.for \in Control)
      /\ e = For(e.do, e.for)
  <2>1. /\ rest \in Seq(Deferred) /\ e \in Deferred /\ ToSet(later) = ToSet(rest) \cup {e}
    BY <1>1, <1>2, <1>3, RestIs
  <2> QED
    BY <2>1 DEF Deferred, For
<1>5. PICK c : c = e.for
  OBVIOUS
<1>6. PICK do : do = e.do
  OBVIOUS
<1>7. e = For(do, c) /\ \A x, y : e = For(x, y) => x = do /\ y = c
  BY <1>4, <1>5, <1>6 DEF For
<1>8. do # "geometry" => e # Geometry
  BY <1>6, GeometryIs
<1>9. PopupWindow /\ SizeIs(later) /\ DueIs(later) /\ UnfocusedIs(later)
  BY DEF PopupInv
<1>10. do # "geometry" => SizeIs(rest)
  BY <1>4, <1>8, <1>9 DEF SizeIs
<1>11. \/ do = "geometry" /\ Popups!FinalizeOpen(rest)
       \/ do = "ask" /\ Popups!Nothing
          /\ later' = IF current = c /\ c \in openPending THEN Popups!Ask(rest) ELSE rest
       \/ do = "open" /\ (Popups!Open(c, rest) \/ (current = c /\ Popups!Nothing /\ later' = rest))
       \/ do = "inactive" /\ (IF active THEN Popups!Nothing /\ later' = rest ELSE Popups!Close(c, rest))
       \/ /\ do = "ungrab"
          /\ IF current = c /\ c \notin grabPending /\ ~active THEN Popups!Close(c, rest)
             ELSE Popups!Nothing /\ later' = rest
  BY <1>1, <1>2, <1>5, <1>6, Zenon DEF Popups!CallLater
<1>12. CASE do = "geometry" /\ Popups!FinalizeOpen(rest)
  BY <1>1, <1>2, <1>3, <1>6, <1>12, FinalizeStep
<1>13. CASE /\ do = "ask" /\ Popups!Nothing
            /\ later' = IF current = c /\ c \in openPending THEN Popups!Ask(rest) ELSE rest
  <2>1. PICK q : q = IF current = c /\ c \in openPending THEN Popups!Ask(rest) ELSE rest
    OBVIOUS
  <2>2. /\ q \in Seq(Deferred) /\ ToSet(rest) \subseteq ToSet(q)
        /\ current = c /\ c \in openPending => Geometry \in ToSet(q)
    BY <1>4, <2>1, AskIs
  <2>3. SizeIs(q)
    BY <1>10, <1>13, <2>2 DEF SizeIs
  <2>4. DueIs(q)
    BY <1>4, <1>7, <1>8, <1>9, <1>13, <2>2 DEF DueIs
  <2>5. UnfocusedIs(q)
    BY <1>4, <1>7, <1>9, <1>13, <2>2 DEF UnfocusedIs
  <2> QED
    BY <1>13, <2>1, <2>3, <2>4, <2>5, KeptStep
<1>14. CASE do = "open" /\ Popups!Open(c, rest)
  <2>1. c \in Control /\ SizeIs(rest) /\ (unfocused => visible)
    BY <1>4, <1>5, <1>6, <1>9, <1>10, <1>14 DEF UnfocusedIs
  <2> QED
    BY <1>9, <1>14, <2>1, OpenStep
<1>15. CASE do = "open" /\ current = c /\ Popups!Nothing /\ later' = rest
  <2>1. DueIs(rest)
    BY <1>4, <1>7, <1>8, <1>9, <1>15 DEF DueIs
  <2>2. UnfocusedIs(rest)
    BY <1>4, <1>7, <1>9, <1>15 DEF UnfocusedIs
  <2> QED
    BY <1>10, <1>15, <2>1, <2>2, KeptStep
<1>16. CASE do = "inactive" /\ active /\ Popups!Nothing /\ later' = rest
  <2>1. DueIs(rest)
    BY <1>4, <1>7, <1>8, <1>9, <1>16 DEF DueIs
  <2>2. UnfocusedIs(rest)
    BY <1>9, <1>16 DEF UnfocusedIs
  <2> QED
    BY <1>10, <1>16, <2>1, <2>2, KeptStep
<1>17. CASE do \in {"inactive", "ungrab"} /\ Popups!Close(c, rest)
  <2>1. DueIs(rest)
    BY <1>4, <1>7, <1>8, <1>9, <1>17 DEF DueIs
  <2>2. current = c \/ UnfocusedIs(rest)
    BY <1>4, <1>7, <1>9, <1>17 DEF UnfocusedIs
  <2>3. SizeIs(rest) /\ c \in Control \cup {NoControl}
    BY <1>4, <1>5, <1>10, <1>17
  <2> QED
    BY <1>9, <1>17, <2>1, <2>2, <2>3, CloseStep
<1>18. CASE /\ do = "ungrab" /\ ~(current = c /\ c \notin grabPending /\ ~active)
            /\ Popups!Nothing /\ later' = rest
  <2>1. DueIs(rest)
    BY <1>4, <1>7, <1>8, <1>9, <1>18 DEF DueIs
  <2>2. UnfocusedIs(rest)
    BY <1>4, <1>7, <1>9, <1>18 DEF UnfocusedIs
  <2> QED
    BY <1>10, <1>18, <2>1, <2>2, KeptStep
<1> QED
  BY <1>11, <1>12, <1>13, <1>14, <1>15, <1>16, <1>17, <1>18

LEMMA SettleStep ==
  ASSUME PopupInv, Popups!Settle
  PROVE  PopupInv'
<1>1. /\ settle > 0 /\ settle' = settle - 1 /\ visible' = visible /\ geometry' = geometry
      /\ focus' = focus /\ active' = active /\ transition' = transition
      /\ openPending' = openPending /\ grabPending' = grabPending /\ unfocused' = unfocused
  BY DEF Popups!Settle
<1>2. PopupWindow /\ SizeIs(later) /\ DueIs(later) /\ UnfocusedIs(later)
  BY DEF PopupInv
<1>3. settle' \in Nat
  BY <1>1, <1>2 DEF PopupWindow
<1>4. CASE visible
  <2>1. current' = current /\ later' = later /\ due' = due
    BY <1>4 DEF Popups!Settle
  <2>2. PopupWindow'
    BY <1>1, <1>2, <1>3, <2>1 DEF PopupWindow
  <2>3. SizeIs(later)' /\ DueIs(later)' /\ UnfocusedIs(later)'
    BY <1>1, <1>2, <2>1 DEF SizeIs, DueIs, UnfocusedIs
  <2> QED
    BY <2>2, <2>3 DEF PopupInv
<1>5. CASE ~visible
  <2>1. /\ current' = NoControl /\ later' = Popups!WithItem(NoControl, later)
        /\ due' = IF due = current THEN NoControl ELSE due
    BY <1>5 DEF Popups!Settle
  <2>2. PopupWindow'
    BY <1>1, <1>2, <1>3, <1>5, <2>1 DEF PopupWindow
  <2>3. /\ later' \in Seq(Deferred) /\ ToSet(later) \subseteq ToSet(later')
        /\ Geometry \in ToSet(later') \/ (later' = later /\ current = NoControl)
    BY <1>2, <2>1, WithItemIs DEF SizeIs
  <2>4. SizeIs(later)'
    BY <1>1, <1>2, <2>1, <2>3 DEF SizeIs
  <2>5. DueIs(later)'
    BY <1>1, <1>2, <1>5, <2>1, <2>3 DEF DueIs
  <2>6. UnfocusedIs(later)'
    BY <1>1, <1>2, <1>5 DEF UnfocusedIs
  <2> QED
    BY <2>2, <2>4, <2>5, <2>6 DEF PopupInv
<1> QED
  BY <1>4, <1>5

\* A click, a client, a timer.
LEMMA UserStep ==
  ASSUME PopupInv, NEW c \in Control,
         Popups!Click(c) \/ Popups!SurfaceDestroyed(c) \/ Popups!GrabInactive(c)
  PROVE  PopupInv'
<1>1. PopupWindow /\ SizeIs(later) /\ DueIs(later) /\ UnfocusedIs(later)
  BY DEF PopupInv
<1>2. CASE Popups!Open(c, later)
  BY <1>1, <1>2, OpenStep DEF UnfocusedIs
<1>3. CASE Popups!Close(c, later)
  BY <1>1, <1>3, CloseStep
<1>4. ASSUME c \in grabPending, active = (focus = "in"), current # c \/ active,
             grabPending' = grabPending \ {c}, Popups!KeepWindow,
             UNCHANGED <<current, geometry, active, openPending, due, later>>
      PROVE  PopupInv'
  <2>1. /\ visible' = visible /\ settle' = settle /\ transition' = transition
        /\ focus' = focus /\ unfocused' = unfocused
    BY <1>4 DEF Popups!KeepWindow
  <2>2. active => focus = "in"
    BY <1>4, Zenon
  <2>3. current = c => ~transition
    BY <1>1, <1>4, <2>2 DEF PopupWindow
  <2>4. PopupWindow'
    BY <1>1, <1>4, <2>1, <2>3 DEF PopupWindow
  <2>5. SizeIs(later)' /\ DueIs(later)'
    BY <1>1, <1>4, <2>1 DEF SizeIs, DueIs
  <2>6. UnfocusedIs(later)'
    BY <1>1, <1>4, <2>1 DEF UnfocusedIs
  <2> QED
    BY <2>4, <2>5, <2>6 DEF PopupInv
<1> QED
  BY <1>2, <1>3, <1>4 DEF Popups!Click, Popups!SurfaceDestroyed, Popups!GrabInactive

LEMMA WindowStep ==
  ASSUME PopupInv, Popups!WindowCloses \/ Popups!PanelMoves
  PROVE  PopupInv'
<1>1. PopupWindow /\ SizeIs(later) /\ DueIs(later) /\ UnfocusedIs(later)
  BY DEF PopupInv
<1>2. CASE Popups!WindowCloses
  <2>1. /\ visible /\ visible' = FALSE /\ settle' = settle + (IF visible THEN 1 ELSE 0)
        /\ transition' = (transition /\ ~visible) /\ focus' = "out" /\ unfocused' = FALSE
        /\ due' = NoControl
        /\ UNCHANGED <<current, geometry, active, openPending, grabPending, later>>
    BY <1>2 DEF Popups!WindowCloses, Popups!Hide
  <2>2. transition' = FALSE
    BY <1>1, <2>1, Zenon DEF PopupWindow
  <2>3. settle' \in Nat
    BY <1>1, <2>1 DEF PopupWindow
  <2>4. PopupWindow'
    BY <1>1, <2>1, <2>2, <2>3 DEF PopupWindow
  <2>5. SizeIs(later)' /\ DueIs(later)' /\ UnfocusedIs(later)'
    BY <1>1, <2>1 DEF SizeIs, DueIs, UnfocusedIs
  <2> QED
    BY <2>4, <2>5 DEF PopupInv
<1>3. CASE Popups!PanelMoves
  <2>1. PICK q : q = Popups!Ask(later)
    OBVIOUS
  <2>2. Popups!Nothing /\ later' = q
    BY <1>3, <2>1 DEF Popups!PanelMoves, Popups!Nothing
  <2>3. q \in Seq(Deferred) /\ ToSet(q) = ToSet(later) \cup {Geometry}
    BY <1>1, <2>1, AskIs DEF SizeIs
  <2>4. SizeIs(q) /\ DueIs(q) /\ UnfocusedIs(q)
    BY <1>1, <2>3 DEF SizeIs, DueIs, UnfocusedIs
  <2> QED
    BY <2>2, <2>4, KeptStep
<1> QED
  BY <1>2, <1>3

\* The X server gives the focus and takes it.
LEMMA FocusStep ==
  ASSUME PopupInv, Popups!FocusIn \/ Popups!FocusOut \/ Popups!FocusOutByGrab
  PROVE  PopupInv'
<1>1. PopupWindow /\ SizeIs(later) /\ DueIs(later) /\ UnfocusedIs(later)
  BY DEF PopupInv
<1>2. /\ visible' = visible /\ current' = current /\ geometry' = geometry /\ settle' = settle
      /\ active' = active /\ openPending' = openPending /\ later' = later /\ due' = due
      /\ unfocused' = unfocused
  BY DEF Popups!FocusIn, Popups!FocusOut, Popups!FocusOutByGrab
<1>3. PopupWindow' /\ grabPending \subseteq grabPending'
  <2>1. CASE Popups!FocusIn
    <3>1. visible /\ focus' = "in" /\ transition' = FALSE /\ grabPending' = grabPending
      BY <2>1 DEF Popups!FocusIn
    <3> QED
      BY <1>1, <1>2, <3>1 DEF PopupWindow
  <2>2. CASE Popups!FocusOut
    BY <1>1, <1>2, <2>2 DEF PopupWindow, Popups!FocusOut
  <2>3. CASE Popups!FocusOutByGrab
    BY <1>1, <1>2, <2>3 DEF PopupWindow, Popups!FocusOutByGrab
  <2> QED
    BY <2>1, <2>2, <2>3
<1>4. SizeIs(later)' /\ DueIs(later)' /\ UnfocusedIs(later)'
  BY <1>1, <1>2, <1>3 DEF SizeIs, DueIs, UnfocusedIs
<1> QED
  BY <1>3, <1>4 DEF PopupInv

\* The grab ends: who was to close will be asked once more.
LEMMA UngrabStep ==
  ASSUME PopupInv, Popups!FocusInByUngrab
  PROVE  PopupInv'
<1>1. PopupWindow /\ SizeIs(later) /\ DueIs(later) /\ UnfocusedIs(later)
  BY DEF PopupInv
<1>2. /\ focus = "grabbed" /\ focus' = "in" /\ transition' = FALSE
      /\ grabPending' = grabPending \ {current}
      /\ visible' = visible /\ current' = current /\ geometry' = geometry /\ settle' = settle
      /\ active' = active /\ openPending' = openPending /\ due' = due
      /\ unfocused' = unfocused
      /\ later' = IF current \in grabPending THEN Append(later, For("ungrab", current)) ELSE later
  BY DEF Popups!FocusInByUngrab, For
<1>3. For("ungrab", current) \in Deferred
  BY <1>1 DEF PopupWindow, For, Deferred
<1>4. /\ later' \in Seq(Deferred) /\ ToSet(later) \subseteq ToSet(later')
      /\ current \in grabPending => For("ungrab", current) \in ToSet(later')
  BY <1>1, <1>2, <1>3, AddedIs DEF SizeIs
<1>5. PopupWindow'
  BY <1>1, <1>2 DEF PopupWindow
<1>6. SizeIs(later)' /\ DueIs(later)' /\ UnfocusedIs(later)'
  BY <1>1, <1>2, <1>4 DEF SizeIs, DueIs, UnfocusedIs
<1> QED
  BY <1>5, <1>6 DEF PopupInv

\* The window hears of its focus: the popup that lost it is to close, or its grab is.
LEMMA ActiveStep ==
  ASSUME PopupInv, Popups!ActiveChanged
  PROVE  PopupInv'
<1>1. PopupWindow /\ SizeIs(later) /\ DueIs(later) /\ UnfocusedIs(later)
  BY DEF PopupInv
<1>2. /\ active # (focus = "in") /\ active' = ~active
      /\ grabPending' = (IF active' THEN {} ELSE grabPending \cap {current})
      /\ later' = (IF active' \/ current = NoControl \/ current \in grabPending \/ transition
                   THEN later ELSE Append(later, For("inactive", current)))
      /\ unfocused' = (visible /\ ~active')
      /\ visible' = visible /\ current' = current /\ geometry' = geometry /\ settle' = settle
      /\ focus' = focus /\ transition' = transition /\ openPending' = openPending /\ due' = due
  BY DEF Popups!ActiveChanged, For
<1>3. active' \in BOOLEAN /\ unfocused' \in BOOLEAN /\ (unfocused' => visible /\ ~active')
  BY <1>2, Zenon
<1>4. active' => focus = "in"
  BY <1>1, <1>2, Zenon DEF PopupWindow
<1>5. For("inactive", current) \in Deferred
  BY <1>1 DEF PopupWindow, For, Deferred
<1>6. /\ later' \in Seq(Deferred) /\ ToSet(later) \subseteq ToSet(later')
      /\ \/ active' \/ current = NoControl \/ current \in grabPending \/ transition
         \/ For("inactive", current) \in ToSet(later')
  BY <1>1, <1>2, <1>5, AddedIs DEF SizeIs
<1>7. PopupWindow'
  BY <1>1, <1>2, <1>3, <1>4 DEF PopupWindow
<1>8. SizeIs(later)' /\ DueIs(later)'
  BY <1>1, <1>2, <1>6 DEF SizeIs, DueIs
<1>9. UnfocusedIs(later)'
  BY <1>1, <1>2, <1>3, <1>6 DEF PopupWindow, UnfocusedIs
<1> QED
  BY <1>7, <1>8, <1>9 DEF PopupInv

LEMMA PopupInit == Popups!Init => PopupInv
<1> SUFFICES ASSUME Popups!Init PROVE PopupInv
  OBVIOUS
<1>1. /\ visible = FALSE /\ current = NoControl /\ geometry = NoControl /\ settle = 0
      /\ focus = "out" /\ active = FALSE /\ transition = FALSE
      /\ openPending = {} /\ grabPending = {} /\ later = <<>>
      /\ due = NoControl /\ unfocused = FALSE
  BY DEF Popups!Init
<1>2. PopupWindow
  BY <1>1 DEF PopupWindow
<1>3. SizeIs(later) /\ DueIs(later) /\ UnfocusedIs(later)
  BY <1>1 DEF SizeIs, DueIs, UnfocusedIs
<1> QED
  BY <1>2, <1>3 DEF PopupInv

LEMMA PopupStep == PopupInv /\ [Popups!Next]_(Popups!vars) => PopupInv'
<1> SUFFICES ASSUME PopupInv, [Popups!Next]_(Popups!vars) PROVE PopupInv'
  OBVIOUS
<1>1. CASE UNCHANGED Popups!vars
  BY <1>1 DEF Popups!vars, PopupInv, PopupWindow, SizeIs, DueIs, UnfocusedIs
<1>2. CASE Popups!Next
  BY <1>2, UserStep, WindowStep, LaterStep, SettleStep, FocusStep, UngrabStep, ActiveStep
     DEF Popups!Next
<1> QED
  BY <1>1, <1>2

LEMMA PopupsHold == PopupInv => Popups!PopupsSound
<1> SUFFICES ASSUME PopupInv PROVE Popups!PopupsSound
  OBVIOUS
<1>1. PopupWindow /\ SizeIs(later) /\ DueIs(later) /\ UnfocusedIs(later)
  BY DEF PopupInv
<1>2. later = <<>> => ToSet(later) = {}
  BY DEF ToSet
<1>3. \A i \in DOMAIN later :
        later[i] \in [do : {"geometry", "ask", "open", "inactive", "ungrab"},
                      for : Control \cup {NoControl}]
  BY <1>1 DEF SizeIs, Deferred
<1>4. Popups!TypeOK
  BY <1>1, <1>3 DEF PopupWindow, Popups!TypeOK
<1>5. Popups!ShowsOne
  BY <1>1, <1>2 DEF PopupWindow, SizeIs, DueIs, Popups!ShowsOne
<1>6. Popups!ClosesUnfocused
  BY <1>1, <1>2 DEF UnfocusedIs, Popups!ClosesUnfocused
<1> QED
  BY <1>4, <1>5, <1>6 DEF Popups!PopupsSound

\* PopupsSound: however clicks, focus changes and deferred calls of PanelPopup and
\* PanelPopupWindow interleave, the one window is never shown empty, has the size of its
\* item at rest, and closes once it lost the focus.
THEOREM PopupsKeepSound == Popups!Spec => []Popups!PopupsSound
<1>1. Popups!Spec => []PopupInv
  BY PopupInit, PopupStep, PTL DEF Popups!Spec
<1> QED
  BY <1>1, PopupsHold, PTL

-----------------------------------------------------------------------------
(* Both components take lists and their items from the same modules.         *)

LEMMA HostLists ==
  ASSUME NEW list, NEW set
  PROVE  Host!Only(list, set) = Only(list, set) /\ Host!ToSet(list) = ToSet(list)
<1>1. Host!Only(list, set) = Only(list, set)
  BY Zenon DEF Host!Only, Only
<1>2. Host!ToSet(list) = ToSet(list)
  BY Zenon DEF Host!ToSet, ToSet
<1> QED
  BY <1>1, <1>2

LEMMA HostSet ==
  ASSUME NEW list
  PROVE  Host!ToSet(list) = ToSet(list)
BY Zenon DEF Host!ToSet, ToSet

-----------------------------------------------------------------------------
(* The invariant.                                                            *)

Asks == [by : Loader, window : Window,
         state : {"waits", "answered", "overwritten", "gone"}]
AskedState == [state : {"none"}] \cup Asks
TokenState ==
  [of : Loader \cup {NoToken},
   state : {"none", "made", "committed", "overwritten", "done", "destroyed", "gone"}]

HostTypes == Host!TypeOK /\ asked \in [Request -> AskedState] /\ token \in [Token -> TokenState]

\* What waits is of a request that was made, and for the window it was made for.
MovesAsked ==
  /\ \A r \in moves : asked[r].state # "none"
  /\ \A w \in Window : pending[w] # NoRequest =>
       asked[pending[w]].state # "none" /\ asked[pending[w]].window = w

HostInv ==
  /\ HostTypes /\ Host!ListsAgree /\ Host!HeardCurrent
  /\ Host!WaitsForMove /\ MovesAsked /\ Host!WaitsForToken

-----------------------------------------------------------------------------
(* Surfaces and values.                                                      *)

\* Nothing of the surfaces changes.
LEMMA SurfacesStay ==
  ASSUME HostInv, UNCHANGED Host!surfVars, client \subseteq client'
  PROVE  Host!ListsAgree' /\ Host!HeardCurrent'
BY DEF HostInv, Host!surfVars, Host!ListsAgree, Host!HeardCurrent, Host!ClientsOf

\* The types of what a step leaves alone.
LEMMA TypesStay ==
  ASSUME HostTypes
  PROVE  /\ UNCHANGED Host!procVars => /\ loader' \in [Loader -> [state : Host!States, retryCount : 0..MaxRetries]]
                                  /\ client' \subseteq Loader
         /\ UNCHANGED Host!surfVars => /\ surfaces' \in Seq(PluginSurface) /\ lists' \in [Host!Listed -> Seq(PluginSurface)]
                                  /\ value' \in [Host!Value -> 0..MaxValue]
                                  /\ heard' \in [Loader -> [Host!Value -> -1..MaxValue]]
         /\ UNCHANGED Host!moveVars => /\ pending' \in [Window -> Request \cup {NoRequest}]
                                  /\ moves' \subseteq Request /\ asked' \in [Request -> AskedState]
         /\ UNCHANGED Host!tokenVars => /\ last' \in Token \cup {NoToken} /\ provider' \in BOOLEAN
                                   /\ token' \in [Token -> TokenState]
BY DEF HostTypes, Host!TypeOK, Host!procVars, Host!surfVars, Host!moveVars, Host!tokenVars

\* Nothing of the moves, or of the tokens, changes.
LEMMA MovesStay ==
  ASSUME HostInv, UNCHANGED Host!moveVars
  PROVE  Host!WaitsForMove' /\ MovesAsked'
BY DEF HostInv, Host!moveVars, Host!WaitsForMove, MovesAsked

LEMMA TokensStay ==
  ASSUME HostInv, UNCHANGED Host!tokenVars
  PROVE  Host!WaitsForToken'
BY DEF HostInv, Host!tokenVars, Host!WaitsForToken

\* A client is told a value that is one.
LEMMA SentIs ==
  ASSUME NEW f \in [Host!Value -> -1..MaxValue], NEW v \in Host!Value, NEW n \in 0..MaxValue
  PROVE  /\ Host!Sent(f, v, n) \in [Host!Value -> -1..MaxValue]
         /\ \A x \in Host!Value \ {v} : Host!Sent(f, v, n)[x] = f[x]
         /\ Host!Sent(f, v, n)[v] = n \/ (v \in KeptIfSet /\ n = 0)
<1>1. n \in -1..MaxValue
  BY HostAssumption
<1> QED
  BY <1>1 DEF Host!Sent

LEMMA SetValueStep ==
  ASSUME HostInv, NEW v \in Host!Value, NEW n \in 0..MaxValue, Host!SetValue(v, n)
  PROVE  HostInv'
<1>1. HostTypes /\ Host!HeardCurrent /\ Host!ListsAgree
  BY DEF HostInv
<1>2. /\ value' = [value EXCEPT ![v] = n] /\ heard' = Host!Tell(v, n) /\ surfaces' = surfaces
      /\ lists' = lists /\ UNCHANGED Host!procVars /\ UNCHANGED Host!moveVars /\ UNCHANGED Host!tokenVars
  BY DEF Host!SetValue
<1>3. /\ heard \in [Loader -> [Host!Value -> -1..MaxValue]] /\ value \in [Host!Value -> 0..MaxValue]
      /\ surfaces \in Seq(PluginSurface) /\ lists \in [Host!Listed -> Seq(PluginSurface)]
  BY <1>1 DEF HostTypes, Host!TypeOK
<1>4. value' \in [Host!Value -> 0..MaxValue]
  BY <1>2, <1>3
<1>5. heard' \in [Loader -> [Host!Value -> -1..MaxValue]]
  <2>1. \A l \in Loader : Host!Sent(heard[l], v, n) \in [Host!Value -> -1..MaxValue]
    BY <1>3, SentIs
  <2> QED
    BY <1>2, <1>3, <2>1 DEF Host!Tell
<1>6. Host!HeardCurrent'
  <2> SUFFICES ASSUME NEW l \in Host!ClientsOf(surfaces), NEW x \in Host!Value
               PROVE  heard'[l][x] = value'[x] \/ (x \in KeptIfSet /\ value'[x] = 0)
    BY <1>2 DEF Host!HeardCurrent, Host!ClientsOf
  <2>1. l \in Loader
    BY <1>1 DEF Host!ListsAgree, HostTypes, Host!TypeOK
  <2>2. heard'[l] = Host!Sent(heard[l], v, n)
    BY <1>2, <2>1 DEF Host!Tell
  <2>3. heard[l] \in [Host!Value -> -1..MaxValue]
    BY <1>3, <2>1
  <2>4. CASE x = v
    <3>1. value'[x] = n
      BY <1>2, <1>3, <2>4
    <3> QED
      BY <2>2, <2>3, <2>4, <3>1, SentIs
  <2>5. CASE x # v
    <3>1. value'[x] = value[x]
      BY <1>2, <1>3, <2>5
    <3>2. Host!Sent(heard[l], v, n)[x] = heard[l][x]
      BY <2>3, <2>5, SentIs
    <3> QED
      BY <1>1, <2>2, <3>1, <3>2 DEF Host!HeardCurrent
  <2> QED
    BY <2>4, <2>5
<1>7. Host!ListsAgree'
  BY <1>1, <1>2 DEF Host!ListsAgree, Host!ClientsOf, Host!procVars
<1>8. HostTypes'
  BY <1>1, <1>2, <1>3, <1>4, <1>5, TypesStay DEF HostTypes, Host!TypeOK
<1> QED
  BY <1>2, <1>6, <1>7, <1>8, MovesStay, TokensStay DEF HostInv

LEMMA CreatePluginStep ==
  ASSUME HostInv, NEW s \in PluginSurface, Host!CreatePlugin(s)
  PROVE  HostInv'
<1> DEFINE l == LoaderOf[s]
<1>1. HostTypes /\ Host!HeardCurrent /\ Host!ListsAgree
  BY DEF HostInv
<1>2. /\ l \in client /\ surfaces' = Append(surfaces, s)
      /\ heard' = [heard EXCEPT ![l] = [v \in Host!Value |-> Host!Sent(@, v, value[v])[v]]]
      /\ lists' = IF TypeOf[s] \in Host!Listed THEN [lists EXCEPT ![TypeOf[s]] = Append(@, s)]
                  ELSE lists
      /\ value' = value /\ UNCHANGED Host!procVars /\ UNCHANGED Host!moveVars /\ UNCHANGED Host!tokenVars
  BY DEF Host!CreatePlugin
<1>3. /\ heard \in [Loader -> [Host!Value -> -1..MaxValue]] /\ value \in [Host!Value -> 0..MaxValue]
      /\ surfaces \in Seq(PluginSurface) /\ lists \in [Host!Listed -> Seq(PluginSurface)] /\ l \in Loader
  BY <1>1, HostAssumption DEF HostTypes, Host!TypeOK
<1>4. ToSet(surfaces') = ToSet(surfaces) \cup {s}
  BY <1>2, <1>3, AppendItems
<1>5. Host!ClientsOf(surfaces') = Host!ClientsOf(surfaces) \cup {l}
  BY <1>4, HostSet DEF Host!ClientsOf
<1>6. ASSUME NEW v \in Host!Value
      PROVE  /\ Host!Sent(heard[l], v, value[v])[v] \in -1..MaxValue
             /\ Host!Sent(heard[l], v, value[v])[v] = value[v] \/ (v \in KeptIfSet /\ value[v] = 0)
  <2>1. heard[l] \in [Host!Value -> -1..MaxValue] /\ value[v] \in 0..MaxValue
    BY <1>3
  <2>2. Host!Sent(heard[l], v, value[v]) \in [Host!Value -> -1..MaxValue]
    BY <2>1, SentIs
  <2> QED
    BY <2>1, <2>2, SentIs
<1>7. heard' \in [Loader -> [Host!Value -> -1..MaxValue]]
  BY <1>2, <1>3, <1>6
<1>8. Host!HeardCurrent'
  <2> SUFFICES ASSUME NEW k \in Host!ClientsOf(surfaces) \cup {l}, NEW v \in Host!Value
               PROVE  heard'[k][v] = value[v] \/ (v \in KeptIfSet /\ value[v] = 0)
    BY <1>2, <1>5 DEF Host!HeardCurrent
  <2>1. CASE k = l
    <3>1. heard'[k][v] = Host!Sent(heard[l], v, value[v])[v]
      BY <1>2, <1>3, <2>1
    <3> QED
      BY <1>6, <3>1
  <2>2. CASE k # l
    <3>1. heard'[k] = heard[k]
      <4>1. k \in Loader
        BY <1>1, <2>2 DEF Host!ListsAgree, HostTypes, Host!TypeOK
      <4> QED
        BY <1>2, <1>3, <2>2, <4>1
    <3> QED
      BY <1>1, <2>2, <3>1 DEF Host!HeardCurrent
  <2> QED
    BY <2>1, <2>2
<1>9. surfaces' \in Seq(PluginSurface) /\ lists' \in [Host!Listed -> Seq(PluginSurface)]
  BY <1>2, <1>3
<1>10. Host!ListsAgree'
  <2>1. Host!ClientsOf(surfaces') \subseteq client'
    BY <1>1, <1>2, <1>5 DEF Host!ListsAgree, Host!procVars
  <2>2. ASSUME NEW t \in Host!Listed
        PROVE  lists'[t] = Only(surfaces', {x \in PluginSurface : TypeOf[x] = t})
    <3> DEFINE these == {x \in PluginSurface : TypeOf[x] = t}
    <3>1. lists[t] = Only(surfaces, these)
      BY <1>1, HostLists DEF Host!ListsAgree
    <3>2. s \in these <=> TypeOf[s] = t
      OBVIOUS
    <3> HIDE DEF these
    <3>3. Only(surfaces', these) = IF s \in these THEN Append(Only(surfaces, these), s)
                                   ELSE Only(surfaces, these)
      BY <1>2, <1>3, OnlyAppend
    <3>4. lists'[t] = IF TypeOf[s] = t THEN Append(lists[t], s) ELSE lists[t]
      BY <1>2, <1>3
    <3>5. lists'[t] = Only(surfaces', these)
      BY <3>1, <3>2, <3>3, <3>4
    <3> QED
      BY <3>5 DEF these
  <2> QED
    BY <2>1, <2>2, HostLists, HostSet DEF Host!ListsAgree
<1>11. HostTypes'
  BY <1>1, <1>2, <1>3, <1>7, <1>9, TypesStay DEF HostTypes, Host!TypeOK
<1> QED
  BY <1>2, <1>8, <1>10, <1>11, MovesStay, TokensStay DEF HostInv

\* Surfaces go: from the list of all and from the lists by type alike.
LEMMA RemovedKeeps ==
  ASSUME HostTypes, Host!ListsAgree, NEW gone, Host!Removed(gone)
  PROVE  /\ surfaces' \in Seq(PluginSurface) /\ lists' \in [Host!Listed -> Seq(PluginSurface)]
         /\ ToSet(surfaces') = ToSet(surfaces) \ gone
         /\ \A t \in Host!Listed : lists'[t] = Only(surfaces', {s \in PluginSurface : TypeOf[s] = t})
<1> DEFINE rest == PluginSurface \ gone
<1>1. surfaces \in Seq(PluginSurface) /\ lists \in [Host!Listed -> Seq(PluginSurface)]
  BY DEF HostTypes, Host!TypeOK
<1>2. surfaces' = Only(surfaces, rest) /\ lists' = [t \in Host!Listed |-> Only(lists[t], rest)]
  BY HostLists DEF Host!Removed
<1>3. ToSet(surfaces) \subseteq PluginSurface
  BY <1>1 DEF ToSet
<1>4. surfaces' \in Seq(PluginSurface) /\ ToSet(surfaces') = ToSet(surfaces) \cap rest
  BY <1>1, <1>2, OnlyItems
<1>5. \A t \in Host!Listed : lists'[t] = Only(lists[t], rest) /\ Only(lists[t], rest) \in Seq(PluginSurface)
  BY <1>1, <1>2, OnlyItems
<1>6. lists' \in [Host!Listed -> Seq(PluginSurface)]
  BY <1>2, <1>5
<1>7. ASSUME NEW t \in Host!Listed
      PROVE  lists'[t] = Only(surfaces', {s \in PluginSurface : TypeOf[s] = t})
  <2> DEFINE these == {s \in PluginSurface : TypeOf[s] = t}
  <2>1. lists[t] = Only(surfaces, these)
    BY HostLists DEF Host!ListsAgree
  <2> HIDE DEF these, rest
  <2>2. Only(Only(surfaces, these), rest) = Only(surfaces, these \cap rest)
    BY <1>1, OnlyTwice
  <2>3. Only(Only(surfaces, rest), these) = Only(surfaces, rest \cap these)
    BY <1>1, OnlyTwice
  <2>4. these \cap rest = rest \cap these
    OBVIOUS
  <2>5. lists'[t] = Only(surfaces', these)
    BY <1>2, <1>5, <2>1, <2>2, <2>3, <2>4
  <2> QED
    BY <2>5 DEF these
<1>8. ToSet(surfaces) \cap rest = ToSet(surfaces) \ gone
  BY <1>3
<1> QED
  BY <1>4, <1>6, <1>7, <1>8

LEMMA DestroyPluginStep ==
  ASSUME HostInv, NEW s \in PluginSurface, Host!DestroyPlugin(s)
  PROVE  HostInv'
<1>1. HostTypes /\ Host!ListsAgree /\ Host!HeardCurrent
  BY DEF HostInv
<1>2. Host!Removed({s}) /\ UNCHANGED <<value, heard>> /\ UNCHANGED Host!procVars /\ UNCHANGED Host!moveVars
      /\ UNCHANGED Host!tokenVars
  BY DEF Host!DestroyPlugin
<1>3. /\ surfaces' \in Seq(PluginSurface) /\ lists' \in [Host!Listed -> Seq(PluginSurface)]
      /\ ToSet(surfaces') = ToSet(surfaces) \ {s}
      /\ \A t \in Host!Listed : lists'[t] = Only(surfaces', {x \in PluginSurface : TypeOf[x] = t})
  BY <1>1, <1>2, RemovedKeeps
<1>4. Host!ClientsOf(surfaces') \subseteq Host!ClientsOf(surfaces)
  BY <1>3, HostSet DEF Host!ClientsOf
<1>5. Host!ListsAgree' /\ Host!HeardCurrent'
  BY <1>1, <1>2, <1>3, <1>4, HostLists, HostSet DEF Host!ListsAgree, Host!HeardCurrent, Host!procVars
<1>6. HostTypes'
  BY <1>1, <1>2, <1>3, TypesStay DEF HostTypes, Host!TypeOK
<1> QED
  BY <1>2, <1>5, <1>6, MovesStay, TokensStay DEF HostInv

-----------------------------------------------------------------------------
(* The loader processes.                                                     *)

LEMMA DisconnectedStep ==
  ASSUME HostInv, NEW l \in Loader, Host!Disconnected(l)
  PROVE  HostInv'
<1> DEFINE gone == {s \in PluginSurface : LoaderOf[s] = l}
<1>1. HostTypes /\ Host!ListsAgree /\ Host!HeardCurrent /\ Host!WaitsForToken /\ Host!TypeOK
  BY DEF HostInv, HostTypes
<1>2. /\ client' = client \ {l} /\ Host!Removed(gone) /\ heard' = [heard EXCEPT ![l] = Host!Unheard]
      /\ token' = [t \in Token |-> IF token[t].of = l /\ token[t].state # "destroyed"
                                   THEN [token[t] EXCEPT !.state = "gone"] ELSE token[t]]
      /\ asked' = [r \in Request |-> IF asked[r].state = "waits" /\ asked[r].by = l
                                     THEN [asked[r] EXCEPT !.state = "gone"] ELSE asked[r]]
      /\ UNCHANGED <<loader, value, pending, moves, last, provider>>
  BY DEF Host!Disconnected
<1>3. /\ surfaces' \in Seq(PluginSurface) /\ lists' \in [Host!Listed -> Seq(PluginSurface)]
      /\ ToSet(surfaces') = ToSet(surfaces) \ gone
      /\ \A t \in Host!Listed : lists'[t] = Only(surfaces', {x \in PluginSurface : TypeOf[x] = t})
  BY <1>1, <1>2, RemovedKeeps
<1>4. Host!ClientsOf(surfaces') \subseteq Host!ClientsOf(surfaces) \ {l}
  <2>1. ToSet(surfaces) \subseteq PluginSurface
    BY <1>1 DEF Host!TypeOK, ToSet
  <2> QED
    BY <1>3, <2>1, HostSet DEF Host!ClientsOf
<1>5. Host!ListsAgree'
  BY <1>1, <1>2, <1>3, <1>4, HostLists, HostSet DEF Host!ListsAgree
<1>6. Host!HeardCurrent'
  <2> SUFFICES ASSUME NEW k \in Host!ClientsOf(surfaces'), NEW v \in Host!Value
               PROVE  heard'[k][v] = value[v] \/ (v \in KeptIfSet /\ value[v] = 0)
    BY <1>2 DEF Host!HeardCurrent
  <2>1. k \in Host!ClientsOf(surfaces) /\ k # l /\ k \in Loader
    BY <1>1, <1>4 DEF Host!ListsAgree, Host!TypeOK
  <2>2. heard'[k] = heard[k]
    BY <1>1, <1>2, <2>1 DEF Host!TypeOK
  <2> QED
    BY <1>1, <2>1, <2>2 DEF Host!HeardCurrent
<1>7. token' \in [Token -> TokenState]
  BY <1>1, <1>2 DEF HostTypes, TokenState
<1>8. Host!WaitsForToken'
  <2>1. ASSUME last # NoToken PROVE token'[last].state \in {"committed", "gone"}
    <3>1. last \in Token /\ token[last] \in TokenState /\ token[last].state \in {"committed", "gone"}
      BY <1>1, <2>1 DEF HostTypes, Host!TypeOK, Host!WaitsForToken
    <3> QED
      BY <1>2, <3>1 DEF TokenState
  <2> QED
    BY <1>1, <1>2, <2>1 DEF Host!WaitsForToken
<1>9. heard' \in [Loader -> [Host!Value -> -1..MaxValue]]
  <2>1. Host!Unheard \in [Host!Value -> -1..MaxValue]
    BY HostAssumption DEF Host!Unheard
  <2> QED
    BY <1>1, <1>2, <2>1 DEF Host!TypeOK
<1>11. /\ asked' \in [Request -> AskedState]
       /\ \A r \in Request : asked[r].state # "none" =>
            asked'[r].state # "none" /\ asked'[r].window = asked[r].window
  <2>1. ASSUME NEW r \in Request
        PROVE  /\ asked'[r] \in AskedState
               /\ asked[r].state # "none" =>
                    asked'[r].state # "none" /\ asked'[r].window = asked[r].window
    <3>1. asked[r] \in AskedState
      BY <1>1 DEF HostTypes
    <3>2. CASE asked[r].state = "waits" /\ asked[r].by = l
      <4>1. asked[r] \in Asks /\ asked'[r] = [asked[r] EXCEPT !.state = "gone"]
        BY <1>2, <3>1, <3>2 DEF AskedState
      <4> QED
        BY <4>1 DEF AskedState, Asks
    <3>3. CASE ~(asked[r].state = "waits" /\ asked[r].by = l)
      <4>1. asked'[r] = asked[r]
        BY <1>2, <3>3
      <4> QED
        BY <3>1, <4>1
    <3> QED
      BY <3>2, <3>3
  <2> QED
    BY <1>2, <2>1
<1>10. HostTypes'
  BY <1>1, <1>2, <1>3, <1>7, <1>9, <1>11 DEF HostTypes, Host!TypeOK
<1>12. Host!WaitsForMove' /\ MovesAsked'
  <2>1. Host!WaitsForMove /\ MovesAsked
    BY DEF HostInv
  <2>2. Host!WaitsForMove'
    BY <1>2, <2>1 DEF Host!WaitsForMove
  <2>3. moves \subseteq Request /\ \A w \in Window : pending[w] # NoRequest => pending[w] \in Request
    BY <1>1 DEF Host!TypeOK
  <2> QED
    BY <1>2, <1>11, <2>1, <2>2, <2>3 DEF MovesAsked
<1> QED
  BY <1>5, <1>6, <1>8, <1>10, <1>12 DEF HostInv

\* A loader ends, is started again, or not.
LEMMA LoaderStep ==
  ASSUME HostInv, NEW l \in Loader,
         \/ Host!HandleProcessFinished(l)
         \/ \E how \in {"crashed", "ended"} : Host!Dies(l, how)
         \/ \E works \in BOOLEAN : Host!Retry(l, works)
  PROVE  HostInv'
<1>1. HostTypes /\ Host!TypeOK
  BY DEF HostInv, HostTypes
<1>2. UNCHANGED Host!surfVars /\ UNCHANGED Host!moveVars /\ UNCHANGED Host!tokenVars
      /\ client' \in {client, client \cup {l}}
  BY DEF Host!HandleProcessFinished, Host!Dies, Host!Retry, Host!Becomes
<1>3. loader' \in [Loader -> [state : Host!States, retryCount : 0..MaxRetries]]
  <2>1. loader \in [Loader -> [state : Host!States, retryCount : 0..MaxRetries]]
    BY <1>1 DEF Host!TypeOK
  <2>2. ASSUME NEW how \in Host!States, Host!Becomes(l, how)
        PROVE  loader' \in [Loader -> [state : Host!States, retryCount : 0..MaxRetries]]
    BY <2>1, <2>2 DEF Host!Becomes
  <2>3. CASE \E how \in {"crashed", "ended"} : Host!Dies(l, how)
    BY <2>2, <2>3 DEF Host!Dies, Host!States
  <2>4. CASE \E works \in BOOLEAN : Host!Retry(l, works)
    <3>1. \E how \in Host!States : Host!Becomes(l, how)
      BY <2>4 DEF Host!Retry, Host!States
    <3> QED
      BY <2>2, <3>1
  <2>5. CASE Host!HandleProcessFinished(l)
    <3>1. CASE \E how \in Host!States : Host!Becomes(l, how)
      BY <2>2, <3>1
    <3>2. CASE ~\E how \in Host!States : Host!Becomes(l, how)
      <4>1. /\ Host!MayRetry(l)
            /\ loader' = [loader EXCEPT ![l] = [state |-> "retries", retryCount |-> @.retryCount + 1]]
        BY <2>5, <3>2 DEF Host!HandleProcessFinished, Host!States
      <4>2. loader[l].retryCount + 1 \in 0..MaxRetries
        BY <2>1, <4>1, HostAssumption DEF Host!MayRetry
      <4> QED
        BY <2>1, <4>1, <4>2 DEF Host!States
    <3> QED
      BY <3>1, <3>2
  <2> QED
    BY <2>3, <2>4, <2>5
<1>4. HostTypes'
  BY <1>1, <1>2, <1>3, TypesStay DEF HostTypes, Host!TypeOK
<1> QED
  BY <1>2, <1>4, SurfacesStay, MovesStay, TokensStay DEF HostInv

-----------------------------------------------------------------------------
(* Moves of XEmbed windows.                                                  *)

\* An answer names no other request and no other window.
LEMMA NotifiedIs ==
  ASSUME NEW who \in [Request -> AskedState], NEW p \in [Window -> Request \cup {NoRequest}],
         NEW w \in Window, p[w] # NoRequest => who[p[w]].state # "none"
  PROVE  /\ Host!Notified(who, w, p) \in [Request -> AskedState]
         /\ \A r \in Request : who[r].state # "none" =>
              /\ Host!Notified(who, w, p)[r].state # "none"
              /\ Host!Notified(who, w, p)[r].window = who[r].window
<1>1. CASE p[w] = NoRequest \/ who[p[w]].state # "waits"
  BY <1>1 DEF Host!Notified
<1>2. CASE p[w] # NoRequest /\ who[p[w]].state = "waits"
  <2> DEFINE q == p[w]
  <2>1. /\ q \in Request /\ who[q].state # "none"
        /\ Host!Notified(who, w, p) = [who EXCEPT ![q].state = "answered"]
    BY <1>2 DEF Host!Notified
  <2>2. who[q] \in Asks
    BY <2>1 DEF AskedState
  <2> HIDE DEF q
  <2>3. /\ [who[q] EXCEPT !.state = "answered"] \in AskedState
        /\ [who[q] EXCEPT !.state = "answered"].state = "answered"
        /\ [who[q] EXCEPT !.state = "answered"].window = who[q].window
    BY <2>2 DEF AskedState, Asks
  <2> QED
    BY <2>1, <2>3
<1> QED
  BY <1>1, <1>2

\* Who is overwritten stays asked, for its window.
LEMMA OverwrittenIs ==
  ASSUME NEW who \in [Request -> AskedState], NEW old \in Request \cup {NoRequest},
         old # NoRequest => old \in Request /\ who[old].state # "none"
  PROVE  /\ Host!Overwritten(who, old, NoRequest) \in [Request -> AskedState]
         /\ \A r \in Request : who[r].state # "none" =>
              /\ Host!Overwritten(who, old, NoRequest)[r].state # "none"
              /\ Host!Overwritten(who, old, NoRequest)[r].window = who[r].window
<1>1. CASE old = NoRequest
  BY <1>1 DEF Host!Overwritten
<1>2. CASE old # NoRequest
  <2>1. /\ old \in Request /\ who[old].state # "none"
        /\ Host!Overwritten(who, old, NoRequest) = [who EXCEPT ![old].state = "overwritten"]
    BY <1>2 DEF Host!Overwritten
  <2>2. who[old] \in Asks
    BY <2>1 DEF AskedState
  <2>3. /\ [who[old] EXCEPT !.state = "overwritten"] \in AskedState
        /\ [who[old] EXCEPT !.state = "overwritten"].state = "overwritten"
        /\ [who[old] EXCEPT !.state = "overwritten"].window = who[old].window
    BY <2>2 DEF AskedState, Asks
  <2> QED
    BY <2>1, <2>3
<1> QED
  BY <1>1, <1>2

LEMMA MoveStep ==
  ASSUME HostInv, NEW l \in Loader, NEW r \in Request, NEW w \in Window,
         Host!MoveXEmbedWindow(l, r, w)
  PROVE  HostInv'
<1> DEFINE before == Host!Overwritten(asked, pending[w], NoRequest)
           by(who, state) == [who EXCEPT ![r] = [by |-> l, window |-> w, state |-> state]]
           waits == by(before, "waits")
           answers == by(asked, "answered")
           stored == [pending EXCEPT ![w] = r]
<1>1. HostTypes /\ Host!TypeOK /\ Host!WaitsForMove /\ MovesAsked /\ NoRequest \notin Request
  BY HostAssumption DEF HostInv, HostTypes
<1>2. /\ UNCHANGED Host!procVars /\ UNCHANGED Host!surfVars /\ UNCHANGED Host!tokenVars
      /\ client' = client /\ asked[r].state = "none"
  BY DEF Host!MoveXEmbedWindow, Host!procVars
<1>3. /\ asked \in [Request -> AskedState] /\ pending \in [Window -> Request \cup {NoRequest}]
      /\ moves \subseteq Request
  BY <1>1 DEF HostTypes, Host!TypeOK
<1>11. /\ before \in [Request -> AskedState]
       /\ \A q \in Request : asked[q].state # "none" =>
            before[q].state # "none" /\ before[q].window = asked[q].window
  <2>1. pending[w] # NoRequest => pending[w] \in Request /\ asked[pending[w]].state # "none"
    BY <1>1, <1>3 DEF MovesAsked
  <2> QED
    BY <1>3, <2>1, OverwrittenIs
<1>4. ASSUME NEW who \in [Request -> AskedState], NEW state \in {"waits", "answered"},
             \A q \in Request : asked[q].state # "none" =>
               who[q].state # "none" /\ who[q].window = asked[q].window
      PROVE  /\ by(who, state) \in [Request -> AskedState]
             /\ by(who, state)[r].state # "none" /\ by(who, state)[r].window = w
             /\ \A q \in Request \ {r} : asked[q].state # "none" =>
                  by(who, state)[q].state # "none" /\ by(who, state)[q].window = asked[q].window
  BY <1>4 DEF AskedState, Asks
<1>5. \A v \in Window : pending[v] # r
  BY <1>1, <1>2 DEF MovesAsked
<1>6. r \notin moves
  BY <1>1, <1>2 DEF MovesAsked
<1>7. stored \in [Window -> Request \cup {NoRequest}] /\ stored[w] = r
      /\ \A v \in Window \ {w} : stored[v] = pending[v]
  BY <1>3
<1>12. /\ answers \in [Request -> AskedState] /\ answers[r].state # "none" /\ answers[r].window = w
       /\ \A q \in Request \ {r} : asked[q].state # "none" =>
            answers[q].state # "none" /\ answers[q].window = asked[q].window
  BY <1>3, <1>4
<1>13. /\ waits \in [Request -> AskedState] /\ waits[r].state # "none" /\ waits[r].window = w
       /\ \A q \in Request \ {r} : asked[q].state # "none" =>
            waits[q].state # "none" /\ waits[q].window = asked[q].window
  BY <1>4, <1>11
<1> HIDE DEF by, stored, waits, answers, before
<1>8. CASE asked' = answers /\ UNCHANGED <<pending, moves>>
  <2>1. Host!WaitsForMove' /\ MovesAsked'
    BY <1>1, <1>2, <1>3, <1>5, <1>6, <1>8, <1>12 DEF Host!WaitsForMove, MovesAsked
  <2>2. HostTypes'
    BY <1>1, <1>2, <1>8, <1>12, TypesStay DEF HostTypes, Host!TypeOK
  <2> QED
    BY <1>2, <2>1, <2>2, SurfacesStay, TokensStay DEF HostInv
<1>9. CASE Host!Refused(waits, stored, w) /\ moves' = moves
  <2>1. /\ asked' = Host!Notified(waits, w, stored)
        /\ pending' = [stored EXCEPT ![w] = NoRequest]
    BY <1>9 DEF Host!Refused
  <2>2. /\ asked' \in [Request -> AskedState]
        /\ \A q \in Request : waits[q].state # "none" =>
             asked'[q].state # "none" /\ asked'[q].window = waits[q].window
    BY <1>13, <1>7, <2>1, NotifiedIs
  <2>3. /\ pending' \in [Window -> Request \cup {NoRequest}] /\ pending'[w] = NoRequest
        /\ \A v \in Window \ {w} : pending'[v] = pending[v]
    BY <1>7, <2>1
  <2>4. Host!WaitsForMove'
    BY <1>1, <1>9, <2>3 DEF Host!WaitsForMove
  <2>5. MovesAsked'
    BY <1>1, <1>3, <1>13, <1>5, <1>6, <1>9, <2>2, <2>3 DEF MovesAsked
  <2>6. HostTypes'
    BY <1>1, <1>2, <1>9, <2>2, <2>3, TypesStay DEF HostTypes, Host!TypeOK
  <2> QED
    BY <1>2, <2>4, <2>5, <2>6, SurfacesStay, TokensStay DEF HostInv
<1>10. CASE asked' = waits /\ pending' = stored /\ moves' = moves \cup {r}
  <2>1. Host!WaitsForMove'
    BY <1>1, <1>7, <1>10 DEF Host!WaitsForMove
  <2>2. MovesAsked'
    BY <1>1, <1>3, <1>13, <1>5, <1>6, <1>7, <1>10 DEF MovesAsked
  <2>3. HostTypes'
    BY <1>1, <1>2, <1>3, <1>13, <1>7, <1>10, TypesStay DEF HostTypes, Host!TypeOK
  <2> QED
    BY <1>2, <2>1, <2>2, <2>3, SurfacesStay, TokensStay DEF HostInv
<1> QED
  BY <1>8, <1>9, <1>10 DEF Host!MoveXEmbedWindow, by, stored, waits, answers, before

LEMMA MoveResultStep ==
  ASSUME HostInv, NEW r \in Request, Host!XEmbedWindowMoveResult(r)
  PROVE  HostInv'
<1> DEFINE w == asked[r].window
<1>1. HostTypes /\ Host!TypeOK /\ Host!WaitsForMove /\ MovesAsked
  BY DEF HostInv, HostTypes
<1>2. /\ r \in moves /\ moves' = moves \ {r} /\ asked' = Host!Notified(asked, w, pending)
      /\ pending' = [pending EXCEPT ![w] = NoRequest]
      /\ UNCHANGED Host!procVars /\ UNCHANGED Host!surfVars /\ UNCHANGED Host!tokenVars /\ client' = client
  BY DEF Host!XEmbedWindowMoveResult, Host!procVars
<1>3. /\ asked \in [Request -> AskedState] /\ pending \in [Window -> Request \cup {NoRequest}]
      /\ moves \subseteq Request
  BY <1>1 DEF HostTypes, Host!TypeOK
<1>4. w \in Window
  <2>1. asked[r].state # "none" /\ asked[r] \in AskedState
    BY <1>1, <1>2, <1>3 DEF MovesAsked
  <2> QED
    BY <2>1 DEF AskedState, Asks
<1>5. \A v \in Window : pending[v] = r => v = w
  BY <1>1, <1>3, HostAssumption DEF MovesAsked
<1> HIDE DEF w
<1>6. /\ asked' \in [Request -> AskedState]
      /\ \A q \in Request : asked[q].state # "none" =>
           asked'[q].state # "none" /\ asked'[q].window = asked[q].window
  <2>1. pending[w] # NoRequest => asked[pending[w]].state # "none"
    BY <1>1, <1>4 DEF MovesAsked
  <2> QED
    BY <1>2, <1>3, <1>4, <2>1, NotifiedIs
<1>7. /\ pending' \in [Window -> Request \cup {NoRequest}] /\ pending'[w] = NoRequest
      /\ \A v \in Window \ {w} : pending'[v] = pending[v]
  BY <1>2, <1>3, <1>4
<1>8. Host!WaitsForMove'
  BY <1>1, <1>2, <1>5, <1>7 DEF Host!WaitsForMove
<1>9. MovesAsked'
  BY <1>1, <1>2, <1>3, <1>6, <1>7 DEF MovesAsked
<1>10. HostTypes'
  BY <1>1, <1>2, <1>3, <1>6, <1>7, TypesStay DEF HostTypes, Host!TypeOK
<1> QED
  BY <1>2, <1>8, <1>9, <1>10, SurfacesStay, TokensStay DEF HostInv

-----------------------------------------------------------------------------
(* Activation tokens.                                                        *)

\* The state of one token changes, and what waits then is one that may.
LEMMA TokenKeeps ==
  ASSUME HostInv, UNCHANGED Host!procVars, UNCHANGED Host!surfVars, UNCHANGED Host!moveVars,
         token' \in [Token -> TokenState], last' \in Token \cup {NoToken}, provider' \in BOOLEAN,
         Host!WaitsForToken'
  PROVE  HostInv'
<1>1. HostTypes'
  BY TypesStay DEF HostInv, HostTypes, Host!TypeOK
<1> QED
  BY <1>1, SurfacesStay, MovesStay DEF HostInv, Host!procVars

LEMMA GetActivationTokenStep ==
  ASSUME HostInv, NEW l \in Loader, NEW t \in Token, Host!GetActivationToken(l, t)
  PROVE  HostInv'
<1>1. HostTypes /\ Host!TypeOK /\ Host!WaitsForToken
  BY DEF HostInv, HostTypes
<1>2. /\ token[t].state = "none" /\ token' = [token EXCEPT ![t] = [of |-> l, state |-> "made"]]
      /\ last' = last /\ provider' = provider
      /\ UNCHANGED Host!procVars /\ UNCHANGED Host!surfVars /\ UNCHANGED Host!moveVars
  BY DEF Host!GetActivationToken
<1>3. token' \in [Token -> TokenState]
  BY <1>1, <1>2 DEF HostTypes, TokenState
<1>4. Host!WaitsForToken'
  <2>1. last # t
    BY <1>1, <1>2, HostAssumption DEF Host!WaitsForToken
  <2> QED
    BY <1>1, <1>2, <2>1 DEF HostTypes, Host!TypeOK, Host!WaitsForToken
<1> QED
  BY <1>1, <1>2, <1>3, <1>4, TokenKeeps DEF Host!TypeOK

LEMMA CommitStep ==
  ASSUME HostInv, NEW t \in Token, Host!Commit(t)
  PROVE  HostInv'
<1>1. HostTypes /\ Host!TypeOK /\ Host!WaitsForToken
  BY DEF HostInv, HostTypes
<1>2. UNCHANGED Host!procVars /\ UNCHANGED Host!surfVars /\ UNCHANGED Host!moveVars
  BY DEF Host!Commit
<1>3. \A state \in {"done", "committed"} :
        /\ [token EXCEPT ![t].state = state] \in [Token -> TokenState]
        /\ [token EXCEPT ![t].state = state][t].state = state
  BY <1>1 DEF HostTypes, TokenState
<1>4. CASE ~provider /\ Host!NoTokenReady(t) /\ UNCHANGED provider
  BY <1>1, <1>2, <1>3, <1>4, TokenKeeps DEF Host!NoTokenReady, Host!WaitsForToken, Host!TypeOK
<1> DEFINE before == Host!Overwritten(token, last, NoToken)
<1>6. /\ [before EXCEPT ![t].state = "committed"] \in [Token -> TokenState]
      /\ [before EXCEPT ![t].state = "committed"][t].state = "committed"
  <2>1. before \in [Token -> TokenState]
    BY <1>1 DEF HostTypes, Host!TypeOK, TokenState, Host!Overwritten
  <2> HIDE DEF before
  <2> QED
    BY <2>1 DEF TokenState
<1>5. CASE /\ token' = [before EXCEPT ![t].state = "committed"]
           /\ last' = t /\ provider' = TRUE
  <2>1. token' \in [Token -> TokenState] /\ token'[t].state = "committed"
    BY <1>5, <1>6
  <2> QED
    BY <1>2, <1>5, <2>1, TokenKeeps DEF Host!WaitsForToken
<1> QED
  BY <1>4, <1>5 DEF Host!Commit

LEMMA TokenReadyStep ==
  ASSUME HostInv, Host!TokenReady
  PROVE  HostInv'
<1>1. HostTypes /\ Host!TypeOK
  BY DEF HostInv, HostTypes
<1>2. /\ provider' = FALSE /\ token' = Host!Done(last) /\ last' = NoToken
      /\ UNCHANGED Host!procVars /\ UNCHANGED Host!surfVars /\ UNCHANGED Host!moveVars
  BY DEF Host!TokenReady
<1>3. token' \in [Token -> TokenState]
  BY <1>1, <1>2 DEF Host!Done, HostTypes, Host!TypeOK, TokenState
<1> QED
  BY <1>2, <1>3, TokenKeeps DEF Host!WaitsForToken

LEMMA DestroyTokenStep ==
  ASSUME HostInv, NEW t \in Token, Host!DestroyToken(t)
  PROVE  HostInv'
<1>1. HostTypes /\ Host!TypeOK /\ Host!WaitsForToken
  BY DEF HostInv, HostTypes
<1>2. /\ token' = [token EXCEPT ![t].state = "destroyed"]
      /\ last' = (IF last = t THEN NoToken ELSE last) /\ provider' = provider
      /\ UNCHANGED Host!procVars /\ UNCHANGED Host!surfVars /\ UNCHANGED Host!moveVars
  BY DEF Host!DestroyToken, Host!ForgetIf
<1>3. token' \in [Token -> TokenState] /\ \A u \in Token \ {t} : token'[u] = token[u]
  BY <1>1, <1>2 DEF HostTypes, TokenState
<1>4. Host!WaitsForToken'
  BY <1>1, <1>2, <1>3 DEF Host!WaitsForToken, Host!TypeOK
<1> QED
  BY <1>1, <1>2, <1>3, <1>4, TokenKeeps DEF Host!TypeOK

-----------------------------------------------------------------------------
(* The invariant holds, and what follows from it.                            *)

LEMMA HostInit == Host!Init => HostInv
<1> SUFFICES ASSUME Host!Init PROVE HostInv
  OBVIOUS
<1>1. /\ loader = [l \in Loader |-> [state |-> "runs", retryCount |-> 0]]
      /\ client = Loader /\ surfaces = <<>> /\ lists = [t \in Host!Listed |-> <<>>]
      /\ value = [v \in Host!Value |-> 0] /\ heard = [l \in Loader |-> Host!Unheard]
      /\ asked = [r \in Request |-> [state |-> "none"]]
      /\ pending = [w \in Window |-> NoRequest] /\ moves = {}
      /\ token = [t \in Token |-> [of |-> NoToken, state |-> "none"]]
      /\ last = NoToken /\ provider = FALSE
  BY DEF Host!Init
<1>2. Host!TypeOK
  <2>1. 0 \in 0..MaxValue /\ -1 \in -1..MaxValue /\ 0 \in 0..MaxRetries
    BY HostAssumption
  <2>2. loader \in [Loader -> [state : Host!States, retryCount : 0..MaxRetries]]
    BY <1>1, <2>1 DEF Host!States
  <2>3. Host!Unheard \in [Host!Value -> -1..MaxValue]
    BY <2>1 DEF Host!Unheard
  <2>4. value \in [Host!Value -> 0..MaxValue] /\ heard \in [Loader -> [Host!Value -> -1..MaxValue]]
    BY <1>1, <2>1, <2>3
  <2>5. surfaces \in Seq(PluginSurface) /\ lists \in [Host!Listed -> Seq(PluginSurface)]
    BY <1>1
  <2>6. /\ pending \in [Window -> Request \cup {NoRequest}] /\ moves \subseteq Request
        /\ last \in Token \cup {NoToken} /\ provider \in BOOLEAN /\ client \subseteq Loader
    BY <1>1
  <2> QED
    BY <2>2, <2>4, <2>5, <2>6 DEF Host!TypeOK
<1>3. HostTypes
  BY <1>1, <1>2 DEF HostTypes, AskedState, TokenState
<1>4. Host!ClientsOf(surfaces) = {}
  BY <1>1, HostSet DEF Host!ClientsOf, ToSet
<1>5. Host!ListsAgree /\ Host!HeardCurrent
  BY <1>1, <1>4, OnlyEmpty, HostLists, HostSet DEF Host!ListsAgree, Host!HeardCurrent
<1>6. Host!WaitsForMove /\ MovesAsked /\ Host!WaitsForToken
  BY <1>1 DEF Host!WaitsForMove, MovesAsked, Host!WaitsForToken
<1> QED
  BY <1>3, <1>5, <1>6 DEF HostInv

LEMMA HostStep == HostInv /\ [Host!Next]_(Host!vars) => HostInv'
<1> SUFFICES ASSUME HostInv, [Host!Next]_(Host!vars) PROVE HostInv'
  OBVIOUS
<1>1. CASE \E v \in Host!Value, n \in 0..MaxValue : Host!SetValue(v, n)
  BY <1>1, SetValueStep
<1>2. CASE \E s \in PluginSurface : Host!CreatePlugin(s) \/ Host!DestroyPlugin(s)
  BY <1>2, CreatePluginStep, DestroyPluginStep
<1>3. ASSUME NEW l \in Loader,
             \/ Host!HandleProcessFinished(l)
             \/ \E how \in {"crashed", "ended"} : Host!Dies(l, how)
             \/ \E works \in BOOLEAN : Host!Retry(l, works)
      PROVE  HostInv'
  BY <1>3, LoaderStep
<1>4. ASSUME NEW l \in Loader, Host!Disconnected(l) PROVE HostInv'
  BY <1>4, DisconnectedStep
<1>5. ASSUME NEW l \in Loader, \E r \in Request, w \in Window : Host!MoveXEmbedWindow(l, r, w)
      PROVE  HostInv'
  BY <1>5, MoveStep
<1>6. ASSUME NEW l \in Loader, \E t \in Token : Host!GetActivationToken(l, t) PROVE HostInv'
  BY <1>6, GetActivationTokenStep
<1>7. CASE \E r \in Request : Host!XEmbedWindowMoveResult(r)
  BY <1>7, MoveResultStep
<1>8. CASE \E t \in Token : Host!Commit(t) \/ Host!DestroyToken(t)
  BY <1>8, CommitStep, DestroyTokenStep
<1>9. CASE Host!TokenReady
  BY <1>9, TokenReadyStep
<1>10. CASE UNCHANGED Host!vars
  <2>1. UNCHANGED Host!procVars /\ UNCHANGED Host!surfVars /\ UNCHANGED Host!moveVars /\ UNCHANGED Host!tokenVars
        /\ client' = client
    BY <1>10 DEF Host!vars, Host!procVars
  <2>2. HostTypes'
    BY <2>1, TypesStay DEF HostInv, HostTypes, Host!TypeOK
  <2> QED
    BY <2>1, <2>2, SurfacesStay, MovesStay, TokensStay DEF HostInv
<1> QED
  BY <1>1, <1>2, <1>3, <1>4, <1>5, <1>6, <1>7, <1>8, <1>9, <1>10 DEF Host!Next

\* HostInv holds in every reachable state.
LEMMA HostAlways == Host!Spec => []HostInv
BY HostInit, HostStep, PTL DEF Host!Spec

\* HostSound: whatever surfaces come and go and whatever processes die, the lists
\* of DockCompositor are the surfaces of PluginManager by type, in their order, and
\* all of a connected client; an XEmbed entry waits for a move that is under way,
\* and the pending token for a request that is.
THEOREM ListsFollow == Host!Spec => []Host!HostSound
<1>1. HostInv => Host!HostSound
  BY DEF HostInv, HostTypes, Host!HostSound
<1> QED
  BY <1>1, HostAlways, PTL

\* HeardCurrent: a loader that has a surface was told the dock's current position,
\* theme, size and height, whichever of its surfaces came first or is left.
THEOREM ClientsAreTold == Host!Spec => []Host!HeardCurrent
<1>1. HostInv => Host!HeardCurrent
  BY DEF HostInv
<1> QED
  BY <1>1, HostAlways, PTL
-----------------------------------------------------------------------------
(* The behaviours of the runs: a step is one of one part, and stutters for the others. *)

LEMMA PartsStepIsTray ==
  [PartsNext]_<<part, vars, popupVars, hostVars>> => [Next]_vars
BY DEF PartsNext

LEMMA PartsStepIsPopups ==
  [PartsNext]_<<part, vars, popupVars, hostVars>> => [Popups!Next]_(Popups!vars)
<1>1. UNCHANGED popupVars => UNCHANGED Popups!vars
  BY DEF popupVars, Popups!vars
<1> QED
  BY <1>1 DEF PartsNext

LEMMA PartsStepIsHost ==
  [PartsNext]_<<part, vars, popupVars, hostVars>> => [Host!Next]_(Host!vars)
<1>1. UNCHANGED hostVars => UNCHANGED Host!vars
  BY DEF hostVars, Host!vars, Host!procVars, Host!surfVars, Host!moveVars, Host!tokenVars
<1> QED
  BY <1>1 DEF PartsNext

LEMMA PartsAre == PartsSpec => Spec /\ Popups!Spec /\ Host!Spec
<1>1. PartsInit => Init /\ Popups!Init /\ Host!Init
  BY DEF PartsInit
<1> QED
  BY <1>1, PartsStepIsTray, PartsStepIsPopups, PartsStepIsHost, PTL
     DEF PartsSpec, Spec, Popups!Spec, Host!Spec

\* TraySound: whatever items come, go, are dragged, staged, hidden or set from outside,
\* every item of TraySortOrderModel is in one section that may hold it, and the indexes
\* updateVisualIndexes writes put what is shown side by side; and a panel shows one popup,
\* at the size of its item, that closes when the focus left it.
THEOREM PartsTray == PartsSpec => []TraySound
BY PartsAre, TrayListsSound, PopupsKeepSound, PTL DEF TraySound

\* Agree: once the model and the settings heard of every change, the items of a section in
\* the model, in their order, are those saved in the configuration, and hidden ones too.
THEOREM PartsAgree == PartsSpec => []Agree
BY PartsAre, TrayAgrees, PTL

\* MovesOne: no step of TraySortOrderModel reorders the saved sections but for one surface:
\* the others stay in their section and in their order.
THEOREM PartsMoveOne == PartsSpec => MovesOne
BY PartsAre, TrayMovesOne, PTL

\* HeardIsKept: what another program adds to the items hidden from the dock stays hidden,
\* unless the model writes its own list before it has heard of it.
THEOREM PartsKeepHeard == PartsSpec => HeardIsKept
BY PartsAre, TrayKeepsHeard, PTL

\* HostSound: in the behaviours of surfaces, moves and tokens the lists of DockCompositor
\* follow PluginManager's, and what waits has something to wait for.
THEOREM PartsHost == PartsSpec => []HostSound
BY PartsAre, ListsFollow, PTL DEF HostSound

\* HeardCurrent: in those behaviours a client with a surface knows the dock's values.
THEOREM PartsHeard == PartsSpec => []HeardCurrent
BY PartsAre, ClientsAreTold, PTL DEF HeardCurrent
=============================================================================
