--------------------------- MODULE TextCalculator ---------------------------
(***************************************************************************)
(* How much of the windows' titles the taskbar shows: taskmanager/             *)
(* textcalculator.cpp.  All titles get the same width, the widest of seven to two   *)
(* characters with which all the items fit; the item of a window shortens its       *)
(* title to that width.                                                        *)
(*                                                                           *)
(* A title is its length, a font the widths of the wide character that is counted   *)
(* and of the others.  One item stands for all.                                *)
(***************************************************************************)
EXTENDS Naturals, Sequences, SequencesExt, FiniteSetsExt

CONSTANTS
  Fonts,          \* records [wide, narrow]
  Sizes,          \* records [icon, cell, spacing, padding]
  Spaces,         \* remainingSpace
  Title,          \* lengths, 0 for none
  MaxRows         \* bound: rows of the model

VARIABLES
  font, sizes, space, enabled, complete,
  titles,         \* of the data model; <<>> too if it is gone
  hasModel,       \* m_dataModel
  optimal,        \* m_optimalSingleTextWidth
  cache,          \* m_baselineWidthCache: number of characters -> width
  text, elided,   \* of the item; elided is the length of m_elidedText
  misfit          \* history: the item was shortened with another font

vars == <<font, sizes, space, enabled, complete, titles, hasModel, optimal, cache, text,
          elided, misfit>>

Counts == 2..7

\* calculateElidedTextWidth, updateElidedText: as many characters as go into the width.
Fitting(length, width, f) == Min({length, width \div f.narrow})

-----------------------------------------------------------------------------
(* The calculation.                                                          *)

\* The width of all items if titles may have this width.
Required(ts, width, f, s) ==
  LET Item(length) ==
        LET shown == Fitting(length, width, f) * f.narrow
        IN  IF shown > 0 THEN s.icon + s.padding + shown ELSE s.cell
      Sum[n \in 0..Len(ts)] == IF n = 0 THEN 0 ELSE Sum[n - 1] + Item(ts[n])
  IN  Sum[Len(ts)] + s.spacing * (Len(ts) - 1)

\* calculateBaselineWidth, from the cache if it is there.
Baseline(count, f, known) == IF count \in DOMAIN known THEN known[count] ELSE count * f.wide

\* The largest number of characters with which all fits, or 0.
BestCount(ts, f, s, room, known) ==
  Max({0} \cup {c \in Counts : Required(ts, Baseline(c, f, known), f, s) <= room})

\* The cache after it: every count from 7 down to the one found was asked for.
Asked(count, f, known) ==
  LET from == IF count = 0 THEN 2 ELSE count
  IN  [c \in DOMAIN known \cup (from..7) |-> Baseline(c, f, known)]

\* The item hears of a width that changes.
Elide(width) ==
  IF width = optimal THEN UNCHANGED elided /\ misfit' = (misfit \/ font' # font)
  ELSE elided' = Fitting(text, width, font') /\ misfit' = FALSE

\* calculateOptimalTextWidth
CalculateOptimalTextWidth(known) ==
  IF titles' = <<>> \/ space' = 0
  THEN optimal' = 0 /\ cache' = known
  ELSE LET best == BestCount(titles', font', sizes', space', known)
       IN  /\ optimal' = IF best = 0 THEN 0 ELSE Baseline(best, font', known)
           /\ cache' = Asked(best, font', known)

\* scheduleCalculation, once the rest has its new value.
ScheduleCalculation(known) ==
  /\ IF ~complete' THEN optimal' = optimal /\ cache' = known
     ELSE IF ~enabled' \/ ~hasModel' THEN optimal' = 0 /\ cache' = known
     ELSE CalculateOptimalTextWidth(known)
  /\ Elide(optimal') /\ UNCHANGED text

-----------------------------------------------------------------------------
(* What the taskbar sets, and what its model does.                           *)

SetFont(f) ==
  /\ f # font /\ font' = f
  /\ UNCHANGED <<sizes, space, enabled, complete, titles, hasModel>>
  /\ ScheduleCalculation(<<>>)

\* setIconSize, setCellSize, setSpacing, setItemPadding
SetSize(s) ==
  /\ s # sizes /\ sizes' = s
  /\ UNCHANGED <<font, space, enabled, complete, titles, hasModel>>
  /\ ScheduleCalculation(cache)

SetRemainingSpace(room) ==
  /\ room # space /\ space' = room
  /\ UNCHANGED <<font, sizes, enabled, complete, titles, hasModel>>
  /\ ScheduleCalculation(cache)

\* Disabling resets the width at once, also before the component is complete.
SetEnabled ==
  /\ enabled' = ~enabled
  /\ UNCHANGED <<font, sizes, space, complete, titles, hasModel>>
  /\ IF enabled' THEN ScheduleCalculation(cache)
     ELSE optimal' = 0 /\ cache' = cache /\ Elide(0) /\ UNCHANGED text

ComponentComplete ==
  /\ ~complete /\ complete' = TRUE
  /\ UNCHANGED <<font, sizes, space, enabled, titles, hasModel>>
  /\ ScheduleCalculation(cache)

\* setDataModel, with the rows it has.
SetDataModel(ts) ==
  /\ ~hasModel /\ hasModel' = TRUE /\ titles' = ts
  /\ UNCHANGED <<font, sizes, space, enabled, complete>>
  /\ ScheduleCalculation(cache)

\* onDataModelDestroyed
DataModelDestroyed ==
  /\ hasModel /\ hasModel' = FALSE /\ titles' = <<>>
  /\ optimal' = 0 /\ UNCHANGED <<font, sizes, space, enabled, complete, cache, text>>
  /\ Elide(0)

\* rowsInserted, rowsRemoved, dataChanged with the title, modelReset.
DataModelChanged(ts) ==
  /\ hasModel /\ ts # titles /\ titles' = ts
  /\ UNCHANGED <<font, sizes, space, enabled, complete, hasModel>>
  /\ ScheduleCalculation(cache)

\* TextCalculatorAttached.setText
SetText(t) ==
  /\ t # text /\ text' = t
  /\ elided' = Fitting(t, optimal, font) /\ misfit' = FALSE
  /\ UNCHANGED <<font, sizes, space, enabled, complete, titles, hasModel, optimal, cache>>

-----------------------------------------------------------------------------

Init ==
  /\ font \in Fonts /\ sizes \in Sizes /\ space = 0 /\ enabled = FALSE /\ complete = FALSE
  /\ titles = <<>> /\ hasModel = FALSE /\ optimal = 0 /\ cache = <<>>
  /\ text = 0 /\ elided = 0 /\ misfit = FALSE

\* A row comes, goes or changes, or all do.
RowChanges(ts) ==
  \/ \E t \in Title, i \in 1..Len(titles) + 1 : ts = InsertAt(titles, i, t)
  \/ \E i \in DOMAIN titles : ts = RemoveAt(titles, i)
  \/ \E i \in DOMAIN titles, t \in Title : ts = ReplaceAt(titles, i, t)

Next ==
  \/ \E f \in Fonts : SetFont(f)
  \/ \E s \in Sizes : SetSize(s)
  \/ \E room \in Spaces : SetRemainingSpace(room)
  \/ SetEnabled \/ ComponentComplete \/ DataModelDestroyed
  \/ \E ts \in BoundedSeq(Title, MaxRows) :
       SetDataModel(ts) \/ (RowChanges(ts) /\ DataModelChanged(ts))
  \/ \E t \in Title : SetText(t)

Spec == Init /\ [][Next]_vars

-----------------------------------------------------------------------------
(* Properties.                                                               *)

TypeOK ==
  /\ font \in Fonts /\ sizes \in Sizes /\ {enabled, complete, hasModel, misfit} \subseteq BOOLEAN
  /\ titles \in Seq(Title) /\ text \in Title /\ optimal \in Nat
  /\ elided \in 0..text /\ DOMAIN cache \subseteq Counts

\* The width the items get is the one the font, the sizes, the space and the titles call
\* for, whatever was computed before: all fits, and would not with one character more.
WidthRight ==
  complete =>
    IF ~enabled \/ ~hasModel \/ titles = <<>> \/ space = 0 THEN optimal = 0
    ELSE \/ \E c \in Counts :
              /\ optimal = c * font.wide /\ Required(titles, optimal, font, sizes) <= space
              /\ \A d \in Counts : d > c => Required(titles, d * font.wide, font, sizes) > space
         \/ /\ optimal = 0
            /\ \A c \in Counts : Required(titles, c * font.wide, font, sizes) > space

\* An item's title has the length that goes into that width.
TitleFits == ~misfit => elided = Fitting(text, optimal, font)

\* The titles have the width they should.
TitlesSound == TypeOK /\ WidthRight /\ TitleFits
=============================================================================
