--------------------------- MODULE WindowPreview ---------------------------
(***************************************************************************)
(* The previews of an app's windows over the dock, on X11:                   *)
(* taskmanager/x11preview.cpp, hoverpreviewproxymodel.cpp, the request in      *)
(* taskmanager.cpp and the hovering in package/AppItem.qml.                   *)
(*                                                                           *)
(* One container and one filtered model serve all items.  Its rows change      *)
(* under it, by the filter and by windows that open and close, and the size     *)
(* (and with no row the hiding) follows in a posted call.  Posted calls of a    *)
(* kind do the same: one that is under way stands for all.  In split mode an    *)
(* item is one window.                                                       *)
(***************************************************************************)
EXTENDS Integers, FiniteSets

CONSTANTS
  Window,    \* windows
  Item,      \* items of the dock
  ItemOf,    \* the item of a window
  Docked,    \* items that stay without windows
  Nameless,  \* items whose windows have no desktop id: the filter is empty
  None,
  MaxCount   \* bound: requests not taken back

VARIABLES
  open,    \* windows in the model
  pointer, \* the item it is over, "preview" or "away"
  waiting, \* the hovered item's previewTimer runs
  made,    \* the container was made, and listens to the model
  filter,  \* m_filter of the model
  count,   \* m_isDockPreviewCount
  entered, \* m_isPreviewEntered
  visible, \* the container is
  hiding,  \* m_hideTimer runs
  cache,   \* s_windowPreviewCache: windows with a screenshot
  check,   \* a call posted by rowsRemoved or rowsInserted
  later,   \* the 100 ms shot of the close button
  leaked   \* history: an item was left and did not take its request back

view == <<made, filter, count, entered, visible, hiding, cache, check>>
vars == <<open, pointer, waiting, view, later, leaked>>

RowsOf(i) == {w \in open : ItemOf[w] = i}
Rows      == RowsOf(filter)
There(i)  == i \in Docked \/ RowsOf(i) # {}

\* The model's rows change from old to new.
RowsChange(old, new) ==
  /\ cache' = IF made /\ old \ new # {} THEN {} ELSE cache
  /\ check' = (check \/ (made /\ old # new))

\* hide() with shots in the cache and posted calls under way, and what hideEvent
\* does if it was visible: previewShouldClear, clearFilter.
Hide(shots, posted) ==
  /\ visible' = FALSE
  /\ filter' = IF visible THEN None ELSE filter
  /\ cache'  = IF visible /\ Rows # {} THEN {} ELSE shots
  /\ check'  = (posted \/ (visible /\ Rows # {}))

\* hidePreView
TakeBack ==
  IF made THEN count' = (IF count = 0 THEN 0 ELSE count - 1) /\ hiding' = TRUE
          ELSE UNCHANGED <<count, hiding>>

-----------------------------------------------------------------------------
(* The pointer.                                                              *)

\* onExited: an item without windows returns before it takes its request back.
LeaveItem(i) ==
  /\ waiting' = FALSE /\ UNCHANGED entered
  /\ IF RowsOf(i) = {} THEN UNCHANGED <<count, hiding>> ELSE TakeBack
  /\ leaked' = (count' > 0 /\ (leaked \/ RowsOf(i) = {}))

\* Defect: the pointer leaves the preview and starts no timer.
LeavePreviewUntimed ==
  /\ entered' = FALSE /\ UNCHANGED <<hiding, waiting, count, leaked>>

\* leaveEvent
LeavePreview ==
  /\ entered' = FALSE /\ hiding' = TRUE
  /\ UNCHANGED <<waiting, count, leaked>>

\* onEntered, enterEvent
Enter(p) ==
  /\ waiting' = (p \in Item /\ RowsOf(p) # {})
  /\ entered' = (p = "preview")
  /\ UNCHANGED <<count, hiding, leaked>>

\* The pointer leaves where it is, and enters p.
LeaveTo(p) ==
  /\ pointer' = p
  /\ \/ pointer = "away" /\ Enter(p)
     \/ pointer = "preview" /\ p = "away" /\ LeavePreview
     \/ pointer \in Item /\ p = "away" /\ LeaveItem(pointer)
  /\ UNCHANGED <<open, made, filter, visible, cache, check, later>>

PointerTo(p) ==
  /\ pointer # p
  /\ p \in Item => There(p)
  /\ p = "preview" => visible
  /\ LeaveTo(p)

\* onPressed on the item: closeItemPreview.
Press ==
  /\ pointer \in Item
  /\ IF waiting THEN UNCHANGED <<count, hiding>> ELSE TakeBack
  /\ waiting' = FALSE
  /\ leaked' = (leaked /\ count' > 0)
  /\ UNCHANGED <<open, pointer, made, filter, entered, visible, cache, check, later>>

\* showPreviewWithModel of a model with the rows new.
Show(new) ==
  /\ made' = TRUE /\ count' = count + 1 /\ visible' = TRUE
  /\ cache' = new \cup (IF made /\ Rows \ new # {} THEN {} ELSE cache)
  /\ check' = (check \/ (made /\ Rows # new))
  /\ UNCHANGED hiding

\* requestPreview of the item.
Request(i) ==
  /\ filter' = IF i \in Nameless THEN None ELSE i
  /\ IF RowsOf(filter') = {}
       THEN TakeBack /\ RowsChange(Rows, {}) /\ UNCHANGED <<made, visible>>
       ELSE Show(RowsOf(filter'))

\* previewTimer fires.
PreviewTimeout ==
  /\ waiting /\ waiting' = FALSE
  /\ count < MaxCount
  /\ IF RowsOf(pointer) = {}
       THEN UNCHANGED <<made, filter, count, visible, hiding, cache, check>>
       ELSE Request(pointer)
  /\ UNCHANGED <<open, pointer, entered, later, leaked>>

-----------------------------------------------------------------------------
(* The container.                                                            *)

\* m_hideTimer fires: callHide.
CallHide ==
  /\ hiding /\ hiding' = FALSE
  /\ IF entered \/ count > 0 THEN UNCHANGED <<visible, filter, cache, check>>
                             ELSE Hide({}, check)
  /\ UNCHANGED <<open, pointer, waiting, made, count, entered, later, leaked>>

\* A posted call: the size, for which what has no screenshot is asked for one.
Check ==
  /\ check
  /\ IF Rows = {} THEN Hide(cache, FALSE)
                  ELSE /\ check' = FALSE /\ cache' = cache \cup Rows
                       /\ UNCHANGED <<visible, filter>>
  /\ UNCHANGED <<open, pointer, waiting, made, count, entered, hiding, later, leaked>>

\* A click on a row, or on the button that closes all: the container hides.
Click ==
  /\ pointer = "preview" /\ visible
  /\ Hide(cache, check)
  /\ UNCHANGED <<open, pointer, waiting, made, count, entered, hiding, later, leaked>>

\* The close button of row w: the window is asked to close.
CloseButton(w) ==
  /\ pointer = "preview" /\ visible /\ w \in Rows
  /\ cache' = cache \ {w} /\ later' = TRUE
  /\ UNCHANGED <<open, pointer, waiting, made, filter, count, entered, visible, hiding,
                 check, leaked>>

\* Its shot: hide() if the model is empty by then.
CloseShot ==
  /\ later /\ later' = FALSE
  /\ IF Rows = {} THEN Hide(cache, check) ELSE UNCHANGED <<visible, filter, cache, check>>
  /\ UNCHANGED <<open, pointer, waiting, made, count, entered, hiding, leaked>>

-----------------------------------------------------------------------------
(* Windows.                                                                  *)

WindowOpens(w) ==
  /\ w \notin open /\ open' = open \cup {w}
  /\ IF ItemOf[w] = filter THEN RowsChange(Rows, Rows \cup {w})
                           ELSE UNCHANGED <<cache, check>>
  /\ UNCHANGED <<pointer, waiting, made, filter, count, entered, visible, hiding, later,
                 leaked>>

\* An item that does not stay goes, with its timer, and is not left.
WindowCloses(w) ==
  LET gone == RowsOf(ItemOf[w]) = {w} /\ ItemOf[w] \notin Docked /\ pointer = ItemOf[w]
  IN  /\ w \in open /\ open' = open \ {w}
      /\ IF ItemOf[w] = filter THEN RowsChange(Rows, Rows \ {w})
                               ELSE UNCHANGED <<cache, check>>
      /\ pointer' = IF gone THEN "away" ELSE pointer
      /\ waiting' = (waiting /\ ~gone)
      /\ leaked' = (leaked \/ (gone /\ count > 0))
      /\ UNCHANGED <<made, filter, count, entered, visible, hiding, later>>

Init ==
  /\ open \in SUBSET Window /\ pointer = "away" /\ waiting = FALSE
  /\ made = FALSE /\ filter = None /\ count = 0 /\ entered = FALSE /\ visible = FALSE
  /\ hiding = FALSE /\ cache = {} /\ check = FALSE /\ later = FALSE /\ leaked = FALSE

Next ==
  \/ \E p \in Item \cup {"preview", "away"} : PointerTo(p)
  \/ Press \/ PreviewTimeout \/ CallHide \/ Check \/ Click \/ CloseShot
  \/ \E w \in Window : CloseButton(w) \/ WindowOpens(w) \/ WindowCloses(w)

Spec == Init /\ [][Next]_vars

-----------------------------------------------------------------------------
(* Properties.                                                               *)

\* Every variable keeps its type.
TypeOK ==
  /\ open \subseteq Window /\ pointer \in Item \cup {"preview", "away"}
  /\ (waiting => pointer \in Item) /\ filter \in Item \cup {None} /\ count \in 0..MaxCount
  /\ {made, entered, visible, hiding, check, later, leaked} \subseteq BOOLEAN

\* What shows has windows to show, or is about to look: the rows go by the filter, by
\* windows that close, and by the hiding itself.
ShownHasRows == visible => Rows # {} \/ check

\* What does not show keeps no filter and no screenshot: the next preview, maybe of
\* the same window much later, starts afresh, whichever way the last one went.
HiddenForgets == ~visible => filter = None /\ cache = {}

\* When the pointer is away from the dock and from the preview, the preview is about
\* to hide, unless an item without windows, or one that went, was left.
LeftHides == pointer = "away" /\ visible => hiding \/ leaked

\* A preview is there for windows and for the pointer, and leaves nothing behind.
PreviewSound == TypeOK /\ ShownHasRows /\ HiddenForgets /\ LeftHides
=============================================================================
