------------------------------ MODULE MCParts ------------------------------
(***************************************************************************)
(* The small components for TLC: BubblePanel, NotifyStaging, WindowPreview,    *)
(* TreelandWindows, X11Overlap.  They share no state: a behaviour is one of one  *)
(* of them, and the others keep their first values.                          *)
(***************************************************************************)
EXTENDS BubblePanel, TLC

CONSTANTS
  e1, e2,                                                  \* BubblePanel
  Notification, BubbleMaxCount, OverlayMaxCount, MaxNews,  \* NotifyStaging
  win1, win2, win3, win4, itemA, itemB, itemC, Window, Item, ItemOf, Docked, Nameless,
  None, MaxCount,                                          \* WindowPreview
  Top, Handle, NoHandle, NoWindow, MaxPointer,             \* TreelandWindows
  atBottom, atLeft, Area, Place, NoWhere, NoList, MaxEvents  \* X11Overlap

\* Each window is one of an item, what is none of something is not one, and cTimes are
\* numbers.
ASSUME PartsAssumption ==
  /\ ItemOf \in [Window -> Item] /\ {None, "preview", "away"} \cap Item = {}
  /\ MaxCount \in Nat
  /\ NoHandle \notin Handle /\ {NoWindow, "preview", "away"} \cap Top = {}
  /\ \A tops \in SUBSET Top : NoList # tops
  /\ Notification \subseteq Nat /\ BubbleMaxCount \in Nat /\ OverlayMaxCount \in Nat

TwoEntities == {e1, e2}
SomeTimes == 1..6

FourWindows == {win1, win2, win3, win4}
ThreeItems == {itemA, itemB, itemC}
OneDocked == {itemB}
OneNameless == {itemC}
TheirItems == (win1 :> itemA) @@ (win2 :> itemA) @@ (win3 :> itemB) @@ (win4 :> itemC)
TwoWindows == {win1, win2}

\* The dock is at the bottom or on the left; a window meets one, both or none.
TwoAreas == {atBottom, atLeft}
SomePlaces == {{}, {atBottom}, {atBottom, atLeft}}

VARIABLES
  part,
  born, live, news, shown, listed, overlap, strayed,
  open, pointer, previewWaiting, made, filter, count, entered, previewVisible, hideTimer,
  cache, check, later, leaked,
  active, unused, identifier, ready, states, handleOf, tracked, fullscreen, unheard,
  preview, mouseArea, onPreview, timer, timeouts, at, crossings, unreturned,
  clients, gone, place, minimized, selected, events, area, areaTimer, smart, desktop,
  windows, dockArea, list, adding, requests, heard

stagingVars == <<born, live, news, shown, listed, overlap, strayed>>
previewVars == <<open, pointer, previewWaiting, made, filter, count, entered,
                 previewVisible, hideTimer, cache, check, later, leaked>>
treelandVars == <<active, unused, identifier, ready, states, handleOf, tracked, fullscreen,
                  unheard, preview, mouseArea, onPreview, timer, timeouts, at, crossings,
                  unreturned>>
overlapVars == <<clients, gone, place, minimized, selected, events, area, areaTimer, smart,
                 desktop, windows, dockArea, list, adding, requests, heard>>

Staging == INSTANCE NotifyStaging WITH rows <- listed
Preview == INSTANCE WindowPreview WITH
             waiting <- previewWaiting, visible <- previewVisible, hiding <- hideTimer
Treeland == INSTANCE TreelandWindows WITH
              Window <- Top, MaxEvents <- MaxPointer, windows <- handleOf,
              entered <- onPreview, hideTimer <- timer, pointer <- at,
              events <- crossings, left <- unreturned
Overlap == INSTANCE X11Overlap WITH
             Window <- Top, hidden <- minimized

PartsInit ==
  /\ part \in {"panel", "staging", "preview", "treeland", "overlap"}
  /\ Init /\ Staging!Init /\ Preview!Init /\ Treeland!Init /\ Overlap!Init
  /\ part # "panel" => maxKeep = 3
  /\ part # "preview" => open = {}
  /\ part # "overlap" => ~smart /\ ~desktop

PartsNext ==
  /\ UNCHANGED part
  /\ \/ part = "panel" /\ Next
        /\ UNCHANGED <<stagingVars, previewVars, treelandVars, overlapVars>>
     \/ part = "staging" /\ Staging!Next
        /\ UNCHANGED <<vars, previewVars, treelandVars, overlapVars>>
     \/ part = "preview" /\ Preview!Next
        /\ UNCHANGED <<vars, stagingVars, treelandVars, overlapVars>>
     \/ part = "treeland" /\ Treeland!Next
        /\ UNCHANGED <<vars, stagingVars, previewVars, overlapVars>>
     \/ part = "overlap" /\ Overlap!Next
        /\ UNCHANGED <<vars, stagingVars, previewVars, treelandVars>>

PartsSpec ==
  /\ PartsInit
  /\ [][PartsNext]_<<part, vars, stagingVars, previewVars, treelandVars, overlapVars>>
  /\ Fairness

-----------------------------------------------------------------------------
(* Their properties.                                                         *)

\* The staging list shows what is live and counts what it does not show.
StagingSound == Staging!StagingSound

\* A preview is there for windows and for the pointer, and leaves nothing behind.
PreviewSound == Preview!PreviewSound

\* What the dock knows of the compositor's windows, and what it left there.
TreelandSound == Treeland!TreelandSound

\* The dock knows whether windows lie over it.
OverlapFollows == Overlap!OverlapFollows
=============================================================================
