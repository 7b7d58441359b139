-------------------------- MODULE MCTaskbarModels --------------------------
(***************************************************************************)
(* The taskbar and the window it is in, for TLC: TaskbarModels, TaskWindows,     *)
(* WindowGroups, TextCalculator, DockWindow, X11LayerShell, WaylandLayerShell.  They *)
(* share no state: a behaviour is one of one of them, and what is not its part keeps its     *)
(* first value.  In the models there are two windows of one app, which are windows     *)
(* without an app while that is not installed, and a behaviour ends when a row is read *)
(* behind a removal.                                                          *)
(***************************************************************************)
EXTENDS TaskbarModels, TLC

CONSTANTS a, b, w1, w2, u, Own, MaxItems, MaxEvents, NoWindow,  \* the models, TaskWindows
          MaxSignals,                                        \* WindowGroups
          Fonts, ItemSizes, Spaces, Title, MaxRows,          \* TextCalculator
          Position, Sizes, OtherMenu,                        \* DockWindow
          Margins, Lengths, MaxAsked,                        \* X11LayerShell
          Output, NoOutput, WaylandZones, WaylandLengths     \* WaylandLayerShell

TwoApps == {a, b}
\* Two windows of one app, and one that belongs to no app: in TaskWindows it is
\* dde-shell's own.
SomeWindows == {w1, w2, u}
SomeOwner == (w1 :> a) @@ (w2 :> a) @@ (u :> u)
SomeElements == {<<a, b>>, <<b>>}
None == {}

\* Two fonts with other wide characters; icons of two sizes.
SomeFonts == {[wide |-> n, narrow |-> 1] : n \in {2, 3}}
SomeSizes == {[icon |-> n, cell |-> 2, spacing |-> 1, padding |-> 1] : n \in {2, 4}}

\* One screen, a second one to the side of it and lower, or below it.
Rect(x, y, w, h) == [x |-> x, y |-> y, w |-> w, h |-> h]
OneScreen == [s \in {"s1"} |-> Rect(0, 0, 8, 8)]
Aside == [s \in {"s1", "s2"} |-> IF s = "s1" THEN Rect(0, 0, 8, 8) ELSE Rect(8, 10, 6, 6)]
Stack == [s \in {"s1", "s2"} |-> IF s = "s1" THEN Rect(0, 0, 8, 8) ELSE Rect(2, 8, 6, 4)]
SomeAnchors == {{}, {"left", "right", "bottom"}, {"left", "top", "bottom"}}
BottomOrNone == {{}, {"left", "right", "bottom"}}
SomeZones == {-1, 0, 2}

\* Widths and lengths count pixels and characters; a character that is not the wide one has
\* some width, and the empty title is one.
ASSUME TitlesAssumption ==
  /\ \A f \in Fonts : f.wide \in Nat /\ f.narrow \in Nat \ {0}
  /\ \A s \in ItemSizes : {s.icon, s.cell, s.spacing, s.padding} \subseteq Nat
  /\ Spaces \subseteq Nat /\ 0 \in Title /\ Title \subseteq Nat /\ MaxRows \in Nat

\* No window is none.
ASSUME GroupsAssumption == NoWindow \notin Window

\* Lengths are positive where the code takes 0 for a length left open, places are whole
\* numbers, and no screen is none.
ASSUME LayersAssumption ==
  /\ WaylandLengths \subseteq Nat \ {0} /\ NoOutput \notin Output
  /\ Lengths \subseteq Nat \ {0} /\ Margins \subseteq Nat

VARIABLES
  part,
  open, state, selected, events, todo, listed, known, tracked, cache, items, docked,
  windowSplit,
  groups, active, current, signals, astray,
  font, sizes, space, fits, complete, titles, hasModel, optimal, widths, text, elided,
  misfit,
  position, hideMode, hideState, locked, contextMenuEnabled, panelSize, window, menu,
  pressed, isDragging, dockSize, ignored,
  layout, screen, anchors, left, top, zone, preferred, asked, geometry, timer, strut,
  outputs, onOutput, hints, exclusive, size, alive, request, sent, committed,
  commitScheduled, output, bound, recreate, configured, closed, closeOnDismissed, shown

windowVars == <<open, state, selected, events, todo, listed, known, tracked, cache,
                items, docked, windowSplit>>
groupVars == <<groups, active, current, signals, astray>>
textVars == <<font, sizes, space, fits, complete, titles, hasModel, optimal, widths,
              text, elided, misfit>>
dockVars == <<position, hideMode, hideState, locked, contextMenuEnabled, panelSize,
              window, menu, pressed, isDragging, dockSize, ignored>>
x11Vars == <<layout, screen, anchors, left, top, zone, preferred, asked, geometry, timer,
             strut>>
waylandVars == <<outputs, onOutput, hints, exclusive, size, alive, request, sent,
                 committed, commitScheduled, output, bound, recreate, configured, closed,
                 closeOnDismissed, shown>>

Windows == INSTANCE TaskWindows WITH split <- windowSplit
\* Two windows of one app and one of another.
Groups == INSTANCE WindowGroups
Titles == INSTANCE TextCalculator WITH
            Sizes <- ItemSizes, cache <- widths, enabled <- fits
Dock == INSTANCE DockWindow WITH w <- window
X11 == INSTANCE X11LayerShell WITH
         Layouts <- {OneScreen, Aside, Stack}, Anchorings <- SomeAnchors,
         Zones <- SomeZones
Wayland == INSTANCE WaylandLayerShell WITH
             Anchorings <- BottomOrNone, Zones <- WaylandZones, Lengths <- WaylandLengths,
             screen <- onOutput, anchors <- hints, zone <- exclusive, open <- shown

ModelsIdle == ~split /\ elements = <<b>> /\ ~src.ready

PartsInit ==
  /\ part \in {"models", "windows", "groups", "text", "dock", "place", "strut", "wayland"}
  /\ Init /\ (part # "models" => ModelsIdle)
  /\ Windows!Init /\ (part # "windows" => ~windowSplit)
  /\ Groups!Init
  /\ Titles!Init /\ (part # "text" => font.wide = 2 /\ sizes.icon = 2)
  /\ Dock!Init
  /\ part # "dock" =>
       /\ position = "left" /\ hideMode = "Hides" /\ hideState = "Show" /\ panelSize = 1
  /\ X11!Init /\ (part \notin {"place", "strut"} => layout = OneScreen)
  /\ hints = {} /\ exclusive = 0 /\ outputs = Output /\ onOutput = "o1"
  /\ size = [w |-> 1, h |-> 1]
  /\ Wayland!Init /\ (part # "wayland" => closeOnDismissed)

\* On X11 the place and the reserved strip are looked at one at a time, the place with one
\* margin, a length or a second screen; under Wayland the window is square.
PartsNext ==
  /\ UNCHANGED part
  /\ \/ part = "models" /\ ~behind /\ Next /\ u \notin ToSet(src'.wins)
        /\ UNCHANGED <<windowVars, groupVars, textVars, dockVars, x11Vars, waylandVars>>
     \/ part = "windows" /\ Windows!Next
        /\ UNCHANGED <<vars, groupVars, textVars, dockVars, x11Vars, waylandVars>>
     \/ part = "groups" /\ Groups!Next
        /\ UNCHANGED <<vars, windowVars, textVars, dockVars, x11Vars, waylandVars>>
     \/ part = "text" /\ Titles!Next
        /\ UNCHANGED <<vars, windowVars, groupVars, dockVars, x11Vars, waylandVars>>
     \/ part = "dock" /\ Dock!Next /\ UNCHANGED <<vars, windowVars, groupVars, textVars, x11Vars, waylandVars>>
     \/ part = "place" /\ X11!Next /\ UNCHANGED <<zone, strut>>
        /\ layout' # Stack /\ anchors' \in BottomOrNone
        /\ Cardinality({h \in {left', top', preferred', Cardinality(DOMAIN layout') - 1} :
                          h > 0}) <= 1
        /\ UNCHANGED <<vars, windowVars, groupVars, textVars, dockVars, waylandVars>>
     \/ part = "strut" /\ X11!Next /\ UNCHANGED <<left, top, preferred, geometry>>
        /\ Len(asked') <= 1
        /\ UNCHANGED <<vars, windowVars, groupVars, textVars, dockVars, waylandVars>>
     \/ part = "wayland" /\ Wayland!Next /\ size'.w = size'.h
        /\ UNCHANGED <<vars, windowVars, groupVars, textVars, dockVars, x11Vars>>

PartsSpec == PartsInit /\ [][PartsNext]_<<part, vars, windowVars, groupVars, textVars, dockVars, x11Vars, waylandVars>>

-----------------------------------------------------------------------------
(* The properties of the parts.                                              *)

\* The rows are one order and hold what they should, with two signals and more under
\* way, unless a row was read behind a removal.
ModelsSound == RowsSound /\ EntriesRight

\* The monitor and the AppItems know what the server has, and a click on a group goes to
\* the window it should, and the titles have the width there is for them.
WindowsSound == Windows!WindowsSound /\ Groups!GroupsSound /\ Titles!TitlesSound

\* The dock's window follows the panel.
WindowFollows == Dock!WindowFollows

\* A window of the shell stands where it should and reserves what it should, on X11 and
\* under Wayland, whatever becomes of the screens.
LayersSound == X11!LayerSound /\ Wayland!SurfaceSound
=============================================================================
