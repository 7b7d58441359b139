--------------------------- MODULE X11LayerShell ---------------------------
(***************************************************************************)
(* Where a window of the shell stands and what it reserves, on X11:            *)
(* frame/layershell/x11dlayershellemulation.cpp with the setters of              *)
(* dlayershellwindow.cpp.                                                     *)
(*                                                                           *)
(* Its place is computed at once when something it depends on changes, and the    *)
(* X server says later where the window is; what it reserves is computed by a     *)
(* timer.  The scale factor is 1.  The extent of the reserved strip along its      *)
(* edge, the scope, the layer and the input region are left out: each of the       *)
(* latter is sent when it changes.                                            *)
(***************************************************************************)
EXTENDS Integers, Sequences, FiniteSetsExt

CONSTANTS
  Layouts,    \* the arrangements of screens: screen -> [x, y, w, h]
  Anchorings, \* the sets of anchors that are tried
  Margins,    \* of the left and of the top edge
  Zones,      \* exclusion zones
  Lengths,    \* widths and heights that the window is given
  MaxAsked    \* bound: places asked for when something changes

VARIABLES
  layout, screen,  \* the screens, and the window's
  anchors, left, top, zone, preferred,
  asked,           \* places asked of the X server, the oldest first
  geometry,        \* QWindow::geometry()
  timer,           \* m_exclusionZoneChangedTimer runs
  strut            \* _NET_WM_STRUT_PARTIAL

world == <<layout, screen>>
hints == <<anchors, left, top, zone, preferred>>
vars  == <<world, hints, asked, geometry, timer, strut>>

Edge == {"left", "right", "top", "bottom"}
Horizontal == {"left", "right"}
Vertical   == {"top", "bottom"}
NoStrut == [e \in Edge |-> 0]

Right(r)  == r.x + r.w
Bottom(r) == r.y + r.h

-----------------------------------------------------------------------------
(* The place.                                                                *)

\* One direction: the window starts at start and is len long on a screen from lo, of
\* length all, when it is anchored at its near or far end, with a margin at the near one.
Span(lo, all, near, far, margin, len) ==
  [start |-> IF near THEN lo + margin
             ELSE IF far THEN lo + all - len ELSE lo + (all - len) \div 2,
   len   |-> IF near /\ far THEN all - margin ELSE len]

\* The place of a window whose size is that of the rectangle r.
PlaceOf(r) ==
  LET s == layout[screen]
      across == Span(s.x, s.w, "left" \in anchors, "right" \in anchors, left, r.w)
      down   == Span(s.y, s.h, "top" \in anchors, "bottom" \in anchors, top,
                     IF preferred > 0 THEN preferred ELSE r.h)
  IN  [x |-> across.start, y |-> down.start, w |-> across.len, h |-> down.len]

Ask == IF PlaceOf(geometry) = geometry THEN <<>> ELSE <<PlaceOf(geometry)>>

\* Defect: nothing is done while an answer is expected.
PositionChangedOnce == asked' = IF asked # <<>> THEN asked ELSE Ask'

\* onPositionChanged
PositionChanged == asked' = asked \o Ask'

-----------------------------------------------------------------------------
(* What is reserved.                                                         *)

\* The window is at one edge, or spans the screen along it.
AtEdge(e, across) == anchors = {e} \/ (e \in anchors /\ anchors \ {e} = across)

Screens == DOMAIN layout

\* Defect: the lower screens count also with one to the side of them.
BelowAll == {t \in Screens \ {screen} : layout[t].y >= Bottom(layout[screen])}

\* The screens that lie below the window's own.
Below ==
  LET s == layout[screen]
  IN  {t \in Screens \ {screen} :
         layout[t].y >= Bottom(s) /\ layout[t].x < Right(s) /\ Right(layout[t]) > s.x}

DesktopRight  == Max({Right(layout[t]) : t \in Screens})
DesktopBottom == Max({Bottom(layout[t]) : t \in Screens})

BelowHeight ==
  LET heights == MapThenSumSet(LAMBDA t : layout[t].h, Below)
  IN  IF heights = 0 THEN DesktopBottom - Bottom(layout[screen]) ELSE heights

\* onExclusionZoneChanged: a negative zone leaves what was reserved.
Strut ==
  LET s == layout[screen]
      At(e, n) == [NoStrut EXCEPT ![e] = n + zone]
  IN  IF zone < 0 THEN strut
      ELSE IF AtEdge("left", Vertical) THEN At("left", s.x)
      ELSE IF AtEdge("right", Vertical) THEN At("right", DesktopRight - Right(s))
      ELSE IF AtEdge("top", Horizontal) THEN At("top", s.y)
      ELSE IF AtEdge("bottom", Horizontal) THEN At("bottom", BelowHeight)
      ELSE NoStrut

-----------------------------------------------------------------------------
(* What changes.                                                             *)

Free == Len(asked) < MaxAsked

SetAnchors(s) ==
  /\ Free /\ s # anchors /\ anchors' = s /\ timer' = TRUE
  /\ UNCHANGED <<world, left, top, zone, preferred, geometry, strut>>
  /\ PositionChanged

\* setLeftMargin, setTopMargin and the setters of the preferred size.
SetMargins(l, t) ==
  /\ Free /\ <<l, t>> # <<left, top>> /\ left' = l /\ top' = t
  /\ UNCHANGED <<world, anchors, zone, preferred, geometry, timer, strut>>
  /\ PositionChanged

SetPreferredHeight(n) ==
  /\ Free /\ n # preferred /\ preferred' = n
  /\ UNCHANGED <<world, anchors, left, top, zone, geometry, timer, strut>>
  /\ PositionChanged

SetExclusiveZone(z) ==
  /\ z # zone /\ zone' = z /\ timer' = TRUE
  /\ UNCHANGED <<world, anchors, left, top, preferred, asked, geometry, strut>>

\* The window, or the item it shows, is given a size.
Resized(n) ==
  /\ Free /\ asked' = Append(asked, [geometry EXCEPT !.w = n, !.h = n])
  /\ UNCHANGED <<world, hints, geometry, timer, strut>>

\* The window manager puts it elsewhere.
Moved ==
  /\ Free /\ asked' = Append(asked, [PlaceOf(geometry) EXCEPT !.x = @ + 1])
  /\ UNCHANGED <<world, hints, geometry, timer, strut>>

\* The X server says where the window is now: xChanged, yChanged, widthChanged and
\* heightChanged for what differs.
Configured ==
  LET r == Head(asked)
  IN  /\ asked # <<>> /\ geometry' = r
      /\ timer' = (timer \/ r.w # geometry.w \/ r.h # geometry.h)
      /\ UNCHANGED <<world, hints, strut>>
      /\ IF r = geometry THEN asked' = Tail(asked)
         ELSE asked' = Tail(asked) \o Ask'

\* The screens are rearranged, or one comes or goes: geometryChanged, screenAdded,
\* screenRemoved, and screenChanged when the window has to go elsewhere.
ScreensChanged(new) ==
  /\ Free /\ new # layout /\ layout' = new /\ timer' = TRUE
  /\ screen' = IF screen \in DOMAIN new THEN screen ELSE CHOOSE s \in DOMAIN new : TRUE
  /\ UNCHANGED <<hints, geometry, strut>>
  /\ IF screen' # screen \/ (\E s \in DOMAIN new \cap DOMAIN layout : new[s] # layout[s])
     THEN PositionChanged ELSE UNCHANGED asked

ScreenChanged(s) ==
  /\ Free /\ s # screen /\ screen' = s /\ timer' = TRUE
  /\ UNCHANGED <<layout, hints, geometry, strut>>
  /\ PositionChanged

ExclusionZoneChanged ==
  /\ timer /\ timer' = FALSE /\ strut' = Strut
  /\ UNCHANGED <<world, hints, asked, geometry>>

\* The window of an item of length n, as the constructor leaves it.
Init ==
  /\ layout \in Layouts /\ screen \in DOMAIN layout
  /\ anchors = {} /\ left = 0 /\ top = 0 /\ zone = 0 /\ preferred = -1
  /\ asked = <<>> /\ timer = FALSE /\ strut = NoStrut
  /\ \E n \in Lengths :
       LET s == layout[screen]
       IN  geometry = [x |-> s.x + (s.w - n) \div 2, y |-> s.y + (s.h - n) \div 2,
                       w |-> n, h |-> n]

Next ==
  \/ \E s \in Anchorings : SetAnchors(s)
  \/ \E l, t \in Margins : SetMargins(l, t)
  \/ \E n \in Lengths : SetPreferredHeight(n) \/ Resized(n)
  \/ \E z \in Zones : SetExclusiveZone(z)
  \/ \E new \in Layouts : ScreensChanged(new)
  \/ \E s \in Screens : ScreenChanged(s)
  \/ Moved \/ Configured \/ ExclusionZoneChanged

Spec == Init /\ [][Next]_vars

-----------------------------------------------------------------------------
(* Properties.                                                               *)

Rect == [x : Int, y : Int, w : Int, h : Int]

\* Every variable keeps its type.
TypeOK ==
  /\ layout \in Layouts /\ screen \in DOMAIN layout
  /\ anchors \subseteq Edge /\ preferred \in Lengths \cup {-1}
  /\ asked \in Seq(Rect) /\ geometry \in Rect /\ timer \in BOOLEAN
  /\ strut \in [Edge -> Int]

\* Once the X server has answered, the window is where it belongs on its screen,
\* whatever was asked for and taken back in between.
Placed == asked = <<>> => geometry = PlaceOf(geometry)

\* When the timer is idle, what is reserved is what the zone asks for.
Fresh == ~timer /\ zone >= 0 => strut = Strut

\* The reserved strip, counted from the edge of the desktop, ends where the zone does on
\* the window's screen.
Exact(e) ==
  LET s == layout[screen]
  IN  ~timer /\ zone > 0 /\ AtEdge(e, IF e \in Horizontal THEN Vertical ELSE Horizontal) =>
        CASE e = "left"   -> strut.left = s.x + zone
          [] e = "right"  -> DesktopRight - strut.right = Right(s) - zone
          [] e = "top"    -> strut.top = s.y + zone
          [] e = "bottom" -> DesktopBottom - strut.bottom = Bottom(s) - zone

\* Under the window's screen there is nothing but what stands on one screen, right below
\* it and at the bottom.
Stacked ==
  LET s == layout[screen]
      under == {t \in Screens : /\ layout[t].y >= Bottom(s)
                                /\ s.x < Right(layout[t]) /\ layout[t].x < Right(s)}
  IN  /\ Cardinality(under) <= 1
      /\ \A t \in under : layout[t].y = Bottom(s) /\ Bottom(layout[t]) = DesktopBottom

\* The window stands where it should, and keeps others off its zone and no more.
LayerSound ==
  /\ TypeOK /\ Placed /\ Fresh
  /\ Exact("left") /\ Exact("right") /\ Exact("top") /\ (Stacked => Exact("bottom"))
=============================================================================
