---------------------------- MODULE Taskbar_proofs ----------------------------
(* The dock's window: whatever its timer, its two animations, the menus and the  *)
(* edge do to one another, in the end it is where the panel says and shown when   *)
(* the panel says.                                                              *)
EXTENDS MCTaskbarModels, TLAPS

HideStates == {"Show", "Hide"}

\* The direction in which the window v moves where it is.
OwnAxis(v) == Dock!AxisOf(v.at)

\* The content of a window that stays at its position: in, on its way in, or hidden.
PlaceInv(v) ==
  /\ \A x \in {"x", "y"} : x # OwnAxis(v) => v.place[x] = "in"
  /\ v.place[OwnAxis(v)] \in {"in", "between", Dock!Hidden(v.at)}
  /\ v.place[OwnAxis(v)] = "between" =>
       v.hideShow.running /\ v.hideShow.showing /\ v.hideShow.axis = OwnAxis(v)

\* The animation of the hide state.  One in the other direction was left over by a
\* change of the position: it shows what is in already or is being moved in.
ShowInv(v) ==
  v.hideShow.running =>
    /\ v.hideShow.showing => v.hideShow.to = "in"
    /\ ~v.hideShow.showing => v.hideShow.to = Dock!Hidden(v.at)
    /\ v.hideShow.axis # OwnAxis(v) =>
         /\ v.hideShow.showing
         /\ \/ v.place[OwnAxis(v)] = "in" /\ ~v.moving.running
            \/ v.moving.running /\ v.moving.axis = OwnAxis(v)

\* Without one: a dock to be shown is in or on its way, and one to be hidden has
\* someone who will see to it.
RestInv(v, h, kept) ==
  ~v.hideShow.running =>
    /\ h = "Show" => \/ v.place[OwnAxis(v)] = "in" /\ v.visible
                     \/ v.moving.running /\ v.moving.axis = OwnAxis(v)
    /\ h = "Hide" /\ v.visible /\ ~v.moving.running => v.hideTimer \/ kept

\* A window that does not change its position.
StayInv(v, p, h, kept) ==
  /\ v.at = p
  /\ v.moving.running => v.moving.showing /\ v.moving.to = "in"
  /\ PlaceInv(v) /\ ShowInv(v) /\ RestInv(v, h, kept)

\* The window v of a panel at p with the hide state h; kept: a menu is open, or the
\* timer fired during a drag.
WindowInv(v, p, h, kept) ==
  /\ v.hideShow.running => v.visible
  /\ v.hideShow.running /\ ~v.hideShow.showing => h = "Hide"
  /\ v.hideShow.running /\ v.hideShow.showing /\ h = "Hide" => v.hideTimer \/ kept
  /\ v.changing =>
       /\ v.moving.running /\ ~v.moving.showing
       /\ v.hideShow.running => v.hideShow.showing /\ v.hideShow.to = "in"
  /\ ~v.changing => StayInv(v, p, h, kept)

\* The inductive invariant of the dock's window.
FollowInv ==
  /\ Dock!TypeOK /\ Dock!SizeKept
  /\ WindowInv(window, position, hideState, menu # "none" \/ ignored)

-----------------------------------------------------------------------------
(* The places, the axes and the parts of the window.                         *)

LEMMA AxisFacts ==
  ASSUME NEW p
  PROVE  /\ Dock!AxisOf(p) \in {"x", "y"}
         /\ Dock!Hidden(p) \in {"before", "after"}
         /\ Dock!Hidden(p) \in Dock!Places /\ "in" \in Dock!Places /\ "between" \in Dock!Places
BY DEF Dock!AxisOf, Dock!Hidden, Dock!Places

\* The switches of a window are Boolean.
LEMMA Switches ==
  ASSUME NEW v \in Dock!WindowState
  PROVE  /\ v.visible \in BOOLEAN /\ v.hideTimer \in BOOLEAN /\ v.changing \in BOOLEAN
         /\ v.hideShow.running \in BOOLEAN /\ v.hideShow.showing \in BOOLEAN
         /\ v.moving.running \in BOOLEAN /\ v.moving.showing \in BOOLEAN
         /\ v.hideShow.axis \in {"x", "y"} /\ v.moving.axis \in {"x", "y"}
         /\ v.at \in Position /\ v.place \in [{"x", "y"} -> Dock!Places]
BY DEF Dock!WindowState, Dock!Run

LEMMA StartType ==
  ASSUME NEW v \in Dock!WindowState, NEW h, NEW showing \in BOOLEAN
  PROVE  /\ Dock!StartHideShow(v, h) \in Dock!WindowState
         /\ Dock!StartAnimation(v, showing) \in Dock!WindowState
         /\ Dock!SetTransformToHiddenPosition(v) \in Dock!WindowState
<1>1. /\ Dock!AxisOf(v.at) \in {"x", "y"} /\ Dock!Hidden(v.at) \in Dock!Places
      /\ "in" \in Dock!Places
  BY AxisFacts
<1>2. Dock!StartHideShow(v, h) \in Dock!WindowState
  <2>1. Dock!Started(v, h = "Show", IF h = "Show" THEN "in" ELSE Dock!Hidden(v.at)) \in Dock!Run
    BY <1>1 DEF Dock!Started, Dock!Run
  <2> QED
    BY <2>1 DEF Dock!StartHideShow, Dock!WindowState
<1>3. Dock!StartAnimation(v, showing) \in Dock!WindowState
  <2>1. Dock!Started(v, showing, IF showing THEN "in" ELSE Dock!Hidden(v.at)) \in Dock!Run
    BY <1>1 DEF Dock!Started, Dock!Run
  <2>2. v.moving \in Dock!Run => [v.moving EXCEPT !.showing = showing] \in Dock!Run
    BY DEF Dock!Run
  <2> QED
    BY <2>1, <2>2 DEF Dock!StartAnimation, Dock!WindowState
<1>4. Dock!SetTransformToHiddenPosition(v) \in Dock!WindowState
  BY <1>1 DEF Dock!SetTransformToHiddenPosition, Dock!WindowState
<1> QED
  BY <1>2, <1>3, <1>4

LEMMA StopType ==
  ASSUME NEW v \in Dock!WindowState, NEW p \in Position, NEW h, NEW place \in Dock!Places
  PROVE  /\ Dock!HideShowStopped(v, place) \in Dock!WindowState
         /\ Dock!MovingStopped(v, place, p, h) \in Dock!WindowState
<1>1. Dock!HideShowStopped(v, place) \in Dock!WindowState
  BY DEF Dock!HideShowStopped, Dock!WindowState, Dock!Run
<1> DEFINE moved == [v EXCEPT !.place[v.moving.axis] = place, !.moving.running = FALSE,
                              !.visible = TRUE, !.at = p]
<1>2. moved \in Dock!WindowState
  BY DEF Dock!WindowState, Dock!Run
<1>3. [moved EXCEPT !.changing = FALSE] \in Dock!WindowState
  BY <1>2 DEF Dock!WindowState
<1>4. [moved EXCEPT !.hideTimer = @ \/ (v.moving.showing /\ h = "Hide")] \in Dock!WindowState
  BY <1>2 DEF Dock!WindowState
<1> HIDE DEF moved
<1>5. Dock!SetTransformToHiddenPosition([moved EXCEPT !.changing = FALSE]) \in Dock!WindowState
  BY <1>3, StartType
<1>6. Dock!StartAnimation(Dock!SetTransformToHiddenPosition([moved EXCEPT !.changing = FALSE]), TRUE)
        \in Dock!WindowState
  BY <1>5, StartType
<1>7. Dock!MovingStopped(v, place, p, h) \in Dock!WindowState
  BY <1>4, <1>6 DEF Dock!MovingStopped, moved
<1> QED
  BY <1>1, <1>7

-----------------------------------------------------------------------------
(* What the handlers of the animations keep.                                 *)

\* The timer alone.
LEMMA TimerKeeps ==
  ASSUME NEW v \in Dock!WindowState, NEW p, NEW h, NEW k1 \in BOOLEAN, NEW k2 \in BOOLEAN,
         NEW t \in BOOLEAN,
         WindowInv(v, p, h, k1), h = "Hide" /\ (k1 \/ v.hideTimer) => t \/ k2
  PROVE  WindowInv([v EXCEPT !.hideTimer = t], p, h, k2)
<1> DEFINE r == [v EXCEPT !.hideTimer = t]
<1>1. /\ r.at = v.at /\ r.moving = v.moving /\ r.changing = v.changing /\ r.hideTimer = t
      /\ r.hideShow = v.hideShow /\ r.place = v.place /\ r.visible = v.visible
  BY DEF Dock!WindowState
<1> HIDE DEF r
<1>2. OwnAxis(r) = OwnAxis(v)
  BY <1>1 DEF OwnAxis
<1>3. ASSUME StayInv(v, p, h, k1) PROVE StayInv(r, p, h, k2)
  <2>1. PlaceInv(r)
    BY <1>1, <1>2, <1>3 DEF StayInv, PlaceInv
  <2>2. ShowInv(r)
    BY <1>1, <1>2, <1>3 DEF StayInv, ShowInv
  <2>3. RestInv(r, h, k2)
    BY <1>1, <1>2, <1>3, Switches DEF StayInv, RestInv
  <2> QED
    BY <1>1, <1>3, <2>1, <2>2, <2>3 DEF StayInv
<1>4. WindowInv(r, p, h, k2)
  <2>1. v.hideShow.running /\ v.hideShow.showing /\ h = "Hide" => t \/ k2
    BY DEF WindowInv
  <2>2. ~v.changing => StayInv(r, p, h, k2)
    BY <1>3 DEF WindowInv
  <2> QED
    BY <1>1, <2>1, <2>2 DEF WindowInv
<1> QED
  BY <1>4 DEF r

\* The end of the animation of the hide state.
LEMMA HideShowEndKeeps ==
  ASSUME NEW v \in Dock!WindowState, NEW p, NEW h, NEW kept \in BOOLEAN,
         WindowInv(v, p, h, kept), v.hideShow.running
  PROVE  WindowInv(Dock!HideShowStopped(v, v.hideShow.to), p, h, kept)
<1> DEFINE r == Dock!HideShowStopped(v, v.hideShow.to)
           own == OwnAxis(v)
           ax == v.hideShow.axis
<1>0. own \in {"x", "y"} /\ ax \in {"x", "y"} /\ v.hideShow.showing \in BOOLEAN
      /\ Dock!Hidden(v.at) \in {"before", "after"}
  BY AxisFacts DEF OwnAxis, Dock!WindowState, Dock!Run
<1>1. /\ r.at = v.at /\ r.moving = v.moving /\ r.changing = v.changing
      /\ r.hideTimer = v.hideTimer /\ ~r.hideShow.running
      /\ r.place[ax] = v.hideShow.to
      /\ \A x \in {"x", "y"} : x # ax => r.place[x] = v.place[x]
      /\ r.visible <=> r.place[own] = "in"
  BY <1>0 DEF Dock!HideShowStopped, Dock!WindowState, Dock!Run, OwnAxis
<1>2. OwnAxis(r) = own
  BY <1>1 DEF OwnAxis
<1> HIDE DEF r, own, ax
<1>3. ASSUME v.changing PROVE WindowInv(r, p, h, kept)
  BY <1>1, <1>3 DEF WindowInv
<1>4. ASSUME ~v.changing PROVE WindowInv(r, p, h, kept)
  <2>1. StayInv(v, p, h, kept)
    BY <1>4 DEF WindowInv
  <2>2. /\ v.hideShow.showing => v.hideShow.to = "in"
        /\ ~v.hideShow.showing => v.hideShow.to = Dock!Hidden(v.at) /\ ax = own /\ h = "Hide"
        /\ ax # own => \/ v.place[own] = "in" /\ ~v.moving.running
                       \/ v.moving.running /\ v.moving.axis = own
    BY <2>1 DEF StayInv, ShowInv, WindowInv, own, ax
  <2>3. \A x \in {"x", "y"} : x # own => v.place[x] = "in"
    BY <2>1 DEF StayInv, PlaceInv, own
  <2>4. PlaceInv(r)
    <3>1. \A x \in {"x", "y"} : x # own => r.place[x] = "in"
      BY <1>0, <1>1, <2>2, <2>3
    <3>2. r.place[own] \in {"in", Dock!Hidden(v.at)}
      <4>1. CASE ax = own
        BY <4>1, <1>0, <1>1, <2>2
      <4>2. CASE ax # own
        <5>1. v.place[own] \in {"in", Dock!Hidden(v.at)}
          BY <2>1, <4>2 DEF StayInv, PlaceInv, own, ax
        <5> QED
          BY <5>1, <4>2, <1>0, <1>1
      <4> QED
        BY <4>1, <4>2
    <3> QED
      BY <3>1, <3>2, <1>0, <1>1, <1>2 DEF PlaceInv
  <2>5. ShowInv(r)
    BY <1>1 DEF ShowInv
  <2>6. RestInv(r, h, kept)
    <3>1. h = "Show" => \/ r.place[own] = "in" /\ r.visible
                        \/ r.moving.running /\ r.moving.axis = own
      BY <1>0, <1>1, <2>2
    <3>2. h = "Hide" /\ r.visible /\ ~r.moving.running => r.hideTimer \/ kept
      <4>1. CASE v.hideShow.showing
        BY <4>1, <1>1 DEF WindowInv
      <4>2. CASE ~v.hideShow.showing
        BY <4>2, <1>0, <1>1, <2>2
      <4> QED
        BY <4>1, <4>2, <1>0
    <3> QED
      BY <3>1, <3>2, <1>2 DEF RestInv
  <2>7. r.at = p /\ (r.moving.running => r.moving.showing /\ r.moving.to = "in")
    BY <1>1, <2>1 DEF StayInv
  <2>8. StayInv(r, p, h, kept)
    BY <2>4, <2>5, <2>6, <2>7 DEF StayInv
  <2> QED
    BY <1>1, <1>4, <2>8 DEF WindowInv
<1>5. WindowInv(r, p, h, kept)
  <2>1. v.changing \in BOOLEAN
    BY Switches
  <2> QED
    BY <2>1, <1>3, <1>4
<1> QED
  BY <1>5 DEF r

\* The end of a move.  One that hid the dock goes on to show it where it is to be.
LEMMA MovingEndKeeps ==
  ASSUME NEW v \in Dock!WindowState, NEW p \in Position, NEW h \in HideStates,
         NEW kept \in BOOLEAN,
         WindowInv(v, p, h, kept), v.moving.running
  PROVE  WindowInv(Dock!MovingStopped(v, v.moving.to, p, h), p, h, kept)
<1> DEFINE r == Dock!MovingStopped(v, v.moving.to, p, h)
           own == Dock!AxisOf(p)
           ax == v.moving.axis
<1>0. own \in {"x", "y"} /\ ax \in {"x", "y"} /\ Dock!Hidden(p) \in {"before", "after"}
  BY AxisFacts, Switches
<1>1. r.hideShow = v.hideShow /\ r.at = p /\ r.visible /\ ~r.changing
  <2>1. v.changing \in BOOLEAN /\ v.moving.showing \in BOOLEAN
    BY Switches
  <2>2. ASSUME v.changing /\ ~v.moving.showing
        PROVE  r.hideShow = v.hideShow /\ r.at = p /\ r.visible /\ ~r.changing
    BY <2>2 DEF Dock!MovingStopped, Dock!StartAnimation, Dock!SetTransformToHiddenPosition,
                Dock!Started, Dock!WindowState, Dock!Run
  <2>3. ASSUME ~v.changing
        PROVE  r.hideShow = v.hideShow /\ r.at = p /\ r.visible /\ ~r.changing
    BY <2>3 DEF Dock!MovingStopped, Dock!WindowState, Dock!Run
  <2>4. ~(v.changing /\ v.moving.showing)
    BY DEF WindowInv
  <2> HIDE DEF r
  <2> QED
    BY <2>1, <2>2, <2>3, <2>4
<1>2. OwnAxis(r) = own
  BY <1>1 DEF OwnAxis
<1>3. v.hideShow.running /\ v.hideShow.showing /\ h = "Hide" => v.hideTimer \/ kept
  BY DEF WindowInv
<1>4. v.hideShow.running /\ ~v.hideShow.showing => h = "Hide"
  BY DEF WindowInv
<1>5. ASSUME v.changing PROVE WindowInv(r, p, h, kept)
  <2>1. ~v.moving.showing /\ (v.hideShow.running => v.hideShow.showing /\ v.hideShow.to = "in")
    BY <1>5 DEF WindowInv
  <2>2. /\ r.hideTimer = v.hideTimer
        /\ r.moving = [running |-> TRUE, showing |-> TRUE, axis |-> own, to |-> "in"]
        /\ r.place = [x \in {"x", "y"} |-> IF x = own THEN Dock!Hidden(p) ELSE "in"]
    BY <1>5, <2>1 DEF Dock!MovingStopped, Dock!StartAnimation, Dock!SetTransformToHiddenPosition,
                      Dock!Started, Dock!WindowState, Dock!Run
  <2> HIDE DEF r, own, ax
  <2>3. PlaceInv(r)
    BY <1>0, <1>1, <1>2, <2>2 DEF PlaceInv
  <2>4. ShowInv(r)
    BY <1>1, <1>2, <2>1, <2>2 DEF ShowInv
  <2>5. RestInv(r, h, kept)
    BY <1>1, <1>2, <2>2 DEF RestInv
  <2>6. StayInv(r, p, h, kept)
    BY <1>1, <2>2, <2>3, <2>4, <2>5 DEF StayInv
  <2> QED
    BY <1>1, <1>3, <1>4, <2>2, <2>6 DEF WindowInv
<1>6. ASSUME ~v.changing PROVE WindowInv(r, p, h, kept)
  <2>1. StayInv(v, p, h, kept)
    BY <1>6 DEF WindowInv
  <2>2. v.moving.showing /\ v.moving.to = "in" /\ v.at = p
    BY <2>1 DEF StayInv
  <2>3. /\ r.hideTimer <=> v.hideTimer \/ h = "Hide"
        /\ ~r.moving.running /\ r.place = [v.place EXCEPT ![ax] = "in"]
    BY <1>6, <2>2 DEF Dock!MovingStopped, Dock!WindowState, Dock!Run
  <2>4. v.place \in [{"x", "y"} -> Dock!Places] /\ OwnAxis(v) = own
    BY <2>2, Switches DEF OwnAxis
  <2> HIDE DEF r, own, ax
  <2>5. \A x \in {"x", "y"} : r.place[x] = IF x = ax THEN "in" ELSE v.place[x]
    BY <2>3, <2>4
  <2>6. PlaceInv(v)
    BY <2>1 DEF StayInv
  <2>7. PlaceInv(r)
    <3>1. \A x \in {"x", "y"} : x # own => r.place[x] = "in"
      BY <2>4, <2>5, <2>6 DEF PlaceInv
    <3>2. r.place[own] \in {"in", "between", Dock!Hidden(p)}
      BY <1>0, <2>2, <2>4, <2>5, <2>6 DEF PlaceInv
    <3>3. r.place[own] = "between" => v.hideShow.running /\ v.hideShow.showing /\ v.hideShow.axis = own
      BY <1>0, <2>4, <2>5, <2>6 DEF PlaceInv
    <3> QED
      BY <1>1, <1>2, <3>1, <3>2, <3>3 DEF PlaceInv
  <2>8. ShowInv(r)
    <3>1. ShowInv(v)
      BY <2>1 DEF StayInv
    <3>2. v.hideShow.running /\ v.hideShow.axis # own => v.hideShow.showing /\ r.place[own] = "in"
      BY <1>0, <2>4, <2>5, <3>1 DEF ShowInv, ax
    <3> QED
      BY <1>1, <1>2, <2>2, <2>3, <3>1, <3>2 DEF ShowInv
  <2>9. RestInv(r, h, kept)
    <3>1. ~v.hideShow.running /\ h = "Show" => r.place[own] = "in"
      BY <1>0, <2>1, <2>4, <2>5 DEF StayInv, RestInv, ax
    <3> QED
      BY <1>1, <1>2, <2>3, <3>1 DEF RestInv
  <2>10. StayInv(r, p, h, kept)
    BY <1>1, <2>3, <2>7, <2>8, <2>9 DEF StayInv
  <2> QED
    BY <1>1, <1>3, <1>4, <2>3, <2>10 DEF WindowInv
<1> HIDE DEF r
<1>7. WindowInv(r, p, h, kept)
  <2>1. v.changing \in BOOLEAN
    BY Switches
  <2> QED
    BY <2>1, <1>5, <1>6
<1> QED
  BY <1>7 DEF r

\* The animation of the hide state starts, of a dock that stays.
LEMMA StartKeeps ==
  ASSUME NEW v \in Dock!WindowState, NEW p, NEW h \in HideStates,
         NEW k1 \in BOOLEAN, NEW k2 \in BOOLEAN,
         WindowInv(v, p, h, k1), ~v.hideShow.running, v.moving.running => v.moving.showing
  PROVE  WindowInv(Dock!StartHideShow(v, h), p, h, k2)
<1> DEFINE r == Dock!StartHideShow(v, h)
<1>0. Dock!Hidden(v.at) \in {"before", "after"} /\ v.moving.running \in BOOLEAN
      /\ v.moving.showing \in BOOLEAN /\ v.changing \in BOOLEAN
  BY AxisFacts, Switches
<1>1. ~v.changing
  BY <1>0 DEF WindowInv
<1>2. StayInv(v, p, h, k1)
  BY <1>1 DEF WindowInv
<1>3. /\ r.at = v.at /\ r.place = v.place /\ r.visible /\ r.moving = v.moving
      /\ r.changing = v.changing /\ r.hideTimer = v.hideTimer
      /\ r.hideShow.running /\ (r.hideShow.showing <=> h = "Show")
      /\ r.hideShow.axis = OwnAxis(v)
      /\ r.hideShow.to = IF h = "Show" THEN "in" ELSE Dock!Hidden(v.at)
  BY DEF Dock!StartHideShow, Dock!Started, Dock!WindowState, OwnAxis
<1>4. OwnAxis(r) = OwnAxis(v)
  BY <1>3 DEF OwnAxis
<1> HIDE DEF r
<1>5. PlaceInv(r)
  BY <1>2, <1>3, <1>4 DEF StayInv, PlaceInv
<1>6. ShowInv(r)
  BY <1>3, <1>4 DEF ShowInv
<1>7. StayInv(r, p, h, k2)
  BY <1>2, <1>3, <1>5, <1>6 DEF StayInv, RestInv
<1>8. WindowInv(r, p, h, k2)
  BY <1>1, <1>3, <1>7 DEF WindowInv, HideStates
<1> QED
  BY <1>8 DEF r

-----------------------------------------------------------------------------
(* The panel's signals.                                                      *)

\* A new hide state starts the timer, or turns the animation round to show the dock.
LEMMA HideStateKeeps ==
  ASSUME NEW v \in Dock!WindowState, NEW p, NEW h1 \in HideStates,
         NEW h2 \in HideStates, NEW k1 \in BOOLEAN, NEW k2 \in BOOLEAN,
         WindowInv(v, p, h1, k1)
  PROVE  WindowInv(Dock!HideStateChanged(v, h2), p, h2, k2)
<1> DEFINE r == Dock!HideStateChanged(v, h2)
           own == OwnAxis(v)
<1>0. /\ v.visible \in BOOLEAN /\ v.changing \in BOOLEAN
      /\ v.hideShow.running \in BOOLEAN /\ v.hideShow.showing \in BOOLEAN
      /\ own \in {"x", "y"} /\ Dock!Hidden(v.at) \in {"before", "after"}
      /\ v.place \in [{"x", "y"} -> Dock!Places]
  BY Switches, AxisFacts DEF OwnAxis
<1>1. ASSUME h2 = "Hide" PROVE WindowInv(r, p, h2, k2)
  <2>1. /\ r.at = v.at /\ r.moving = v.moving /\ r.changing = v.changing /\ r.hideTimer
        /\ r.hideShow = v.hideShow /\ r.place = v.place /\ r.visible = v.visible
    BY <1>1 DEF Dock!HideStateChanged, Dock!WindowState
  <2>2. OwnAxis(r) = own
    BY <2>1 DEF OwnAxis
  <2> HIDE DEF r, own
  <2>3. ASSUME StayInv(v, p, h1, k1) PROVE StayInv(r, p, h2, k2)
    <3>1. PlaceInv(r)
      BY <2>1, <2>2, <2>3 DEF StayInv, PlaceInv, own
    <3>2. ShowInv(r)
      BY <2>1, <2>2, <2>3 DEF StayInv, ShowInv, own
    <3>3. RestInv(r, h2, k2)
      BY <1>1, <2>1 DEF RestInv
    <3> QED
      BY <2>1, <2>3, <3>1, <3>2, <3>3 DEF StayInv
  <2> QED
    BY <1>1, <2>1, <2>3 DEF WindowInv
<1>2. ASSUME h2 = "Show", v.hideShow.running, v.hideShow.showing
      PROVE  WindowInv(r, p, h2, k2)
  <2>1. v.visible
    BY <1>2 DEF WindowInv
  <2>2. /\ r.at = v.at /\ r.moving = v.moving /\ r.changing = v.changing
        /\ r.hideShow = v.hideShow /\ r.place = v.place /\ r.visible
    BY <1>2, <2>1 DEF Dock!HideStateChanged, Dock!WindowState
  <2>3. OwnAxis(r) = own
    BY <2>2 DEF OwnAxis
  <2> HIDE DEF r, own
  <2>4. ASSUME StayInv(v, p, h1, k1) PROVE StayInv(r, p, h2, k2)
    <3>1. PlaceInv(r)
      BY <2>2, <2>3, <2>4 DEF StayInv, PlaceInv, own
    <3>2. ShowInv(r)
      BY <2>2, <2>3, <2>4 DEF StayInv, ShowInv, own
    <3>3. RestInv(r, h2, k2)
      BY <1>2, <2>2 DEF RestInv
    <3> QED
      BY <2>2, <2>4, <3>1, <3>2, <3>3 DEF StayInv
  <2> QED
    BY <1>2, <2>2, <2>4 DEF WindowInv
<1>3. ASSUME h2 = "Show", v.hideShow.running, ~v.hideShow.showing
      PROVE  WindowInv(r, p, h2, k2)
  <2>1. ~v.changing
    BY <1>3 DEF WindowInv
  <2>2. StayInv(v, p, h1, k1)
    BY <2>1 DEF WindowInv
  <2>3. v.hideShow.axis = own
    BY <1>3, <2>2 DEF StayInv, ShowInv
  <2>4. /\ r.at = v.at /\ r.moving = v.moving /\ r.changing = v.changing /\ r.visible
        /\ r.place = [v.place EXCEPT ![own] = "between"]
        /\ r.hideShow.running /\ r.hideShow.showing /\ r.hideShow.axis = own
        /\ r.hideShow.to = "in"
    BY <1>3, <2>3 DEF Dock!HideStateChanged, Dock!StopHideShow, Dock!HideShowStopped,
           Dock!StartHideShow, Dock!Started, Dock!WindowState, Dock!Run, OwnAxis
  <2>5. OwnAxis(r) = own
    BY <2>4 DEF OwnAxis
  <2> HIDE DEF r, own
  <2>6. r.place[own] = "between" /\ \A x \in {"x", "y"} : x # own => r.place[x] = v.place[x]
    BY <1>0, <2>4
  <2>7. PlaceInv(r)
    BY <1>0, <2>2, <2>4, <2>5, <2>6 DEF StayInv, PlaceInv, own
  <2>8. ShowInv(r)
    BY <2>4, <2>5 DEF ShowInv
  <2>9. StayInv(r, p, h2, k2)
    BY <2>2, <2>4, <2>7, <2>8 DEF StayInv, RestInv
  <2> QED
    BY <1>3, <2>1, <2>4, <2>9 DEF WindowInv
<1>4. ASSUME h2 = "Show", ~v.hideShow.running PROVE WindowInv(r, p, h2, k2)
  <2>1. /\ r.at = v.at /\ r.moving = v.moving /\ r.changing = v.changing /\ r.visible
        /\ r.place = v.place
        /\ r.hideShow.running /\ r.hideShow.showing /\ r.hideShow.axis = own
        /\ r.hideShow.to = "in"
    BY <1>4 DEF Dock!HideStateChanged, Dock!StopHideShow,
           Dock!StartHideShow, Dock!Started, Dock!WindowState, Dock!Run, OwnAxis
  <2>2. OwnAxis(r) = own
    BY <2>1 DEF OwnAxis
  <2> HIDE DEF r, own
  <2>3. ASSUME StayInv(v, p, h1, k1) PROVE StayInv(r, p, h2, k2)
    <3>1. PlaceInv(r)
      BY <1>0, <2>1, <2>2, <2>3 DEF StayInv, PlaceInv, own
    <3>2. ShowInv(r)
      BY <2>1, <2>2 DEF ShowInv
    <3> QED
      BY <2>1, <2>3, <3>1, <3>2 DEF StayInv, RestInv
  <2> QED
    BY <1>4, <2>1, <2>3 DEF WindowInv
<1> HIDE DEF r
<1>5. WindowInv(r, p, h2, k2)
  BY <1>0, <1>1, <1>2, <1>3, <1>4 DEF HideStates
<1> QED
  BY <1>5 DEF r

\* onBeforePositionChanged begins to hide the dock, or leaves one that is hidden.
LEMMA BeforePosition ==
  ASSUME NEW v \in Dock!WindowState, NEW p \in Position, NEW h \in HideStates,
         NEW kept \in BOOLEAN, WindowInv(v, p, h, kept)
  PROVE  LET r == Dock!BeforePositionChanged(v, p, h)
         IN  /\ r \in Dock!WindowState /\ r.at = p /\ ~r.hideShow.running
             /\ \/ r.changing /\ r.moving.running /\ ~r.moving.showing
                \/ /\ h = "Hide" /\ ~r.changing /\ ~r.visible
                   /\ r.moving.running => r.moving.showing /\ r.moving.to = "in"
<1> DEFINE v1 == [v EXCEPT !.hideTimer = FALSE]
           v2 == Dock!StopMoving(v1, p, h)
           q  == Dock!StopHideShow(v2)
           old == [q EXCEPT !.at = p]
           r  == Dock!BeforePositionChanged(v, p, h)
<1>1. /\ v1 \in Dock!WindowState /\ v1.at = v.at /\ v1.changing = v.changing
      /\ v1.moving = v.moving
  BY DEF Dock!WindowState
<1>2. /\ v.changing \in BOOLEAN /\ v.moving.running \in BOOLEAN /\ v.moving.showing \in BOOLEAN
      /\ "between" \in Dock!Places
  BY Switches, AxisFacts
<1>3. /\ v.changing => v.moving.running /\ ~v.moving.showing
      /\ ~v.changing => v.at = p /\ (v.moving.running => v.moving.showing /\ v.moving.to = "in")
  BY DEF WindowInv, StayInv
<1> HIDE DEF v1
<1>4. v2 \in Dock!WindowState
  BY <1>1, <1>2, StopType DEF Dock!StopMoving
<1>5. /\ v2.at = p /\ ~v2.changing
      /\ v2.moving.running => v2.moving.showing /\ v2.moving.to = "in"
  <2>1. ASSUME v.changing
        PROVE  /\ v2.at = p /\ ~v2.changing
               /\ v2.moving.running => v2.moving.showing /\ v2.moving.to = "in"
    BY <2>1, <1>1, <1>3 DEF Dock!StopMoving, Dock!MovingStopped, Dock!StartAnimation,
           Dock!SetTransformToHiddenPosition, Dock!Started, Dock!WindowState, Dock!Run
  <2>2. ASSUME ~v.changing, v.moving.running
        PROVE  /\ v2.at = p /\ ~v2.changing /\ ~v2.moving.running
    BY <2>2, <1>1, <1>3 DEF Dock!StopMoving, Dock!MovingStopped, Dock!WindowState, Dock!Run
  <2>3. ASSUME ~v.changing, ~v.moving.running
        PROVE  /\ v2.at = p /\ ~v2.changing /\ ~v2.moving.running
    BY <2>3, <1>1, <1>3 DEF Dock!StopMoving
  <2> HIDE DEF v2
  <2> QED
    BY <1>2, <2>1, <2>2, <2>3
<1> HIDE DEF v2
<1>6. /\ q \in Dock!WindowState /\ ~q.hideShow.running
      /\ q.at = p /\ ~q.changing /\ q.moving = v2.moving
  <2>1. q \in Dock!WindowState
    BY <1>2, <1>4, StopType DEF Dock!StopHideShow
  <2>2. ASSUME v2.hideShow.running
        PROVE  ~q.hideShow.running /\ q.at = p /\ ~q.changing /\ q.moving = v2.moving
    BY <2>2, <1>4, <1>5 DEF Dock!StopHideShow, Dock!HideShowStopped, Dock!WindowState, Dock!Run
  <2>3. ASSUME ~v2.hideShow.running
        PROVE  ~q.hideShow.running /\ q.at = p /\ ~q.changing /\ q.moving = v2.moving
    BY <2>3, <1>5 DEF Dock!StopHideShow
  <2>4. v2.hideShow.running \in BOOLEAN
    BY <1>4, Switches
  <2> HIDE DEF q
  <2> QED
    BY <2>1, <2>2, <2>3, <2>4
<1> HIDE DEF q
<1>7. /\ old \in Dock!WindowState /\ ~old.hideShow.running /\ old.at = p /\ ~old.changing
      /\ old.moving = v2.moving /\ old.visible = q.visible
  BY <1>6 DEF Dock!WindowState
<1>8. r = IF h = "Hide" /\ ~q.visible THEN [old EXCEPT !.changing = FALSE]
          ELSE Dock!StartAnimation([old EXCEPT !.changing = TRUE], FALSE)
  BY DEF Dock!BeforePositionChanged, q, v2, v1
<1> HIDE DEF old, r
<1>9. ASSUME h = "Hide" /\ ~q.visible
      PROVE  /\ r \in Dock!WindowState /\ r.at = p /\ ~r.hideShow.running
             /\ ~r.changing /\ ~r.visible
             /\ r.moving.running => r.moving.showing /\ r.moving.to = "in"
  BY <1>5, <1>7, <1>8, <1>9 DEF Dock!WindowState
<1>10. ASSUME ~(h = "Hide" /\ ~q.visible)
       PROVE  /\ r \in Dock!WindowState /\ r.at = p /\ ~r.hideShow.running
              /\ r.changing /\ r.moving.running /\ ~r.moving.showing
  <2> DEFINE begun == [old EXCEPT !.changing = TRUE]
  <2>1. /\ begun \in Dock!WindowState /\ begun.at = p /\ ~begun.hideShow.running
        /\ begun.changing /\ begun.moving = old.moving /\ begun.visible = old.visible
    BY <1>7 DEF Dock!WindowState
  <2>2. r = Dock!StartAnimation(begun, FALSE)
    BY <1>8, <1>10
  <2> HIDE DEF begun
  <2>3. r \in Dock!WindowState
    BY <2>1, <2>2, StartType
  <2>4. ASSUME old.moving.running
        PROVE  /\ r.at = p /\ ~r.hideShow.running
               /\ r.changing /\ r.moving.running /\ ~r.moving.showing
    BY <2>4, <2>1, <2>2 DEF Dock!StartAnimation, Dock!WindowState, Dock!Run
  <2>5. ASSUME ~old.moving.running
        PROVE  /\ r.at = p /\ ~r.hideShow.running
               /\ r.changing /\ r.moving.running /\ ~r.moving.showing
    BY <2>5, <2>1, <2>2 DEF Dock!StartAnimation, Dock!Started, Dock!WindowState, Dock!Run
  <2> QED
    BY <2>3, <2>4, <2>5
<1>11. /\ r \in Dock!WindowState /\ r.at = p /\ ~r.hideShow.running
       /\ \/ r.changing /\ r.moving.running /\ ~r.moving.showing
          \/ /\ h = "Hide" /\ ~r.changing /\ ~r.visible
             /\ r.moving.running => r.moving.showing /\ r.moving.to = "in"
  BY <1>9, <1>10
<1> QED
  BY <1>11 DEF r

\* A new position: the dock goes on as it began, or shows where it is to be.
LEMMA PositionKeeps ==
  ASSUME NEW v \in Dock!WindowState, NEW p \in Position, NEW q \in Position,
         NEW h \in HideStates, NEW kept \in BOOLEAN, WindowInv(v, p, h, kept)
  PROVE  LET r == Dock!PositionChanged(Dock!BeforePositionChanged(v, p, h), q)
         IN  r \in Dock!WindowState /\ WindowInv(r, q, h, kept)
<1> DEFINE begun == Dock!BeforePositionChanged(v, p, h)
           r == Dock!PositionChanged(begun, q)
           gone == Dock!SetTransformToHiddenPosition([begun EXCEPT !.at = q])
<1>1. /\ begun \in Dock!WindowState /\ begun.at = p /\ ~begun.hideShow.running
      /\ \/ begun.changing /\ begun.moving.running /\ ~begun.moving.showing
         \/ /\ h = "Hide" /\ ~begun.changing /\ ~begun.visible
            /\ begun.moving.running => begun.moving.showing /\ begun.moving.to = "in"
  BY BeforePosition
<1> HIDE DEF begun
<1>2. ASSUME begun.changing, begun.moving.running, ~begun.moving.showing
      PROVE  r \in Dock!WindowState /\ WindowInv(r, q, h, kept)
  <2>1. r = begun
    BY <1>2 DEF Dock!PositionChanged
  <2> QED
    BY <1>1, <1>2, <2>1 DEF WindowInv
<1>3. ASSUME h = "Hide", ~begun.changing, ~begun.visible,
             begun.moving.running => begun.moving.showing /\ begun.moving.to = "in"
      PROVE  r \in Dock!WindowState /\ WindowInv(r, q, h, kept)
  <2>1. r = Dock!StartAnimation(gone, TRUE)
    BY <1>3 DEF Dock!PositionChanged
  <2>2. [begun EXCEPT !.at = q] \in Dock!WindowState
    BY <1>1 DEF Dock!WindowState
  <2>3. gone \in Dock!WindowState
    BY <2>2, StartType
  <2>4. /\ gone.at = q /\ gone.moving = begun.moving /\ gone.hideShow = begun.hideShow
        /\ gone.changing = begun.changing /\ gone.hideTimer = begun.hideTimer
        /\ gone.place = [x \in {"x", "y"} |-> IF x = Dock!AxisOf(q) THEN Dock!Hidden(q) ELSE "in"]
    BY <1>1 DEF Dock!SetTransformToHiddenPosition, Dock!WindowState
  <2> HIDE DEF gone, r
  <2>5. r \in Dock!WindowState
    BY <2>1, <2>3, StartType
  <2>6. /\ r.at = q /\ r.place = gone.place /\ ~r.changing /\ ~r.hideShow.running
        /\ r.moving.running /\ r.moving.showing /\ r.moving.to = "in"
    <3>1. ASSUME begun.moving.running
          PROVE  /\ r.at = q /\ r.place = gone.place /\ ~r.changing /\ ~r.hideShow.running
                 /\ r.moving.running /\ r.moving.showing /\ r.moving.to = "in"
      BY <1>1, <1>3, <2>1, <2>3, <2>4, <3>1 DEF Dock!StartAnimation, Dock!WindowState, Dock!Run
    <3>2. ASSUME ~begun.moving.running
          PROVE  /\ r.at = q /\ r.place = gone.place /\ ~r.changing /\ ~r.hideShow.running
                 /\ r.moving.running /\ r.moving.showing /\ r.moving.to = "in"
      BY <1>1, <1>3, <2>1, <2>3, <2>4, <3>2
         DEF Dock!StartAnimation, Dock!Started, Dock!WindowState, Dock!Run
    <3> QED
      BY <3>1, <3>2
  <2>7. /\ Dock!AxisOf(q) \in {"x", "y"} /\ Dock!Hidden(q) \in {"before", "after"}
        /\ OwnAxis(r) = Dock!AxisOf(q)
    BY <2>6, AxisFacts DEF OwnAxis
  <2>8. PlaceInv(r)
    BY <2>4, <2>6, <2>7 DEF PlaceInv
  <2>9. ShowInv(r) /\ RestInv(r, h, kept)
    BY <1>3, <2>6 DEF ShowInv, RestInv
  <2> QED
    BY <2>5, <2>6, <2>8, <2>9 DEF StayInv, WindowInv
<1> HIDE DEF r
<1>4. r \in Dock!WindowState /\ WindowInv(r, q, h, kept)
  BY <1>1, <1>2, <1>3
<1> QED
  BY <1>4 DEF r, begun

LEMMA HideStateType ==
  ASSUME NEW v \in Dock!WindowState, NEW h
  PROVE  Dock!HideStateChanged(v, h) \in Dock!WindowState
<1> DEFINE stopped == [v EXCEPT !.hideTimer = FALSE]
           turned  == Dock!StartHideShow(Dock!StopHideShow(stopped), h)
<1>1. stopped \in Dock!WindowState /\ [v EXCEPT !.hideTimer = TRUE] \in Dock!WindowState
  BY DEF Dock!WindowState
<1> HIDE DEF stopped
<1>2. Dock!StopHideShow(stopped) \in Dock!WindowState
  <2>1. stopped.hideShow.running => Dock!HideShowStopped(stopped, "between") \in Dock!WindowState
    BY <1>1, AxisFacts DEF Dock!HideShowStopped, Dock!WindowState, Dock!Run
  <2> QED
    BY <1>1, <2>1 DEF Dock!StopHideShow
<1>3. turned \in Dock!WindowState
  BY <1>2, StartType
<1> HIDE DEF turned
<1>4. [turned EXCEPT !.visible = TRUE] \in Dock!WindowState
      /\ [stopped EXCEPT !.visible = TRUE] \in Dock!WindowState
  BY <1>1, <1>3 DEF Dock!WindowState
<1>5. Dock!HideStateChanged(v, h) \in
        {[v EXCEPT !.hideTimer = TRUE], [turned EXCEPT !.visible = TRUE],
         [stopped EXCEPT !.visible = TRUE]}
  BY DEF Dock!HideStateChanged, turned, stopped
<1> QED
  BY <1>1, <1>4, <1>5

-----------------------------------------------------------------------------
(* The steps.                                                                *)

\* A menu is open, or the timer came to nothing during a drag.
Kept == menu # "none" \/ ignored

LEMMA SetHideStateStep ==
  ASSUME FollowInv, NEW h \in HideStates, Dock!SetHideState(h)
  PROVE  FollowInv'
<1>1. window \in Dock!WindowState /\ hideState \in HideStates
  BY DEF FollowInv, Dock!TypeOK, HideStates
<1>2. /\ window' = Dock!HideStateChanged(window, h) /\ hideState' = h /\ ignored' = FALSE
      /\ UNCHANGED <<position, locked, contextMenuEnabled, panelSize, menu, pressed, isDragging,
                     dockSize>>
  BY DEF Dock!SetHideState, Dock!drag
<1>3. window' \in Dock!WindowState
  BY <1>1, <1>2, HideStateType
<1>4. Kept \in BOOLEAN /\ Kept' \in BOOLEAN
  BY <1>2 DEF FollowInv, Dock!TypeOK, Kept
<1>5. WindowInv(window, position, hideState, Kept)
  BY DEF FollowInv, Kept
<1>6. WindowInv(Dock!HideStateChanged(window, h), position, h, Kept')
  BY <1>1, <1>4, <1>5, HideStateKeeps
<1>7. WindowInv(window', position', hideState', Kept')
  BY <1>2, <1>6
<1>8. Dock!TypeOK' /\ Dock!SizeKept'
  BY <1>2, <1>3 DEF FollowInv, Dock!TypeOK, Dock!SizeKept, HideStates
<1> QED
  BY <1>7, <1>8 DEF FollowInv, Kept

LEMMA SetHideModeStep ==
  ASSUME FollowInv, NEW m, Dock!SetHideMode(m)
  PROVE  FollowInv'
<1> DEFINE first == IF hideState' # hideState THEN Dock!HideStateChanged(window, hideState')
                    ELSE window
<1>1. window \in Dock!WindowState /\ hideState \in HideStates
  BY DEF FollowInv, Dock!TypeOK, HideStates
<1>2. /\ window' = Dock!HideStateChanged(first, hideState')
      /\ hideState' \in {"Show", hideState} /\ ignored' = FALSE
      /\ UNCHANGED <<position, locked, contextMenuEnabled, panelSize, menu, pressed, isDragging,
                     dockSize>>
  BY DEF Dock!SetHideMode, Dock!drag
<1>3. hideState' \in HideStates
  BY <1>1, <1>2 DEF HideStates
<1>4. Kept \in BOOLEAN /\ Kept' \in BOOLEAN
  BY <1>2 DEF FollowInv, Dock!TypeOK, Kept
<1>5. WindowInv(window, position, hideState, Kept)
  BY DEF FollowInv, Kept
<1>6. /\ Dock!HideStateChanged(window, hideState') \in Dock!WindowState
      /\ WindowInv(Dock!HideStateChanged(window, hideState'), position, hideState', Kept)
  BY <1>1, <1>3, <1>4, <1>5, HideStateType, HideStateKeeps
<1>7. first \in Dock!WindowState /\ WindowInv(first, position, hideState', Kept)
  BY <1>1, <1>5, <1>6
<1> HIDE DEF first
<1>8. window' \in Dock!WindowState
  BY <1>2, <1>7, HideStateType
<1>9. WindowInv(Dock!HideStateChanged(first, hideState'), position, hideState', Kept')
  BY <1>3, <1>4, <1>7, HideStateKeeps
<1>10. WindowInv(window', position', hideState', Kept')
  BY <1>2, <1>9
<1>11. Dock!TypeOK' /\ Dock!SizeKept'
  BY <1>2, <1>3, <1>8 DEF FollowInv, Dock!TypeOK, Dock!SizeKept, HideStates
<1> QED
  BY <1>10, <1>11 DEF FollowInv, Kept

LEMMA SetPositionStep ==
  ASSUME FollowInv, NEW p \in Position, Dock!SetPosition(p)
  PROVE  FollowInv'
<1>1. window \in Dock!WindowState /\ hideState \in HideStates /\ position \in Position
      /\ Kept \in BOOLEAN /\ WindowInv(window, position, hideState, Kept)
  BY DEF FollowInv, Dock!TypeOK, HideStates, Kept
<1>2. /\ window' = Dock!PositionChanged(Dock!BeforePositionChanged(window, position, hideState), p)
      /\ position' = p
      /\ UNCHANGED <<hideState, locked, contextMenuEnabled, panelSize, menu, pressed, isDragging,
                     dockSize, ignored>>
  BY DEF Dock!SetPosition, Dock!drag
<1>3. window' \in Dock!WindowState /\ WindowInv(window', p, hideState, Kept)
  BY <1>1, <1>2, PositionKeeps
<1>4. Kept' = Kept
  BY <1>2 DEF Kept
<1>5. WindowInv(window', position', hideState', Kept')
  BY <1>2, <1>3, <1>4
<1>6. Dock!TypeOK' /\ Dock!SizeKept'
  BY <1>2, <1>3 DEF FollowInv, Dock!TypeOK, Dock!SizeKept
<1> QED
  BY <1>5, <1>6 DEF FollowInv, Kept

LEMMA HideTimerStep ==
  ASSUME FollowInv, Dock!HideTimerFires
  PROVE  FollowInv'
<1> DEFINE fired == [window EXCEPT !.hideTimer = FALSE]
<1>1. window \in Dock!WindowState /\ hideState \in HideStates
      /\ Kept \in BOOLEAN /\ WindowInv(window, position, hideState, Kept)
      /\ isDragging \in BOOLEAN /\ ignored \in BOOLEAN
  BY DEF FollowInv, Dock!TypeOK, HideStates, Kept
<1>2. /\ window.hideTimer /\ ~window.hideShow.running
      /\ window.moving.running => window.moving.showing
      /\ window' = IF isDragging \/ menu # "none" THEN fired
                   ELSE Dock!StartHideShow(fired, hideState)
      /\ (ignored' <=> ignored \/ isDragging) /\ ignored' \in BOOLEAN
      /\ UNCHANGED <<position, hideState, locked, contextMenuEnabled, panelSize, menu, pressed,
                     isDragging, dockSize>>
  BY <1>1 DEF Dock!HideTimerFires, Dock!drag, Dock!panel
<1>3. Kept' \in BOOLEAN
  BY <1>2 DEF Kept
<1>4. /\ fired \in Dock!WindowState /\ fired.hideShow = window.hideShow
      /\ fired.moving = window.moving
  BY <1>1 DEF Dock!WindowState
<1>5. WindowInv(fired, position, hideState, TRUE)
  BY <1>1, TimerKeeps
<1> HIDE DEF fired
<1>6. window' \in Dock!WindowState
  BY <1>2, <1>4, StartType
<1>7. WindowInv(window', position, hideState, Kept')
  <2>1. CASE isDragging \/ menu # "none"
    <3>1. Kept' = TRUE /\ window' = fired
      BY <1>2, <2>1 DEF Kept
    <3> QED
      BY <1>5, <3>1
  <2>2. CASE ~(isDragging \/ menu # "none")
    <3>1. WindowInv(Dock!StartHideShow(fired, hideState), position, hideState, Kept')
      BY <1>1, <1>2, <1>3, <1>4, <1>5, StartKeeps
    <3> QED
      BY <1>2, <2>2, <3>1
  <2> QED
    BY <1>1, <2>1, <2>2
<1>8. WindowInv(window', position', hideState', Kept')
  BY <1>2, <1>7
<1>9. Dock!TypeOK' /\ Dock!SizeKept'
  BY <1>2, <1>6 DEF FollowInv, Dock!TypeOK, Dock!SizeKept
<1> QED
  BY <1>8, <1>9 DEF FollowInv, Kept

LEMMA AnimationStep ==
  ASSUME FollowInv, Dock!HideShowEnds \/ Dock!MovingEnds
  PROVE  FollowInv'
<1>1. window \in Dock!WindowState /\ hideState \in HideStates /\ position \in Position
      /\ Kept \in BOOLEAN /\ WindowInv(window, position, hideState, Kept)
  BY DEF FollowInv, Dock!TypeOK, HideStates, Kept
<1>2. UNCHANGED <<position, hideState, locked, contextMenuEnabled, panelSize, menu, pressed,
                  isDragging, dockSize, ignored>>
  BY DEF Dock!HideShowEnds, Dock!MovingEnds, Dock!panel, Dock!drag
<1>3. window.hideShow.to \in Dock!Places /\ window.moving.to \in Dock!Places
  BY <1>1 DEF Dock!WindowState, Dock!Run
<1>4. window' \in Dock!WindowState /\ WindowInv(window', position, hideState, Kept)
  <2>1. CASE Dock!HideShowEnds
    <3>1. /\ window.hideShow.running
          /\ window' = Dock!HideShowStopped(window, window.hideShow.to)
      BY <2>1 DEF Dock!HideShowEnds
    <3> QED
      BY <1>1, <1>3, <3>1, StopType, HideShowEndKeeps
  <2>2. CASE Dock!MovingEnds
    <3>1. /\ window.moving.running
          /\ window' = Dock!MovingStopped(window, window.moving.to, position, hideState)
      BY <2>2 DEF Dock!MovingEnds
    <3> QED
      BY <1>1, <1>3, <3>1, StopType, MovingEndKeeps
  <2> QED
    BY <2>1, <2>2
<1>5. Kept' = Kept
  BY <1>2 DEF Kept
<1>6. WindowInv(window', position', hideState', Kept')
  BY <1>2, <1>4, <1>5
<1>7. Dock!TypeOK' /\ Dock!SizeKept'
  BY <1>2, <1>4 DEF FollowInv, Dock!TypeOK, Dock!SizeKept
<1> QED
  BY <1>6, <1>7 DEF FollowInv, Kept

\* A menu that closes leaves the timer as it is or starts it; one of the dock's own
\* that opens stops it.
LEMMA MenuTimes ==
  ASSUME NEW v \in Dock!WindowState, NEW p, hideState \in HideStates,
         WindowInv(v, p, hideState, Kept), ignored \in BOOLEAN, ignored' = ignored
  PROVE  /\ Dock!MenuClosed(v) \in Dock!WindowState
         /\ WindowInv(Dock!MenuClosed(v), p, hideState, Kept')
<1>1. Kept \in BOOLEAN /\ Kept' \in BOOLEAN /\ v.hideTimer \in BOOLEAN
  BY Switches DEF Kept
<1>2. ASSUME Dock!MenuClosed(v) = [v EXCEPT !.hideTimer = TRUE]
      PROVE  /\ Dock!MenuClosed(v) \in Dock!WindowState
             /\ WindowInv(Dock!MenuClosed(v), p, hideState, Kept')
  <2>1. [v EXCEPT !.hideTimer = TRUE] \in Dock!WindowState
    BY DEF Dock!WindowState
  <2>2. WindowInv([v EXCEPT !.hideTimer = TRUE], p, hideState, Kept')
    BY <1>1, TimerKeeps
  <2> QED
    BY <1>2, <2>1, <2>2
<1>3. ASSUME Dock!MenuClosed(v) = v, menu = "none" \/ hideState = "Show"
      PROVE  /\ Dock!MenuClosed(v) \in Dock!WindowState
             /\ WindowInv(Dock!MenuClosed(v), p, hideState, Kept')
  <2>1. [v EXCEPT !.hideTimer = v.hideTimer] = v
    BY DEF Dock!WindowState
  <2>2. hideState = "Hide" /\ (Kept \/ v.hideTimer) => v.hideTimer \/ Kept'
    BY <1>3 DEF Kept
  <2>3. WindowInv([v EXCEPT !.hideTimer = v.hideTimer], p, hideState, Kept')
    BY <1>1, <2>2, TimerKeeps
  <2> QED
    BY <1>3, <2>1, <2>3
<1> QED
  BY <1>2, <1>3 DEF Dock!MenuClosed

LEMMA MenuStep ==
  ASSUME FollowInv,
         Dock!RightTapped \/ Dock!CloseCurrent \/ Dock!OpenMenu \/ Dock!ContextMenuEnabledChanged
  PROVE  FollowInv'
<1> DEFINE over == Dock!MenuClosed(window)
<1>1. window \in Dock!WindowState /\ hideState \in HideStates /\ ignored \in BOOLEAN
      /\ Kept \in BOOLEAN /\ WindowInv(window, position, hideState, Kept)
  BY DEF FollowInv, Dock!TypeOK, HideStates, Kept
<1>2. UNCHANGED <<position, hideState, locked, panelSize, pressed, isDragging, dockSize, ignored>>
  BY DEF Dock!RightTapped, Dock!CloseCurrent, Dock!OpenMenu, Dock!ContextMenuEnabledChanged,
         Dock!panel, Dock!drag
<1>3. menu' \in {"none", "dock", OtherMenu} /\ contextMenuEnabled' \in BOOLEAN
  BY DEF FollowInv, Dock!TypeOK, Dock!RightTapped, Dock!CloseCurrent, Dock!OpenMenu,
         Dock!ContextMenuEnabledChanged, Dock!panel
<1>4. \/ window' = over
      \/ window' = [over EXCEPT !.hideTimer = FALSE] /\ menu' = "dock"
      \/ window' = window /\ menu' = menu
  BY DEF Dock!RightTapped, Dock!CloseCurrent, Dock!OpenMenu, Dock!ContextMenuEnabledChanged
<1>5. over \in Dock!WindowState /\ WindowInv(over, position, hideState, Kept')
  BY <1>1, <1>2, MenuTimes
<1> HIDE DEF over
<1>6. window' \in Dock!WindowState /\ WindowInv(window', position, hideState, Kept')
  <2>1. CASE window' = over
    BY <1>5, <2>1
  <2>2. CASE window' = [over EXCEPT !.hideTimer = FALSE] /\ menu' = "dock"
    <3>1. Kept' = TRUE
      BY <2>2 DEF Kept
    <3>2. WindowInv([over EXCEPT !.hideTimer = FALSE], position, hideState, Kept')
      BY <1>5, <3>1, TimerKeeps
    <3>3. [over EXCEPT !.hideTimer = FALSE] \in Dock!WindowState
      BY <1>5 DEF Dock!WindowState
    <3> QED
      BY <2>2, <3>2, <3>3
  <2>3. CASE window' = window /\ menu' = menu
    BY <1>1, <1>2, <2>3 DEF Kept
  <2> QED
    BY <1>4, <2>1, <2>2, <2>3
<1>7. WindowInv(window', position', hideState', Kept')
  BY <1>2, <1>6
<1>8. Dock!TypeOK' /\ Dock!SizeKept'
  BY <1>2, <1>3, <1>6 DEF FollowInv, Dock!TypeOK, Dock!SizeKept
<1> QED
  BY <1>7, <1>8 DEF FollowInv, Kept

\* The edge does not touch the window; a drag ends with the size handed over.
LEMMA EdgeStep ==
  ASSUME FollowInv,
         \/ Dock!Press \/ Dock!Release \/ Dock!SetLocked
         \/ \E n \in Sizes : Dock!Drag(n) \/ Dock!SetDockSize(n)
         \/ UNCHANGED Dock!vars
  PROVE  FollowInv'
<1>1. UNCHANGED <<position, hideState, window, menu, ignored>>
  BY DEF Dock!Press, Dock!Release, Dock!SetLocked, Dock!Drag, Dock!SetDockSize, Dock!vars,
         Dock!panel, Dock!drag
<1>2. WindowInv(window', position', hideState', (menu # "none" \/ ignored)')
  BY <1>1 DEF FollowInv
<1>3. /\ {panelSize', dockSize'} \subseteq Sizes
      /\ {locked', contextMenuEnabled', pressed', isDragging'} \subseteq BOOLEAN
  BY DEF FollowInv, Dock!TypeOK, Dock!Press, Dock!Release, Dock!SetLocked, Dock!Drag,
         Dock!SetDockSize, Dock!vars, Dock!panel, Dock!drag
<1>4. Dock!TypeOK'
  BY <1>1, <1>3 DEF FollowInv, Dock!TypeOK
<1>5. Dock!SizeKept'
  BY DEF FollowInv, Dock!SizeKept, Dock!Press, Dock!Release, Dock!SetLocked, Dock!Drag,
         Dock!SetDockSize, Dock!vars, Dock!panel, Dock!drag
<1> QED
  BY <1>2, <1>4, <1>5 DEF FollowInv

LEMMA FollowStep == FollowInv /\ [Dock!Next]_Dock!vars => FollowInv'
<1> SUFFICES ASSUME FollowInv, [Dock!Next]_Dock!vars PROVE FollowInv'
  OBVIOUS
<1>1. CASE \E h \in {"Show", "Hide"} : Dock!SetHideState(h)
  BY <1>1, SetHideStateStep DEF HideStates
<1>2. CASE \E m \in {"KeepShowing", "Hides"} : Dock!SetHideMode(m)
  BY <1>2, SetHideModeStep
<1>3. CASE \E p \in Position : Dock!SetPosition(p)
  BY <1>3, SetPositionStep
<1>4. CASE Dock!HideTimerFires
  BY <1>4, HideTimerStep
<1>5. CASE Dock!HideShowEnds \/ Dock!MovingEnds
  BY <1>5, AnimationStep
<1>6. CASE \/ Dock!RightTapped \/ Dock!CloseCurrent \/ Dock!OpenMenu
           \/ Dock!ContextMenuEnabledChanged
  BY <1>6, MenuStep
<1>7. CASE \/ Dock!Press \/ Dock!Release \/ Dock!SetLocked
           \/ \E n \in Sizes : Dock!Drag(n) \/ Dock!SetDockSize(n)
           \/ UNCHANGED Dock!vars
  BY <1>7, EdgeStep
<1> QED
  BY <1>1, <1>2, <1>3, <1>4, <1>5, <1>6, <1>7 DEF Dock!Next

LEMMA FollowInit == Dock!Init => FollowInv
<1> SUFFICES ASSUME Dock!Init PROVE FollowInv
  OBVIOUS
<1>1. window = [at |-> position, place |-> [x \in {"x", "y"} |-> "in"],
                visible |-> hideState = "Show", hideTimer |-> FALSE,
                hideShow |-> [running |-> FALSE, showing |-> TRUE, axis |-> "x", to |-> "in"],
                moving |-> [running |-> FALSE, showing |-> FALSE, axis |-> "x", to |-> "in"],
                changing |-> FALSE]
  BY DEF Dock!Init
<1>2. window \in Dock!WindowState
  BY <1>1 DEF Dock!Init, Dock!WindowState, Dock!Run, Dock!Places
<1>3. Dock!TypeOK /\ Dock!SizeKept
  BY <1>2 DEF Dock!Init, Dock!TypeOK, Dock!SizeKept
<1>4. window.at = position /\ ~window.hideShow.running /\ ~window.moving.running
      /\ ~window.changing /\ (window.visible <=> hideState = "Show")
      /\ \A x \in {"x", "y"} : window.place[x] = "in"
  BY <1>1
<1>5. OwnAxis(window) \in {"x", "y"}
  BY AxisFacts DEF OwnAxis
<1>6. WindowInv(window, position, hideState, menu # "none" \/ ignored)
  BY <1>4, <1>5 DEF WindowInv, StayInv, PlaceInv, ShowInv, RestInv
<1> QED
  BY <1>3, <1>6 DEF FollowInv

\* When nothing is under way the invariant leaves one place and one look.
LEMMA FollowsAtRest == FollowInv => Dock!WindowFollows
<1> SUFFICES ASSUME FollowInv, Dock!Idle PROVE Dock!Settled
  BY DEF Dock!WindowFollows, Dock!Settled, FollowInv
<1>1. window \in Dock!WindowState /\ hideState \in HideStates
      /\ WindowInv(window, position, hideState, menu # "none" \/ ignored)
  BY DEF FollowInv, Dock!TypeOK, HideStates
<1>2. ~window.hideTimer /\ ~window.hideShow.running /\ ~window.moving.running
      /\ ~(menu # "none" \/ ignored)
  BY DEF Dock!Idle
<1>3. ~window.changing
  BY <1>1, <1>2 DEF WindowInv
<1>4. StayInv(window, position, hideState, menu # "none" \/ ignored)
  BY <1>1, <1>3 DEF WindowInv
<1>5. /\ hideState = "Show" => window.place[OwnAxis(window)] = "in" /\ window.visible
      /\ hideState = "Hide" => ~window.visible
  BY <1>2, <1>4 DEF StayInv, RestInv
<1>6. \A x \in {"x", "y"} : x # OwnAxis(window) => window.place[x] = "in"
  BY <1>4 DEF StayInv, PlaceInv
<1>7. window.visible <=> hideState = "Show"
  BY <1>1, <1>5 DEF HideStates
<1>8. window.visible => \A x \in {"x", "y"} : window.place[x] = "in"
  BY <1>5, <1>6, <1>7
<1> QED
  BY <1>3, <1>4, <1>7, <1>8 DEF Dock!Settled, StayInv

\* Of the dock's window alone: it follows the panel, for any positions and sizes.
THEOREM WindowKeepsUp == Dock!Spec => []Dock!WindowFollows
  BY FollowInit, FollowStep, FollowsAtRest, PTL DEF Dock!Spec

-----------------------------------------------------------------------------
(* A layer surface under Wayland.                                            *)

SentState == [anchors : BottomOrNone, zone : WaylandZones \cup {0},
              w : WaylandLengths \cup {0}, h : WaylandLengths \cup {0}]

RequestState == [w : WaylandLengths \cup {0}, h : WaylandLengths \cup {0}]

\* What the surface knows, and the window.
SurfaceTypes ==
  /\ Wayland!TypeOK
  /\ onOutput = NoOutput => outputs = {}
  /\ hints \in BottomOrNone /\ exclusive \in WaylandZones /\ size \in Wayland!SurfaceSizes
  /\ request \in RequestState /\ sent \in SentState /\ committed \in SentState
  /\ {alive, commitScheduled, shown, closeOnDismissed} \subseteq BOOLEAN

\* What was sent is legal and what the window wants, but for anchors that wait.
Sending ==
  alive => /\ sent.zone = exclusive
           /\ sent.anchors = hints \/ Wayland!AnchorsSizeConflict(hints, request)
           /\ sent.w = 0 => Wayland!Across(sent.anchors)
           /\ sent.h = 0 => Wayland!Down(sent.anchors)

\* What counts is what was sent, once no commit is under way.
Counting == Wayland!Legal /\ (alive /\ ~commitScheduled => committed = sent)

\* While nothing is queued the surface remembers the output it is on.
Standing ==
  shown /\ recreate = "no" /\ onOutput # NoOutput =>
    bound = onOutput /\ output = onOutput /\ closed = "no"

SurfaceInv == SurfaceTypes /\ Sending /\ Counting /\ Standing

LEMMA SurfaceInvSound == SurfaceInv => Wayland!SurfaceSound
BY DEF SurfaceInv, SurfaceTypes, Sending, Counting, Standing, Wayland!SurfaceSound,
       Wayland!Committed, Wayland!OnOutput, Wayland!TypeOK

LEMMA SurfaceInit == Wayland!Init => SurfaceInv
<1> SUFFICES ASSUME Wayland!Init PROVE SurfaceInv
  OBVIOUS
<1>1. /\ size \in Wayland!SurfaceSizes /\ hints \in BottomOrNone /\ exclusive \in WaylandZones
      /\ request = Wayland!RequestFor(size, hints)
      /\ sent = [anchors |-> hints, zone |-> exclusive, w |-> request.w, h |-> request.h]
      /\ committed = Wayland!Nothing /\ commitScheduled = TRUE /\ alive = TRUE
      /\ recreate = "no" /\ closed = "no" /\ output = onOutput /\ bound = onOutput
      /\ outputs \in SUBSET Output /\ outputs # {} /\ onOutput \in outputs
      /\ shown = TRUE /\ closeOnDismissed \in BOOLEAN
  BY DEF Wayland!Init
<1>2. sent \in SentState
  BY <1>1 DEF SentState, Wayland!SurfaceSizes, Wayland!RequestFor
<1>3. committed \in SentState
  BY <1>1 DEF SentState, Wayland!Nothing, BottomOrNone
<1>4. Wayland!TypeOK
  BY <1>1, <1>2, <1>3 DEF Wayland!TypeOK, SentState
<1>5. request \in RequestState
  BY <1>1 DEF RequestState, Wayland!SurfaceSizes, Wayland!RequestFor
<1>6. SurfaceTypes
  BY <1>1, <1>2, <1>3, <1>4, <1>5, LayersAssumption DEF SurfaceTypes
<1>7. Sending
  BY <1>1, LayersAssumption DEF Sending, Wayland!SurfaceSizes, Wayland!RequestFor
<1>8. Counting /\ Standing
  BY <1>1 DEF Counting, Standing, Wayland!Legal
<1> QED
  BY <1>6, <1>7, <1>8 DEF SurfaceInv

\* Where the surface stands is not touched by what the window wants.
LEMMA StandsStill ==
  ASSUME Standing, UNCHANGED <<shown, recreate, onOutput, bound, output, closed>>
  PROVE  Standing'
BY DEF Standing

LEMMA TrySending ==
  ASSUME NEW s \in BottomOrNone, NEW r, SurfaceInv, alive,
         r \in RequestState,
         hints' = s, request' = r, exclusive' = exclusive, alive' = alive,
         committed' = committed, Wayland!TrySetAnchorsAndSize(s, r)
  PROVE  /\ sent' \in SentState /\ commitScheduled' \in BOOLEAN
         /\ Sending' /\ Counting'
<1>1. CASE Wayland!AnchorsSizeConflict(s, r)
  <2>1. sent' = sent /\ commitScheduled' = commitScheduled
    BY <1>1 DEF Wayland!TrySetAnchorsAndSize
  <2> QED
    BY <1>1, <2>1 DEF SurfaceInv, SurfaceTypes, Sending, Counting, Wayland!Legal
<1>2. CASE ~Wayland!AnchorsSizeConflict(s, r)
  <2>1. /\ sent' = [sent EXCEPT !.anchors = s, !.w = r.w, !.h = r.h]
        /\ commitScheduled' = TRUE
    BY <1>2 DEF Wayland!TrySetAnchorsAndSize
  <2>2. sent \in SentState
    BY DEF SurfaceInv, SurfaceTypes
  <2>3. /\ sent' \in SentState /\ sent'.anchors = s /\ sent'.zone = sent.zone
        /\ sent'.w = r.w /\ sent'.h = r.h
    BY <2>1, <2>2 DEF SentState, RequestState
  <2>4. (r.w = 0 => Wayland!Across(s)) /\ (r.h = 0 => Wayland!Down(s))
    BY <1>2 DEF Wayland!AnchorsSizeConflict
  <2>5. Sending'
    BY <2>3, <2>4 DEF SurfaceInv, Sending
  <2>6. Counting'
    BY <2>1 DEF SurfaceInv, Counting, Wayland!Legal
  <2> QED
    BY <2>1, <2>3, <2>5, <2>6
<1> QED
  BY <1>1, <1>2

LEMMA SetAnchorsStep ==
  ASSUME SurfaceInv, NEW s \in BottomOrNone, Wayland!SetAnchors(s)
  PROVE  SurfaceInv'
<1>1. /\ hints' = s
      /\ IF alive THEN Wayland!TrySetAnchorsAndSize(s, request)
         ELSE UNCHANGED <<sent, commitScheduled>>
      /\ UNCHANGED <<outputs, onOutput, exclusive, size, closeOnDismissed, shown, alive, request,
                     committed, output, bound, recreate, configured, closed>>
  BY DEF Wayland!SetAnchors, Wayland!world
<1>2. SurfaceTypes /\ alive \in BOOLEAN /\ request \in RequestState
  BY DEF SurfaceInv, SurfaceTypes
<1>3. sent' \in SentState /\ commitScheduled' \in BOOLEAN /\ Sending' /\ Counting'
  <2>1. CASE alive
    BY <1>1, <1>2, <2>1, TrySending
  <2>2. CASE ~alive
    BY <1>1, <1>2, <2>2 DEF SurfaceTypes, Sending, Counting, Wayland!Legal
  <2> QED
    BY <1>2, <2>1, <2>2
<1>4. SurfaceTypes'
  BY <1>1, <1>2, <1>3 DEF SurfaceTypes, Wayland!TypeOK, SentState
<1>5. Standing'
  BY <1>1, StandsStill DEF SurfaceInv
<1> QED
  BY <1>3, <1>4, <1>5 DEF SurfaceInv

LEMMA SetZoneStep ==
  ASSUME SurfaceInv, NEW z \in WaylandZones, Wayland!SetExclusiveZone(z)
  PROVE  SurfaceInv'
<1>1. /\ exclusive' = z
      /\ IF alive THEN sent' = [sent EXCEPT !.zone = z] /\ commitScheduled' = TRUE
         ELSE UNCHANGED <<sent, commitScheduled>>
      /\ UNCHANGED <<outputs, onOutput, hints, size, closeOnDismissed, shown, alive, request,
                     committed, output, bound, recreate, configured, closed>>
  BY DEF Wayland!SetExclusiveZone, Wayland!world
<1>2. SurfaceTypes /\ alive \in BOOLEAN /\ sent \in SentState /\ Sending /\ Counting
  BY DEF SurfaceInv, SurfaceTypes
<1>3. sent' \in SentState /\ commitScheduled' \in BOOLEAN /\ Sending' /\ Counting'
  <2>1. CASE alive
    <3>1. /\ sent' \in SentState /\ sent'.zone = z /\ sent'.anchors = sent.anchors
          /\ sent'.w = sent.w /\ sent'.h = sent.h /\ commitScheduled' = TRUE
      BY <1>1, <1>2, <2>1 DEF SentState
    <3> QED
      BY <1>1, <1>2, <2>1, <3>1 DEF Sending, Counting, Wayland!Legal
  <2>2. CASE ~alive
    BY <1>1, <1>2, <2>2 DEF SurfaceTypes, Sending, Counting, Wayland!Legal
  <2> QED
    BY <1>2, <2>1, <2>2
<1>4. SurfaceTypes'
  BY <1>1, <1>2, <1>3 DEF SurfaceTypes, Wayland!TypeOK, SentState
<1>5. Standing'
  BY <1>1, StandsStill DEF SurfaceInv
<1> QED
  BY <1>3, <1>4, <1>5 DEF SurfaceInv

LEMMA GeometryStep ==
  ASSUME SurfaceInv, NEW z \in Wayland!SurfaceSizes, Wayland!Resize(z) \/ Wayland!Configure(z)
  PROVE  SurfaceInv'
<1> DEFINE r == Wayland!RequestFor(z, hints)
<1>1. /\ size' = z
      /\ IF alive THEN request' = r /\ Wayland!TrySetAnchorsAndSize(hints, r)
         ELSE UNCHANGED <<request, sent, commitScheduled>>
      /\ UNCHANGED <<outputs, onOutput, hints, exclusive, closeOnDismissed, shown, alive,
                     committed, output, bound, recreate, closed>>
  BY DEF Wayland!Resize, Wayland!Configure, Wayland!SetWindowGeometry, Wayland!world,
         Wayland!TrySetAnchorsAndSize
<1>2. SurfaceTypes /\ alive \in BOOLEAN /\ hints \in BottomOrNone /\ Sending /\ Counting
  BY DEF SurfaceInv, SurfaceTypes
<1>3. r \in RequestState
  BY DEF RequestState, Wayland!RequestFor, Wayland!SurfaceSizes
<1>4. /\ sent' \in SentState /\ commitScheduled' \in BOOLEAN /\ request' \in RequestState
      /\ Sending' /\ Counting'
  <2>1. CASE alive
    <3> HIDE DEF r
    <3> QED
      BY <1>1, <1>2, <1>3, <2>1, TrySending
  <2>2. CASE ~alive
    BY <1>1, <1>2, <2>2 DEF SurfaceTypes, Sending, Counting, Wayland!Legal
  <2> QED
    BY <1>2, <2>1, <2>2
<1>5. SurfaceTypes'
  BY <1>1, <1>2, <1>4 DEF SurfaceTypes, Wayland!TypeOK, SentState
<1>6. Standing'
  BY <1>1, StandsStill DEF SurfaceInv
<1> QED
  BY <1>4, <1>5, <1>6 DEF SurfaceInv

\* flushCommit, and a frame.
LEMMA CommitStep ==
  ASSUME SurfaceInv, Wayland!FlushCommit \/ Wayland!Frame
  PROVE  SurfaceInv'
<1>1. /\ alive /\ committed' = sent /\ commitScheduled' \in {commitScheduled, FALSE}
      /\ UNCHANGED <<outputs, onOutput, hints, exclusive, size, closeOnDismissed, shown, alive,
                     request, sent, output, bound, recreate, closed>>
  BY DEF Wayland!FlushCommit, Wayland!Frame, Wayland!world, Wayland!window
<1>2. SurfaceTypes /\ Sending /\ Counting
  BY DEF SurfaceInv
<1>3. SurfaceTypes'
  BY <1>1, <1>2 DEF SurfaceTypes, Wayland!TypeOK, SentState
<1>4. Sending'
  BY <1>1, <1>2 DEF Sending
<1>5. Counting'
  BY <1>1, <1>2 DEF Sending, Counting, Wayland!Legal
<1>6. Standing'
  BY <1>1, StandsStill DEF SurfaceInv
<1> QED
  BY <1>3, <1>4, <1>5, <1>6 DEF SurfaceInv

\* What does not touch the window or what was sent.
LEMMA SendsStill ==
  ASSUME SurfaceInv,
         UNCHANGED <<hints, exclusive, size, closeOnDismissed, alive, request, sent, committed,
                     commitScheduled>>
  PROVE  Sending' /\ Counting'
BY DEF SurfaceInv, Sending, Counting, Wayland!Legal

\* The outputs come, go, or take the window.
LEMMA OutputStep ==
  ASSUME SurfaceInv,
         \/ \E s \in outputs : Wayland!ScreenChanged(s)
         \/ \E o \in Output : Wayland!Plug(o) \/ Wayland!Unplug(o)
  PROVE  SurfaceInv'
<1>1. UNCHANGED <<hints, exclusive, size, closeOnDismissed, shown, alive, request, sent,
                  committed, commitScheduled, bound>>
  BY DEF Wayland!ScreenChanged, Wayland!Plug, Wayland!Unplug, Wayland!window
<1>2. Sending' /\ Counting'
  BY <1>1, SendsStill
<1>3. SurfaceTypes /\ Wayland!TypeOK /\ Standing /\ NoOutput \notin Output
      /\ alive \in BOOLEAN /\ shown \in BOOLEAN
  BY LayersAssumption DEF SurfaceInv, SurfaceTypes
<1>4. ASSUME NEW s \in outputs, Wayland!ScreenChanged(s)
      PROVE  SurfaceTypes' /\ Standing'
  <2>1. /\ onOutput' = s /\ Wayland!ScheduleRecreate(s) /\ outputs' = outputs
        /\ closed' = closed /\ shown /\ s # onOutput
    BY <1>4 DEF Wayland!ScreenChanged
  <2>2. SurfaceTypes'
    BY <1>1, <1>3, <2>1 DEF SurfaceTypes, Wayland!TypeOK, Wayland!ScheduleRecreate, SentState
  <2>3. onOutput # NoOutput
    BY <1>3, <2>1 DEF SurfaceTypes
  <2>4. Standing'
    BY <1>1, <1>3, <2>1, <2>3 DEF Standing, Wayland!TypeOK, Wayland!ScheduleRecreate
  <2> QED
    BY <2>2, <2>4
<1>5. ASSUME NEW o \in Output, Wayland!Plug(o)
      PROVE  SurfaceTypes' /\ Standing'
  <2>1. /\ o \notin outputs \cup {output, bound} /\ outputs' = outputs \cup {o}
        /\ onOutput' = IF onOutput = NoOutput THEN o ELSE onOutput
        /\ IF onOutput = NoOutput THEN Wayland!ScheduleRecreate(o)
           ELSE UNCHANGED <<output, recreate>>
        /\ closed' = closed
    BY <1>5 DEF Wayland!Plug
  <2>2. SurfaceTypes'
    BY <1>1, <1>3, <2>1 DEF SurfaceTypes, Wayland!TypeOK, Wayland!ScheduleRecreate, SentState
  <2>3. Standing'
    BY <1>1, <1>3, <2>1 DEF Standing, Wayland!TypeOK, Wayland!ScheduleRecreate
  <2> QED
    BY <2>2, <2>3
<1>6. ASSUME NEW o \in Output, Wayland!Unplug(o)
      PROVE  SurfaceTypes' /\ Standing'
  <2>1. /\ o \in outputs /\ outputs' = outputs \ {o}
        /\ onOutput' \in IF onOutput # o THEN {onOutput}
                         ELSE IF outputs' = {} THEN {NoOutput} ELSE outputs'
        /\ IF onOutput = o /\ shown THEN Wayland!ScheduleRecreate(onOutput')
           ELSE UNCHANGED <<output, recreate>>
        /\ closed' = IF alive /\ bound = o /\ closed = "no" THEN "sent" ELSE closed
    BY <1>6 DEF Wayland!Unplug
  <2>2. onOutput # NoOutput
    BY <1>3, <2>1 DEF SurfaceTypes
  <2>3. onOutput' \in outputs' \cup {NoOutput} /\ (onOutput' = NoOutput => outputs' = {})
    BY <1>3, <2>1, <2>2 DEF Wayland!TypeOK
  <2>4. SurfaceTypes'
    BY <1>1, <1>3, <2>1, <2>3 DEF SurfaceTypes, Wayland!TypeOK, Wayland!ScheduleRecreate, SentState
  <2>5. Standing'
    BY <1>1, <1>3, <2>1, <2>2 DEF Standing, Wayland!TypeOK, Wayland!ScheduleRecreate
  <2> QED
    BY <2>4, <2>5
<1>7. SurfaceTypes' /\ Standing'
  BY <1>4, <1>5, <1>6
<1> QED
  BY <1>2, <1>7 DEF SurfaceInv

\* The compositor's closed is heard.
LEMMA ClosedStep ==
  ASSUME SurfaceInv, Wayland!Closed
  PROVE  SurfaceInv'
<1>1. /\ closed = "sent" /\ closed' = "heard" /\ shown' = (shown /\ ~closeOnDismissed)
      /\ UNCHANGED <<outputs, onOutput, hints, exclusive, size, closeOnDismissed, alive, request,
                     sent, committed, commitScheduled, output, bound, recreate>>
  BY DEF Wayland!Closed, Wayland!world
<1>2. SurfaceTypes /\ Standing /\ shown \in BOOLEAN /\ closeOnDismissed \in BOOLEAN
  BY DEF SurfaceInv, SurfaceTypes
<1>3. (shown' => shown) /\ shown' \in BOOLEAN
  BY <1>1, <1>2
<1>4. SurfaceTypes'
  BY <1>1, <1>2, <1>3 DEF SurfaceTypes, Wayland!TypeOK
<1>5. Standing'
  BY <1>1, <1>2, <1>3 DEF Standing
<1>6. Sending' /\ Counting'
  BY <1>1, SendsStill
<1> QED
  BY <1>4, <1>5, <1>6 DEF SurfaceInv

\* The surface is deleted, and made again where the window is by then.
LEMMA RemakeStep ==
  ASSUME SurfaceInv, Wayland!FlushRecreate \/ Wayland!Reinit
  PROVE  SurfaceInv'
<1>1. SurfaceTypes /\ Wayland!TypeOK
  BY DEF SurfaceInv, SurfaceTypes
<1>2. CASE Wayland!FlushRecreate
  <2>1. /\ recreate' = "reset" /\ alive' = FALSE /\ commitScheduled' = FALSE /\ closed' = "no"
        /\ UNCHANGED <<outputs, onOutput, hints, exclusive, size, closeOnDismissed, shown,
                       request, sent, committed, output, bound>>
    BY <1>2 DEF Wayland!FlushRecreate, Wayland!world, Wayland!window
  <2>2. SurfaceTypes'
    BY <1>1, <2>1 DEF SurfaceTypes, Wayland!TypeOK
  <2>3. Sending' /\ Counting' /\ Standing'
    BY <2>1 DEF Sending, Counting, Wayland!Legal, Standing
  <2> QED
    BY <2>2, <2>3 DEF SurfaceInv
<1>3. CASE Wayland!Reinit /\ shown
  <2>1. /\ recreate' = "no" /\ Wayland!Construct
        /\ UNCHANGED <<outputs, onOutput, hints, exclusive, size, closeOnDismissed, shown>>
    BY <1>3 DEF Wayland!Reinit, Wayland!world, Wayland!window
  <2>2. /\ alive' = TRUE /\ closed' = "no" /\ output' = onOutput /\ bound' = onOutput
        /\ request' = Wayland!RequestFor(size, hints)
        /\ sent' = [anchors |-> hints, zone |-> exclusive, w |-> request'.w, h |-> request'.h]
        /\ committed' = Wayland!Nothing /\ commitScheduled' = TRUE
    BY <2>1 DEF Wayland!Construct
  <2>3. request' \in RequestState
    BY <1>1, <2>2 DEF SurfaceTypes, RequestState, Wayland!SurfaceSizes, Wayland!RequestFor
  <2>4. sent' \in SentState
    BY <1>1, <2>2, <2>3 DEF SurfaceTypes, SentState, RequestState
  <2>5. committed' \in SentState
    BY <2>2 DEF SentState, Wayland!Nothing, BottomOrNone
  <2>6. {sent'.anchors, committed'.anchors} \subseteq BottomOrNone
    BY <2>4, <2>5 DEF SentState
  <2>7. SurfaceTypes'
    BY <1>1, <2>1, <2>2, <2>3, <2>4, <2>5, <2>6 DEF SurfaceTypes, Wayland!TypeOK
  <2>8. Sending'
    BY <1>1, <2>1, <2>2, LayersAssumption
       DEF SurfaceTypes, Sending, Wayland!SurfaceSizes, Wayland!RequestFor
  <2>9. Counting' /\ Standing'
    BY <2>1, <2>2 DEF Counting, Wayland!Legal, Standing
  <2> QED
    BY <2>7, <2>8, <2>9 DEF SurfaceInv
<1>4. CASE Wayland!Reinit /\ ~shown
  <2>1. /\ recreate' = "no"
        /\ UNCHANGED <<outputs, onOutput, hints, exclusive, size, closeOnDismissed, shown, alive,
                       request, sent, committed, commitScheduled, output, bound, closed>>
    BY <1>4 DEF Wayland!Reinit, Wayland!world, Wayland!window
  <2>2. SurfaceTypes'
    BY <1>1, <1>4, <2>1 DEF SurfaceTypes, Wayland!TypeOK
  <2>3. Standing'
    BY <1>4, <2>1 DEF Standing
  <2>4. Sending' /\ Counting'
    BY <2>1, SendsStill
  <2> QED
    BY <2>2, <2>3, <2>4 DEF SurfaceInv
<1> QED
  BY <1>2, <1>3, <1>4

LEMMA SurfaceStep == SurfaceInv /\ [Wayland!Next]_Wayland!vars => SurfaceInv'
<1> SUFFICES ASSUME SurfaceInv, [Wayland!Next]_Wayland!vars PROVE SurfaceInv'
  OBVIOUS
<1>1. CASE \E s \in BottomOrNone : Wayland!SetAnchors(s)
  BY <1>1, SetAnchorsStep
<1>2. CASE \E z \in WaylandZones : Wayland!SetExclusiveZone(z)
  BY <1>2, SetZoneStep
<1>3. CASE \E z \in Wayland!SurfaceSizes : Wayland!Resize(z) \/ Wayland!Configure(z)
  BY <1>3, GeometryStep
<1>4. CASE \/ \E s \in outputs : Wayland!ScreenChanged(s)
           \/ \E o \in Output : Wayland!Plug(o) \/ Wayland!Unplug(o)
  BY <1>4, OutputStep
<1>5. CASE Wayland!FlushCommit \/ Wayland!Frame
  BY <1>5, CommitStep
<1>6. CASE Wayland!Closed
  BY <1>6, ClosedStep
<1>7. CASE Wayland!FlushRecreate \/ Wayland!Reinit
  BY <1>7, RemakeStep
<1>8. CASE UNCHANGED Wayland!vars
  <2>1. UNCHANGED <<outputs, onOutput, hints, exclusive, size, closeOnDismissed, shown, alive,
                    request, sent, committed, commitScheduled, output, bound, recreate,
                    configured, closed>>
    BY <1>8 DEF Wayland!vars, Wayland!world, Wayland!window, Wayland!surface
  <2>2. SurfaceTypes' /\ Standing'
    BY <2>1 DEF SurfaceInv, SurfaceTypes, Wayland!TypeOK, Standing
  <2>3. Sending' /\ Counting'
    BY <2>1, SendsStill
  <2> QED
    BY <2>2, <2>3 DEF SurfaceInv
<1> QED
  BY <1>1, <1>2, <1>3, <1>4, <1>5, <1>6, <1>7, <1>8 DEF Wayland!Next

\* Of the surface alone, for any outputs, zones and lengths, with whatever is queued: it
\* is legal, committed and on the window's output.
THEOREM SurfaceKeepsSound == Wayland!Spec => []Wayland!SurfaceSound
  BY SurfaceInit, SurfaceStep, SurfaceInvSound, PTL DEF Wayland!Spec

-----------------------------------------------------------------------------
(* A window of the shell on X11.                                             *)

\* All that is asked of the X server is where the window is.
Still == \A n \in 1..Len(asked) : asked[n] = geometry

\* A place that differs from the one before it is looked at when it comes, so only
\* a window for which nothing else is asked must be right already.
AskedRight == Still => geometry = X11!PlaceOf(geometry)

WindowTypes ==
  /\ layout \in {OneScreen, Aside, Stack} /\ screen \in DOMAIN layout
  /\ anchors \subseteq X11!Edge /\ {left, top} \subseteq Margins \cup {0}
  /\ zone \in SomeZones /\ preferred \in Lengths \cup {-1}

ServerTypes ==
  /\ asked \in Seq(X11!Rect) /\ geometry \in X11!Rect /\ timer \in BOOLEAN
  /\ strut \in [X11!Edge -> Int]

PlacesInv == WindowTypes /\ ServerTypes /\ AskedRight /\ X11!Fresh

LEMMA LayoutFacts ==
  ASSUME NEW l \in {OneScreen, Aside, Stack}
  PROVE  /\ DOMAIN l \subseteq {"s1", "s2"} /\ "s1" \in DOMAIN l
         /\ \A s \in DOMAIN l : l[s] \in X11!Rect
BY DEF OneScreen, Aside, Stack, Rect, X11!Rect

\* Half of a whole number is one.
LEMMA Halves == \A n \in Int : n \div 2 \in Int
  OBVIOUS

LEMMA PlaceType ==
  ASSUME WindowTypes, NEW r \in X11!Rect
  PROVE  X11!PlaceOf(r) \in X11!Rect
<1>1. layout[screen] \in X11!Rect
  BY LayoutFacts DEF WindowTypes
<1>2. left \in Int /\ top \in Int /\ preferred \in Int
  <2>1. Lengths \subseteq Int /\ Margins \subseteq Int
    BY LayersAssumption
  <2>2. left \in Margins \cup {0} /\ top \in Margins \cup {0} /\ preferred \in Lengths \cup {-1}
    BY DEF WindowTypes
  <2> QED
    BY <2>1, <2>2
<1>3. ASSUME NEW lo \in Int, NEW all \in Int, NEW near, NEW far, NEW margin \in Int, NEW len \in Int
      PROVE  /\ X11!Span(lo, all, near, far, margin, len).start \in Int
             /\ X11!Span(lo, all, near, far, margin, len).len \in Int
  BY Halves DEF X11!Span
<1> QED
  BY <1>1, <1>2, <1>3 DEF X11!PlaceOf, X11!Rect

LEMMA AskType == WindowTypes /\ geometry \in X11!Rect => X11!Ask \in Seq(X11!Rect)
<1> SUFFICES ASSUME WindowTypes, geometry \in X11!Rect PROVE X11!Ask \in Seq(X11!Rect)
  OBVIOUS
<1>1. X11!PlaceOf(geometry) \in X11!Rect
  BY PlaceType
<1> QED
  BY <1>1 DEF X11!Ask

\* What is asked for behind others.
LEMMA AskedBehind ==
  ASSUME NEW s \in Seq(X11!Rect), NEW t \in Seq(X11!Rect), NEW n \in 1..Len(t)
  PROVE  Len(s) + n \in 1..Len(s \o t) /\ (s \o t)[Len(s) + n] = t[n]
  OBVIOUS

\* A place that is asked for is another than the present one; when none is, it is right.
LEMMA AskedOnce ==
  (\A n \in 1..Len(X11!Ask) : X11!Ask[n] = geometry) => geometry = X11!PlaceOf(geometry)
<1> SUFFICES ASSUME \A n \in 1..Len(X11!Ask) : X11!Ask[n] = geometry
             PROVE  geometry = X11!PlaceOf(geometry)
  OBVIOUS
<1>1. CASE X11!PlaceOf(geometry) # geometry
  <2>1. X11!Ask = <<X11!PlaceOf(geometry)>>
    BY <1>1 DEF X11!Ask
  <2>2. 1 \in 1..Len(X11!Ask) /\ X11!Ask[1] = X11!PlaceOf(geometry)
    BY <2>1
  <2> QED
    BY <1>1, <2>2
<1> QED
  BY <1>1

\* Something changed, and the place was asked for.
LEMMA PositionAsked ==
  ASSUME asked \in Seq(X11!Rect), geometry \in X11!Rect, WindowTypes', geometry' = geometry,
         X11!PositionChanged
  PROVE  asked' \in Seq(X11!Rect) /\ AskedRight'
<1>1. X11!Ask' \in Seq(X11!Rect)
  <2>1. (WindowTypes /\ geometry \in X11!Rect => X11!Ask \in Seq(X11!Rect))'
    BY AskType, PTL
  <2> QED
    BY <2>1
<1>2. asked' = asked \o X11!Ask'
  BY DEF X11!PositionChanged
<1>3. asked' \in Seq(X11!Rect)
  BY <1>1, <1>2
<1>4. ASSUME Still' PROVE geometry' = X11!PlaceOf(geometry)'
  <2> DEFINE ask == X11!Ask'
  <2>1. \A n \in 1..Len(asked \o ask) : (asked \o ask)[n] = geometry'
    BY <1>2, <1>4 DEF Still
  <2>2. ask \in Seq(X11!Rect)
    BY <1>1
  <2> HIDE DEF ask
  <2>3. ASSUME NEW n \in 1..Len(ask) PROVE ask[n] = geometry'
    BY <2>1, <2>2, AskedBehind
  <2>4. ((\A n \in 1..Len(X11!Ask) : X11!Ask[n] = geometry) => geometry = X11!PlaceOf(geometry))'
    BY AskedOnce, PTL
  <2> QED
    BY <2>3, <2>4 DEF ask
<1> QED
  BY <1>3, <1>4 DEF AskedRight

-----------------------------------------------------------------------------
(* What is reserved is whole numbers, and ends at the zone.                  *)

\* The larger of at most two numbers.
LEMMA LargestOfTwo ==
  ASSUME NEW m \in Int, NEW n \in Int
  PROVE  X11!Max({m, n}) \in Int
<1>1. \E k \in {m, n} : \A l \in {m, n} : k >= l
  OBVIOUS
<1>2. X11!Max({m, n}) \in {m, n}
  BY <1>1 DEF X11!Max
<1> QED
  BY <1>2

LEMMA DesktopType ==
  WindowTypes => X11!DesktopRight \in Int /\ X11!DesktopBottom \in Int
<1> SUFFICES ASSUME WindowTypes PROVE X11!DesktopRight \in Int /\ X11!DesktopBottom \in Int
  OBVIOUS
<1>1. /\ DOMAIN layout \subseteq {"s1", "s2"} /\ "s1" \in DOMAIN layout
      /\ \A s \in DOMAIN layout : layout[s] \in X11!Rect
  BY LayoutFacts DEF WindowTypes
<1>2. PICK s \in DOMAIN layout : DOMAIN layout = {"s1", s}
  BY <1>1
<1>3. /\ X11!Right(layout["s1"]) \in Int /\ X11!Right(layout[s]) \in Int
      /\ X11!Bottom(layout["s1"]) \in Int /\ X11!Bottom(layout[s]) \in Int
  BY <1>1 DEF X11!Right, X11!Bottom, X11!Rect
<1>4. /\ {X11!Right(layout[t]) : t \in X11!Screens}
            = {X11!Right(layout["s1"]), X11!Right(layout[s])}
      /\ {X11!Bottom(layout[t]) : t \in X11!Screens}
            = {X11!Bottom(layout["s1"]), X11!Bottom(layout[s])}
  BY <1>2 DEF X11!Screens
<1> QED
  BY <1>3, <1>4, LargestOfTwo DEF X11!DesktopRight, X11!DesktopBottom

\* The heights of no screen, and of one.
LEMMA NoHeights == ASSUME NEW S, S = {} PROVE X11!MapThenSumSet(LAMBDA t : layout[t].h, S) = 0
<1> DEFINE Def(f, s) == IF s = {} THEN 0
                        ELSE LET x == CHOOSE y \in s : TRUE IN layout[x].h + f[s \ {x}]
           F == CHOOSE f : f = [s \in SUBSET S |-> Def(f, s)]
           g == [s \in SUBSET S |-> 0]
<1>1. g = [s \in SUBSET S |-> Def(g, s)]
  OBVIOUS
<1>2. F = [s \in SUBSET S |-> Def(F, s)]
  BY <1>1
<1>3. X11!MapThenSumSet(LAMBDA t : layout[t].h, S) = F[S]
  BY DEF X11!MapThenSumSet, X11!MapThenFoldSet
<1>4. F[S] = 0
  BY <1>2
<1> QED
  BY <1>3, <1>4

LEMMA OneHeight ==
  ASSUME NEW S, NEW one, S = {one}, layout[one].h \in Int
  PROVE  X11!MapThenSumSet(LAMBDA t : layout[t].h, S) = layout[one].h
<1> DEFINE Def(f, s) == IF s = {} THEN 0
                        ELSE LET x == CHOOSE y \in s : TRUE IN layout[x].h + f[s \ {x}]
           F == CHOOSE f : f = [s \in SUBSET S |-> Def(f, s)]
           g == [s \in SUBSET S |-> IF s = {} THEN 0 ELSE layout[one].h]
<1>1. g = [s \in SUBSET S |-> Def(g, s)]
  <2>1. ASSUME NEW s \in SUBSET S, s # {}
        PROVE  Def(g, s) = layout[one].h
    <3>1. s = {one}
      BY <2>1
    <3>2. (CHOOSE y \in s : TRUE) = one
      BY <3>1
    <3>3. s \ {one} = {} /\ g[{}] = 0
      BY <3>1
    <3>4. Def(g, s) = layout[one].h + g[s \ {one}]
      BY <2>1, <3>2
    <3> QED
      BY <3>3, <3>4
  <2> QED
    BY <2>1
<1>2. F = [s \in SUBSET S |-> Def(F, s)]
  BY <1>1
<1>3. X11!MapThenSumSet(LAMBDA t : layout[t].h, S) = F[S]
  BY DEF X11!MapThenSumSet, X11!MapThenFoldSet
<1>4. F[{}] = 0
  BY <1>2
<1>5. F[S] = layout[one].h + F[S \ {one}]
  <2>1. (CHOOSE y \in S : TRUE) = one /\ S # {} /\ S \in SUBSET S
    OBVIOUS
  <2>2. F[S] = Def(F, S)
    BY <1>2, <2>1
  <2> QED
    BY <2>1, <2>2
<1>6. F[S \ {one}] = 0
  <2>1. S \ {one} = {}
    OBVIOUS
  <2> QED
    BY <1>4, <2>1, Zenon
<1>7. F[S] = layout[one].h
  <2>1. layout[one].h + 0 = layout[one].h
    OBVIOUS
  <2> QED
    BY <1>5, <1>6, <2>1, Zenon
<1> QED
  BY <1>3, <1>7

\* There is at most one other screen, so at most one below.
HeightOfBelow ==
  /\ X11!BelowHeight \in Int
  /\ X11!Below = {} => X11!BelowHeight = X11!DesktopBottom - X11!Bottom(layout[screen])
  /\ \A t \in X11!Below :
       X11!BelowHeight = IF layout[t].h = 0
                         THEN X11!DesktopBottom - X11!Bottom(layout[screen])
                         ELSE layout[t].h

LEMMA BelowHeights == WindowTypes => HeightOfBelow
<1> SUFFICES ASSUME WindowTypes PROVE HeightOfBelow
  OBVIOUS
<1> DEFINE sum == X11!MapThenSumSet(LAMBDA t : layout[t].h, X11!Below)
<1>1. /\ DOMAIN layout \subseteq {"s1", "s2"} /\ screen \in DOMAIN layout
      /\ \A s \in DOMAIN layout : layout[s] \in X11!Rect
  BY LayoutFacts DEF WindowTypes
<1>2. X11!Below \subseteq DOMAIN layout \ {screen}
  BY DEF X11!Below, X11!Screens
<1>3. X11!BelowHeight = IF sum = 0 THEN X11!DesktopBottom - X11!Bottom(layout[screen]) ELSE sum
  BY DEF X11!BelowHeight
<1>4. X11!Bottom(layout[screen]) \in Int /\ X11!DesktopBottom \in Int
  BY <1>1, DesktopType DEF X11!Bottom, X11!Rect
<1>5. CASE X11!Below = {}
  <2>1. sum = 0
    BY <1>5, NoHeights
  <2> QED
    BY <1>3, <1>4, <1>5, <2>1 DEF HeightOfBelow
<1>6. ASSUME NEW t \in X11!Below
      PROVE  /\ X11!Below = {t} /\ layout[t].h \in Int
             /\ X11!BelowHeight = IF layout[t].h = 0
                                  THEN X11!DesktopBottom - X11!Bottom(layout[screen])
                                  ELSE layout[t].h
  <2>1. X11!Below = {t} /\ layout[t].h \in Int
    BY <1>1, <1>2 DEF X11!Rect
  <2>2. sum = layout[t].h
    BY <2>1, OneHeight
  <2> QED
    BY <1>3, <2>1, <2>2
<1> HIDE DEF sum
<1> QED
  BY <1>4, <1>5, <1>6 DEF HeightOfBelow

\* The window is at one edge at most.
LEMMA EdgesApart ==
  ASSUME anchors \subseteq X11!Edge
  PROVE  /\ X11!AtEdge("right", X11!Vertical) => ~X11!AtEdge("left", X11!Vertical)
         /\ X11!AtEdge("top", X11!Horizontal) =>
              ~X11!AtEdge("left", X11!Vertical) /\ ~X11!AtEdge("right", X11!Vertical)
         /\ X11!AtEdge("bottom", X11!Horizontal) =>
              /\ ~X11!AtEdge("left", X11!Vertical) /\ ~X11!AtEdge("right", X11!Vertical)
              /\ ~X11!AtEdge("top", X11!Horizontal)
<1>1. X11!AtEdge("left", X11!Vertical) =>
        "left" \in anchors /\ "right" \notin anchors /\ ("top" \in anchors <=> "bottom" \in anchors)
  BY DEF X11!AtEdge, X11!Vertical
<1>2. X11!AtEdge("right", X11!Vertical) =>
        "right" \in anchors /\ "left" \notin anchors /\ ("top" \in anchors <=> "bottom" \in anchors)
  BY DEF X11!AtEdge, X11!Vertical
<1>3. X11!AtEdge("top", X11!Horizontal) =>
        "top" \in anchors /\ "bottom" \notin anchors /\ ("left" \in anchors <=> "right" \in anchors)
  BY DEF X11!AtEdge, X11!Horizontal
<1>4. X11!AtEdge("bottom", X11!Horizontal) =>
        "bottom" \in anchors /\ "top" \notin anchors /\ ("left" \in anchors <=> "right" \in anchors)
  BY DEF X11!AtEdge, X11!Horizontal
<1> QED
  BY <1>1, <1>2, <1>3, <1>4

LEMMA StrutType ==
  ASSUME WindowTypes, strut \in [X11!Edge -> Int]
  PROVE  X11!Strut \in [X11!Edge -> Int]
<1>1. layout[screen] \in X11!Rect
  BY LayoutFacts DEF WindowTypes
<1>2. layout[screen].x \in Int /\ layout[screen].y \in Int /\ X11!Right(layout[screen]) \in Int
  BY <1>1 DEF X11!Rect, X11!Right
<1>3. X11!DesktopRight \in Int /\ X11!BelowHeight \in Int
  BY DesktopType, BelowHeights DEF HeightOfBelow
<1>4. zone \in Int
  BY DEF WindowTypes, SomeZones
<1>5. X11!NoStrut \in [X11!Edge -> Int]
  BY DEF X11!NoStrut
<1>6. ASSUME NEW e \in X11!Edge, NEW n \in Int
      PROVE  [X11!NoStrut EXCEPT ![e] = n + zone] \in [X11!Edge -> Int]
  BY <1>4, <1>5
<1>7. {"left", "right", "top", "bottom"} \subseteq X11!Edge
  BY DEF X11!Edge
<1> QED
  BY <1>2, <1>3, <1>5, <1>6, <1>7 DEF X11!Strut

\* What is reserved depends on the screens, the anchors and the zone only.
LEMMA StrutStays ==
  ASSUME WindowTypes, WindowTypes', UNCHANGED <<layout, screen, anchors, zone>>, zone >= 0
  PROVE  X11!Strut' = X11!Strut
<1>1. /\ X11!Below' = X11!Below /\ X11!DesktopRight' = X11!DesktopRight
      /\ X11!DesktopBottom' = X11!DesktopBottom
      /\ X11!Bottom(layout[screen])' = X11!Bottom(layout[screen])
  BY DEF X11!Screens, X11!Below, X11!DesktopRight, X11!DesktopBottom
<1>2. X11!BelowHeight' = X11!BelowHeight
  <2>1. HeightOfBelow
    BY BelowHeights
  <2>2. (WindowTypes => HeightOfBelow)'
    BY BelowHeights, PTL
  <2>3. HeightOfBelow'
    BY <2>2
  <2>4. CASE X11!Below = {}
    BY <1>1, <2>1, <2>3, <2>4 DEF HeightOfBelow
  <2>5. ASSUME NEW t \in X11!Below PROVE X11!BelowHeight' = X11!BelowHeight
    BY <1>1, <2>1, <2>3 DEF HeightOfBelow
  <2> QED
    BY <2>4, <2>5
<1>3. /\ X11!AtEdge("left", X11!Vertical)' = X11!AtEdge("left", X11!Vertical)
      /\ X11!AtEdge("right", X11!Vertical)' = X11!AtEdge("right", X11!Vertical)
      /\ X11!AtEdge("top", X11!Horizontal)' = X11!AtEdge("top", X11!Horizontal)
      /\ X11!AtEdge("bottom", X11!Horizontal)' = X11!AtEdge("bottom", X11!Horizontal)
  BY DEF X11!AtEdge
<1>4. /\ X11!Right(layout[screen])' = X11!Right(layout[screen])
      /\ layout'[screen'] = layout[screen] /\ zone' = zone /\ ~(zone < 0)
  BY DEF WindowTypes, SomeZones
<1> QED
  BY <1>1, <1>2, <1>3, <1>4, Zenon DEF X11!Strut

\* Nothing of it changed.
LEMMA FreshStays ==
  ASSUME PlacesInv, WindowTypes', UNCHANGED <<layout, screen, anchors, zone, strut>>,
         timer \in BOOLEAN, timer => timer'
  PROVE  X11!Fresh'
BY StrutStays DEF PlacesInv, X11!Fresh

\* setAnchors, the margins and the preferred size: the place is asked for.
LEMMA HintsStep ==
  ASSUME PlacesInv,
         \/ \E s \in SomeAnchors : X11!SetAnchors(s)
         \/ \E l, t \in Margins : X11!SetMargins(l, t)
         \/ \E n \in Lengths : X11!SetPreferredHeight(n)
  PROVE  PlacesInv'
<1>1. WindowTypes /\ ServerTypes
  BY DEF PlacesInv
<1>2. X11!PositionChanged /\ geometry' = geometry /\ strut' = strut
      /\ UNCHANGED <<layout, screen, zone>>
  BY DEF X11!SetAnchors, X11!SetMargins, X11!SetPreferredHeight, X11!world
<1>3. WindowTypes'
  <2>1. ASSUME NEW s \in SomeAnchors, X11!SetAnchors(s)
        PROVE  anchors' \subseteq X11!Edge /\ UNCHANGED <<left, top, preferred>>
    BY <2>1 DEF X11!SetAnchors, SomeAnchors, X11!Edge
  <2>2. ASSUME NEW l \in Margins, NEW t \in Margins, X11!SetMargins(l, t)
        PROVE  {left', top'} \subseteq Margins /\ UNCHANGED <<anchors, preferred>>
    BY <2>2 DEF X11!SetMargins
  <2>3. ASSUME NEW n \in Lengths, X11!SetPreferredHeight(n)
        PROVE  preferred' \in Lengths /\ UNCHANGED <<anchors, left, top>>
    BY <2>3 DEF X11!SetPreferredHeight
  <2>4. /\ anchors' \subseteq X11!Edge /\ preferred' \in Lengths \cup {-1}
        /\ {left', top'} \subseteq Margins \cup {0}
    BY <1>1, <2>1, <2>2, <2>3 DEF WindowTypes
  <2> QED
    BY <1>1, <1>2, <2>4 DEF WindowTypes
<1>4. asked' \in Seq(X11!Rect) /\ AskedRight'
  BY <1>1, <1>2, <1>3, PositionAsked DEF ServerTypes
<1>5. timer' \in BOOLEAN /\ X11!Fresh'
  <2>1. CASE \E s \in SomeAnchors : X11!SetAnchors(s)
    <3>1. timer' = TRUE
      BY <2>1 DEF X11!SetAnchors
    <3> QED
      BY <3>1 DEF X11!Fresh
  <2>2. CASE \/ \E l, t \in Margins : X11!SetMargins(l, t)
             \/ \E n \in Lengths : X11!SetPreferredHeight(n)
    <3>1. timer' = timer /\ anchors' = anchors
      BY <2>2 DEF X11!SetMargins, X11!SetPreferredHeight
    <3> QED
      BY <1>1, <1>2, <1>3, <3>1, FreshStays DEF ServerTypes
  <2> QED
    BY <2>1, <2>2
<1>6. ServerTypes'
  BY <1>1, <1>2, <1>4, <1>5 DEF ServerTypes
<1> QED
  BY <1>3, <1>4, <1>5, <1>6 DEF PlacesInv

\* Where the window belongs does not depend on the zone, nor on what is asked for.
LEMMA PlaceStays ==
  ASSUME UNCHANGED <<layout, screen, anchors, left, top, preferred, geometry>>
  PROVE  X11!PlaceOf(geometry)' = X11!PlaceOf(geometry)
BY DEF X11!PlaceOf

\* setExclusiveZone, and the timer.
LEMMA ZoneStep ==
  ASSUME PlacesInv, (\E z \in SomeZones : X11!SetExclusiveZone(z)) \/ X11!ExclusionZoneChanged
  PROVE  PlacesInv'
<1>1. WindowTypes /\ ServerTypes /\ AskedRight
  BY DEF PlacesInv
<1>2. UNCHANGED <<layout, screen, anchors, left, top, preferred, asked, geometry>>
  BY DEF X11!SetExclusiveZone, X11!ExclusionZoneChanged, X11!world, X11!hints
<1>3. AskedRight'
  BY <1>1, <1>2, PlaceStays DEF AskedRight, Still
<1>4. CASE \E z \in SomeZones : X11!SetExclusiveZone(z)
  <2>1. zone' \in SomeZones /\ timer' = TRUE /\ strut' = strut
    BY <1>4 DEF X11!SetExclusiveZone
  <2> QED
    BY <1>1, <1>2, <1>3, <2>1 DEF PlacesInv, WindowTypes, ServerTypes, X11!Fresh
<1>5. CASE X11!ExclusionZoneChanged
  <2>1. zone' = zone /\ timer' = FALSE /\ strut' = X11!Strut
    BY <1>5 DEF X11!ExclusionZoneChanged, X11!hints
  <2>2. strut' \in [X11!Edge -> Int]
    BY <1>1, <2>1, StrutType DEF ServerTypes
  <2>3. WindowTypes' /\ ServerTypes'
    BY <1>1, <1>2, <2>1, <2>2 DEF WindowTypes, ServerTypes
  <2>4. X11!Fresh'
    BY <1>1, <1>2, <2>1, <2>3, StrutStays DEF X11!Fresh
  <2> QED
    BY <1>3, <2>3, <2>4 DEF PlacesInv
<1> QED
  BY <1>4, <1>5

\* More is asked for.
LEMMA StillBefore ==
  ASSUME asked \in Seq(X11!Rect), NEW r, asked' = Append(asked, r), geometry' = geometry
  PROVE  Still' => Still
<1> SUFFICES ASSUME Still', NEW n \in 1..Len(asked) PROVE asked[n] = geometry
  BY DEF Still
<1>1. n \in 1..Len(asked') /\ asked'[n] = asked[n]
  OBVIOUS
<1> QED
  BY <1>1 DEF Still

\* The window is given a size, or is put elsewhere.
LEMMA AskingStep ==
  ASSUME PlacesInv, (\E n \in Lengths : X11!Resized(n)) \/ X11!Moved
  PROVE  PlacesInv'
<1>1. WindowTypes /\ ServerTypes /\ AskedRight /\ asked \in Seq(X11!Rect)
  BY DEF PlacesInv, ServerTypes
<1>2. UNCHANGED <<layout, screen, anchors, left, top, zone, preferred, geometry, timer, strut>>
  BY DEF X11!Resized, X11!Moved, X11!world, X11!hints
<1>3. PICK r \in X11!Rect : asked' = Append(asked, r)
  <2>1. geometry \in X11!Rect /\ X11!PlaceOf(geometry) \in X11!Rect
    BY <1>1, PlaceType DEF ServerTypes
  <2>2. ASSUME NEW n \in Lengths, X11!Resized(n)
        PROVE  \E r \in X11!Rect : asked' = Append(asked, r)
    <3>1. n \in Int
      BY LayersAssumption
    <3>2. [geometry EXCEPT !.w = n, !.h = n] \in X11!Rect
      BY <2>1, <3>1 DEF X11!Rect
    <3> QED
      BY <2>2, <3>2 DEF X11!Resized
  <2>3. ASSUME X11!Moved
        PROVE  \E r \in X11!Rect : asked' = Append(asked, r)
    <3>1. [X11!PlaceOf(geometry) EXCEPT !.x = @ + 1] \in X11!Rect
      BY <2>1 DEF X11!Rect
    <3> QED
      BY <2>3, <3>1 DEF X11!Moved
  <2> QED
    BY <2>2, <2>3
<1>4. asked' \in Seq(X11!Rect)
  BY <1>1, <1>3
<1>5. Still' => Still
  BY <1>1, <1>2, <1>3, StillBefore
<1>6. AskedRight'
  BY <1>1, <1>2, <1>5, PlaceStays DEF AskedRight
<1>7. WindowTypes' /\ ServerTypes'
  BY <1>1, <1>2, <1>4 DEF WindowTypes, ServerTypes
<1>8. X11!Fresh'
  BY <1>1, <1>2, <1>7, FreshStays DEF ServerTypes
<1> QED
  BY <1>6, <1>7, <1>8 DEF PlacesInv

\* The X server's answer.
LEMMA ConfiguredStep ==
  ASSUME PlacesInv, X11!Configured
  PROVE  PlacesInv'
<1> DEFINE r == Head(asked)
           rest == Tail(asked)
<1>1. WindowTypes /\ ServerTypes /\ AskedRight /\ asked \in Seq(X11!Rect) /\ timer \in BOOLEAN
  BY DEF PlacesInv, ServerTypes
<1>2. /\ asked # <<>> /\ geometry' = r /\ timer' \in BOOLEAN /\ (timer => timer')
      /\ UNCHANGED <<layout, screen, anchors, left, top, zone, preferred, strut>>
      /\ asked' = IF r = geometry THEN rest ELSE rest \o X11!Ask'
  BY <1>1 DEF X11!Configured, X11!world, X11!hints
<1>3. r \in X11!Rect /\ rest \in Seq(X11!Rect)
  BY <1>1, <1>2
<1>4. WindowTypes'
  BY <1>1, <1>2 DEF WindowTypes
<1>5. X11!Ask' \in Seq(X11!Rect)
  <2>1. (WindowTypes /\ geometry \in X11!Rect => X11!Ask \in Seq(X11!Rect))'
    BY AskType, PTL
  <2> QED
    BY <1>2, <1>3, <1>4, <2>1
<1>6. asked' \in Seq(X11!Rect)
  BY <1>2, <1>3, <1>5
<1>7. ServerTypes'
  BY <1>1, <1>2, <1>3, <1>6 DEF ServerTypes
<1>8. X11!Fresh'
  BY <1>1, <1>2, <1>4, FreshStays
<1>9. AskedRight'
  <2>1. CASE r = geometry
    <3>1. asked' = rest /\ geometry' = geometry
      BY <1>2, <2>1
    <3>2. Still' => Still
      <4> SUFFICES ASSUME Still', NEW n \in 1..Len(asked) PROVE asked[n] = geometry
        BY DEF Still
      <4>1. CASE n = 1
        BY <1>1, <1>2, <2>1, <4>1
      <4>2. CASE n # 1
        <5>1. n - 1 \in 1..Len(rest) /\ rest[n - 1] = asked[n]
          BY <1>1, <1>2, <4>2
        <5>2. \A k \in 1..Len(rest) : rest[k] = geometry
          BY <3>1 DEF Still
        <5> QED
          BY <5>1, <5>2
      <4> QED
        BY <4>1, <4>2
    <3> QED
      BY <1>1, <1>2, <3>1, <3>2, PlaceStays DEF AskedRight
  <2>2. CASE r # geometry
    <3> DEFINE ask == X11!Ask'
    <3>1. asked' = rest \o ask
      BY <1>2, <2>2
    <3>2. ask \in Seq(X11!Rect)
      BY <1>5
    <3>3. ((\A n \in 1..Len(X11!Ask) : X11!Ask[n] = geometry) => geometry = X11!PlaceOf(geometry))'
      BY AskedOnce, PTL
    <3>4. (\A n \in 1..Len(ask) : ask[n] = geometry') => (geometry = X11!PlaceOf(geometry))'
      BY <3>3
    <3> HIDE DEF ask, rest
    <3>5. Still' => \A n \in 1..Len(ask) : ask[n] = geometry'
      <4> SUFFICES ASSUME Still', NEW n \in 1..Len(ask) PROVE ask[n] = geometry'
        OBVIOUS
      <4>1. \A k \in 1..Len(rest \o ask) : (rest \o ask)[k] = geometry'
        BY <3>1 DEF Still
      <4>2. Len(rest) + n \in 1..Len(rest \o ask) /\ (rest \o ask)[Len(rest) + n] = ask[n]
        BY <1>3, <3>2, AskedBehind
      <4> QED
        BY <4>1, <4>2
    <3> QED
      BY <3>4, <3>5 DEF AskedRight
  <2> QED
    BY <2>1, <2>2
<1> QED
  BY <1>4, <1>7, <1>8, <1>9 DEF PlacesInv

\* The screens are rearranged, or the window goes to another.
LEMMA ScreensStep ==
  ASSUME PlacesInv,
         \/ \E new \in {OneScreen, Aside, Stack} : X11!ScreensChanged(new)
         \/ \E s \in X11!Screens : X11!ScreenChanged(s)
  PROVE  PlacesInv'
<1>1. WindowTypes /\ ServerTypes /\ AskedRight
  BY DEF PlacesInv
<1>2. UNCHANGED <<anchors, left, top, zone, preferred, geometry, strut>> /\ timer' = TRUE
  BY DEF X11!ScreensChanged, X11!ScreenChanged, X11!hints
<1>3. WindowTypes'
  <2>1. ASSUME NEW new \in {OneScreen, Aside, Stack}, X11!ScreensChanged(new)
        PROVE  layout' \in {OneScreen, Aside, Stack} /\ screen' \in DOMAIN layout'
    <3>1. "s1" \in DOMAIN new
      BY LayoutFacts
    <3>2. (CHOOSE s \in DOMAIN new : TRUE) \in DOMAIN new
      BY <3>1
    <3> QED
      BY <2>1, <3>2 DEF X11!ScreensChanged
  <2>2. ASSUME NEW s \in X11!Screens, X11!ScreenChanged(s)
        PROVE  layout' = layout /\ screen' \in DOMAIN layout
    BY <2>2 DEF X11!ScreenChanged, X11!Screens
  <2>3. layout' \in {OneScreen, Aside, Stack} /\ screen' \in DOMAIN layout'
    BY <1>1, <2>1, <2>2 DEF WindowTypes
  <2> QED
    BY <1>1, <1>2, <2>3 DEF WindowTypes
<1>4. CASE X11!PositionChanged
  <2>1. asked' \in Seq(X11!Rect) /\ AskedRight'
    BY <1>1, <1>2, <1>3, <1>4, PositionAsked DEF ServerTypes
  <2>2. ServerTypes'
    BY <1>1, <1>2, <2>1 DEF ServerTypes
  <2> QED
    BY <1>2, <1>3, <2>1, <2>2 DEF PlacesInv, X11!Fresh
<1>5. CASE ~X11!PositionChanged
  <2>1. PICK new \in {OneScreen, Aside, Stack} : X11!ScreensChanged(new)
    BY <1>5 DEF X11!ScreenChanged
  <2>2. /\ asked' = asked /\ layout' = new /\ screen' = screen
        /\ \A s \in DOMAIN new \cap DOMAIN layout : new[s] = layout[s]
    BY <1>5, <2>1 DEF X11!ScreensChanged
  <2>3. screen \in DOMAIN new \cap DOMAIN layout
    BY <1>1, <1>3, <2>2 DEF WindowTypes
  <2>4. layout'[screen'] = layout[screen]
    BY <2>2, <2>3
  <2>5. X11!PlaceOf(geometry)' = X11!PlaceOf(geometry)
    BY <1>2, <2>4 DEF X11!PlaceOf
  <2>6. AskedRight'
    BY <1>1, <1>2, <2>2, <2>5 DEF AskedRight, Still
  <2>7. ServerTypes'
    BY <1>1, <1>2, <2>2 DEF ServerTypes
  <2> QED
    BY <1>2, <1>3, <2>6, <2>7 DEF PlacesInv, X11!Fresh
<1> QED
  BY <1>4, <1>5

LEMMA PlacesStep == PlacesInv /\ [X11!Next]_X11!vars => PlacesInv'
<1> SUFFICES ASSUME PlacesInv, [X11!Next]_X11!vars PROVE PlacesInv'
  OBVIOUS
<1>1. CASE \/ \E s \in SomeAnchors : X11!SetAnchors(s)
           \/ \E l, t \in Margins : X11!SetMargins(l, t)
           \/ \E n \in Lengths : X11!SetPreferredHeight(n)
  BY <1>1, HintsStep
<1>2. CASE (\E z \in SomeZones : X11!SetExclusiveZone(z)) \/ X11!ExclusionZoneChanged
  BY <1>2, ZoneStep
<1>3. CASE (\E n \in Lengths : X11!Resized(n)) \/ X11!Moved
  BY <1>3, AskingStep
<1>4. CASE X11!Configured
  BY <1>4, ConfiguredStep
<1>5. CASE \/ \E new \in {OneScreen, Aside, Stack} : X11!ScreensChanged(new)
           \/ \E s \in X11!Screens : X11!ScreenChanged(s)
  BY <1>5, ScreensStep
<1>6. CASE UNCHANGED X11!vars
  <2>1. UNCHANGED <<layout, screen, anchors, left, top, zone, preferred, asked, geometry,
                    timer, strut>>
    BY <1>6 DEF X11!vars, X11!world, X11!hints
  <2>2. WindowTypes' /\ ServerTypes' /\ timer \in BOOLEAN
    BY <2>1 DEF PlacesInv, WindowTypes, ServerTypes
  <2>3. AskedRight'
    BY <2>1, PlaceStays DEF PlacesInv, AskedRight, Still
  <2>4. X11!Fresh'
    BY <2>1, <2>2, FreshStays
  <2> QED
    BY <2>2, <2>3, <2>4 DEF PlacesInv
<1> QED
  BY <1>1, <1>2, <1>3, <1>4, <1>5, <1>6 DEF X11!Next

LEMMA PlacesInit == X11!Init => PlacesInv
<1> SUFFICES ASSUME X11!Init PROVE PlacesInv
  OBVIOUS
<1>1. PICK n \in Lengths :
        geometry = [x |-> layout[screen].x + (layout[screen].w - n) \div 2,
                    y |-> layout[screen].y + (layout[screen].h - n) \div 2,
                    w |-> n, h |-> n]
  BY DEF X11!Init
<1>2. /\ layout \in {OneScreen, Aside, Stack} /\ screen \in DOMAIN layout
      /\ anchors = {} /\ left = 0 /\ top = 0 /\ zone = 0 /\ preferred = -1
      /\ asked = <<>> /\ timer = FALSE /\ strut = X11!NoStrut
  BY DEF X11!Init
<1>3. WindowTypes
  BY <1>2 DEF WindowTypes, SomeZones
<1>4. layout[screen] \in X11!Rect /\ n \in Int
  BY <1>2, LayoutFacts, LayersAssumption
<1>5. geometry \in X11!Rect
  BY <1>1, <1>4, Halves DEF X11!Rect
<1>6. ServerTypes
  <2>1. X11!NoStrut \in [X11!Edge -> Int]
    BY DEF X11!NoStrut
  <2>2. <<>> \in Seq(X11!Rect)
    OBVIOUS
  <2>3. asked \in Seq(X11!Rect)
    BY <1>2, <2>2, Zenon
  <2>4. timer \in BOOLEAN
    BY <1>2
  <2> QED
    BY <1>2, <1>5, <2>1, <2>3, <2>4 DEF ServerTypes
<1>7. geometry = X11!PlaceOf(geometry)
  BY <1>1, <1>2 DEF X11!PlaceOf, X11!Span
<1>8. X11!Strut = X11!NoStrut
  BY <1>2 DEF X11!Strut, X11!AtEdge
<1> QED
  BY <1>2, <1>3, <1>6, <1>7, <1>8 DEF PlacesInv, AskedRight, X11!Fresh

\* With no strip of its own but at the window's edge, what is reserved there is counted from
\* the edge of the desktop: below the window's screen lies nothing, or the one screen whose
\* lower edge is the desktop's.
LEMMA PlacesSound == PlacesInv => X11!LayerSound
<1> SUFFICES ASSUME PlacesInv PROVE X11!LayerSound
  OBVIOUS
<1> DEFINE here == layout[screen]
<1>1. WindowTypes /\ ServerTypes /\ AskedRight /\ X11!Fresh /\ anchors \subseteq X11!Edge
  BY DEF PlacesInv, WindowTypes
<1>2. /\ here \in X11!Rect /\ X11!Right(here) \in Int /\ X11!Bottom(here) \in Int
      /\ X11!DesktopRight \in Int /\ X11!DesktopBottom \in Int /\ zone \in Int
      /\ X11!BelowHeight \in Int
  <2>1. here \in X11!Rect
    BY <1>1, LayoutFacts DEF WindowTypes
  <2>2. zone \in Int
    BY <1>1 DEF WindowTypes, SomeZones
  <2> QED
    BY <1>1, <2>1, <2>2, DesktopType, BelowHeights
       DEF X11!Right, X11!Bottom, X11!Rect, HeightOfBelow
<1>3. X11!TypeOK
  BY <1>1 DEF X11!TypeOK, WindowTypes, ServerTypes
<1>4. X11!Placed
  BY <1>1 DEF X11!Placed, AskedRight, Still
<1>5. ASSUME ~timer, zone > 0
      PROVE  /\ strut = X11!Strut /\ zone >= 0 /\ ~(zone < 0)
             /\ \A e \in X11!Edge, n \in Int : [X11!NoStrut EXCEPT ![e] = n + zone][e] = n + zone
  <2>1. zone >= 0 /\ ~(zone < 0)
    BY <1>2, <1>5
  <2> QED
    BY <1>1, <1>5, <2>1 DEF X11!Fresh, X11!NoStrut
<1>6. X11!Exact("left")
  <2> SUFFICES ASSUME ~timer, zone > 0, X11!AtEdge("left", X11!Vertical)
               PROVE  strut.left = here.x + zone
    BY DEF X11!Exact, X11!Horizontal
  <2>1. strut = [X11!NoStrut EXCEPT !["left"] = here.x + zone]
    BY <1>5 DEF X11!Strut
  <2> QED
    BY <1>2, <1>5, <2>1 DEF X11!Rect, X11!Edge
<1>7. X11!Exact("right")
  <2> SUFFICES ASSUME ~timer, zone > 0, X11!AtEdge("right", X11!Vertical)
               PROVE  X11!DesktopRight - strut.right = X11!Right(here) - zone
    BY DEF X11!Exact, X11!Horizontal
  <2>1. strut = [X11!NoStrut EXCEPT !["right"] = (X11!DesktopRight - X11!Right(here)) + zone]
    BY <1>1, <1>5, EdgesApart DEF X11!Strut
  <2>2. X11!DesktopRight - X11!Right(here) \in Int /\ "right" \in X11!Edge
    BY <1>2 DEF X11!Edge
  <2>3. strut.right = (X11!DesktopRight - X11!Right(here)) + zone
    BY <1>5, <2>1, <2>2, Zenon
  <2> QED
    BY <1>2, <2>3
<1>8. X11!Exact("top")
  <2> SUFFICES ASSUME ~timer, zone > 0, X11!AtEdge("top", X11!Horizontal)
               PROVE  strut.top = here.y + zone
    BY DEF X11!Exact, X11!Horizontal
  <2>1. strut = [X11!NoStrut EXCEPT !["top"] = here.y + zone]
    BY <1>1, <1>5, EdgesApart DEF X11!Strut
  <2> QED
    BY <1>2, <1>5, <2>1 DEF X11!Rect, X11!Edge
<1>9. X11!Stacked => X11!Exact("bottom")
  <2> SUFFICES ASSUME X11!Stacked, ~timer, zone > 0, X11!AtEdge("bottom", X11!Horizontal)
               PROVE  X11!DesktopBottom - strut.bottom = X11!Bottom(here) - zone
    BY DEF X11!Exact, X11!Horizontal
  <2>1. strut = [X11!NoStrut EXCEPT !["bottom"] = X11!BelowHeight + zone]
    BY <1>1, <1>5, EdgesApart DEF X11!Strut
  <2>2. strut.bottom = X11!BelowHeight + zone
    <3>1. X11!BelowHeight \in Int /\ "bottom" \in X11!Edge
      BY <1>2 DEF X11!Edge
    <3> QED
      BY <1>5, <2>1, <3>1, Zenon
  <2>3. X11!BelowHeight = X11!DesktopBottom - X11!Bottom(here)
    <3>1. HeightOfBelow
      BY <1>1, BelowHeights
    <3>2. CASE X11!Below = {}
      BY <3>1, <3>2 DEF HeightOfBelow
    <3>3. ASSUME NEW t \in X11!Below
          PROVE  X11!BelowHeight = X11!DesktopBottom - X11!Bottom(here)
      <4>1. layout[t] \in X11!Rect
        BY <1>1, LayoutFacts DEF X11!Below, X11!Screens, WindowTypes
      <4>2. layout[t].y = X11!Bottom(here) /\ X11!Bottom(layout[t]) = X11!DesktopBottom
        BY DEF X11!Stacked, X11!Below
      <4>3. layout[t].h = X11!DesktopBottom - X11!Bottom(here)
        BY <1>2, <4>1, <4>2 DEF X11!Rect, X11!Bottom
      <4> QED
        BY <3>1, <4>3 DEF HeightOfBelow
    <3> QED
      BY <3>2, <3>3
  <2> QED
    BY <1>2, <2>2, <2>3
<1> QED
  BY <1>1, <1>3, <1>4, <1>6, <1>7, <1>8, <1>9 DEF X11!LayerSound

\* Of the window alone, on the three arrangements of screens, with any margins and lengths
\* and with whatever is asked for in between: once the X server has answered it stands where it
\* belongs.  With the timer idle and a positive zone the strip reserved is the zone's and
\* ends where it does; a strip at the bottom only where no other screen stands below the
\* window's, or one that is right below it and at the bottom.  Of a negative zone, which
\* leaves the strut of before, nothing is said.
THEOREM PlacesKeepSound == X11!Spec => []X11!LayerSound
  BY PlacesInit, PlacesStep, PlacesSound, PTL DEF X11!Spec

-----------------------------------------------------------------------------
(* The run's composition.                                                    *)

LEMMA PartsStepIsDocks ==
  [PartsNext]_<<part, vars, windowVars, groupVars, textVars, dockVars, x11Vars, waylandVars>>
    => [Dock!Next]_Dock!vars
BY DEF PartsNext, dockVars, Dock!vars, Dock!panel, Dock!drag

\* When nothing moves and nothing is to come, the dock is shown when the panel says so
\* and only then, all of it, at the panel's position; and a size that was dragged is
\* the panel's: for any positions and sizes, and any interleaving of timer, animations,
\* settings, menus and drags.
THEOREM PartsWindow == PartsSpec => []WindowFollows
<1>1. PartsInit => Dock!Init
  BY DEF PartsInit
<1>2. PartsSpec => Dock!Spec
  BY <1>1, PartsStepIsDocks, PTL DEF PartsSpec, Dock!Spec
<1> QED
  BY <1>2, WindowKeepsUp, PTL DEF WindowFollows

LEMMA PartsStepIsPlaces ==
  [PartsNext]_<<part, vars, windowVars, groupVars, textVars, dockVars, x11Vars, waylandVars>>
    => [X11!Next]_X11!vars
BY DEF PartsNext, x11Vars, X11!vars, X11!world, X11!hints

LEMMA PartsStepIsSurface ==
  [PartsNext]_<<part, vars, windowVars, groupVars, textVars, dockVars, x11Vars, waylandVars>>
    => [Wayland!Next]_Wayland!vars
BY DEF PartsNext, waylandVars, Wayland!vars, Wayland!world, Wayland!window, Wayland!surface

\* A window of the shell stands where it should on X11 once the server has answered, and its
\* strut is right with the same exceptions (a negative zone, other stacks of screens); under
\* Wayland its surface is sound: whatever is asked of the server or queued, and whatever
\* becomes of the screens meanwhile.
THEOREM PartsLayers == PartsSpec => []LayersSound
<1>1. PartsInit => X11!Init /\ Wayland!Init
  BY DEF PartsInit
<1>2. PartsSpec => X11!Spec
  BY <1>1, PartsStepIsPlaces, PTL DEF PartsSpec, X11!Spec
<1>3. PartsSpec => Wayland!Spec
  BY <1>1, PartsStepIsSurface, PTL DEF PartsSpec, Wayland!Spec
<1> QED
  BY <1>2, <1>3, PlacesKeepSound, SurfaceKeepsSound, PTL DEF LayersSound
=============================================================================
