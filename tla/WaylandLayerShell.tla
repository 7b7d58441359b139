------------------------- MODULE WaylandLayerShell -------------------------
(***************************************************************************)
(* A layer surface under Wayland: frame/layershell/qwaylandlayershellsurface.cpp *)
(* with the setters of dlayershellwindow.cpp.                                  *)
(*                                                                           *)
(* What is sent counts when the surface is committed: by a queued flushCommit, or  *)
(* by a frame of Qt's at any time.  A window that goes to another output gets a    *)
(* new surface, in two queued steps.  The zone stands for the margins, the layer,    *)
(* the keyboard and the mask, which are sent alike.  The address of an output that   *)
(* was unplugged is not used again while the surface remembers it.              *)
(***************************************************************************)
EXTENDS Naturals

CONSTANTS
  Output,     \* wl_output
  NoOutput,   \* none: the placeholder screen, or the compositor's choice
  Anchorings, \* the sets of anchors that are tried
  Zones,
  Lengths     \* widths and heights, positive

VARIABLES
  outputs, screen,          \* what is plugged in, and where the window is
  anchors, zone, size,      \* of the window
  alive,                    \* the surface object is there
  request,                  \* m_requestSize
  sent, committed,          \* what the compositor was sent, and what counts for it
  commitScheduled,          \* m_commitScheduled
  output, bound,            \* m_output, and what get_layer_surface was given
  recreate,                 \* "no", "scheduled", or "reset": reinit is queued
  configured,               \* m_configured
  closed,                   \* the compositor closed the surface: "no", "sent", "heard"
  closeOnDismissed, open    \* the window closes then; it has not

world   == <<outputs, screen>>
window  == <<anchors, zone, size, closeOnDismissed, open>>
surface == <<alive, request, sent, committed, commitScheduled, output, bound, recreate,
             configured, closed>>
vars    == <<world, window, surface>>

SurfaceSizes == [w : Lengths, h : Lengths]
Nothing == [anchors |-> {}, zone |-> 0, w |-> 0, h |-> 0]

-----------------------------------------------------------------------------
(* The surface.                                                              *)

Across(s) == {"left", "right"} \subseteq s
Down(s)   == {"top", "bottom"} \subseteq s

\* calcAndSetRequestSize: the compositor chooses where the window spans the output.
RequestFor(z, s) == [w |-> IF Across(s) THEN 0 ELSE z.w, h |-> IF Down(s) THEN 0 ELSE z.h]

\* Defect: the anchors are sent whatever was asked for.
NoConflict(s, r) == FALSE

AnchorsSizeConflict(s, r) == (~Across(s) /\ r.w = 0) \/ (~Down(s) /\ r.h = 0)

\* trySetAnchorsAndSize, for the anchors s and the size r.
TrySetAnchorsAndSize(s, r) ==
  IF AnchorsSizeConflict(s, r) THEN UNCHANGED <<sent, commitScheduled>>
  ELSE sent' = [sent EXCEPT !.anchors = s, !.w = r.w, !.h = r.h] /\ commitScheduled' = TRUE

\* The constructor: everything is sent once.
Construct ==
  /\ alive' = TRUE /\ configured' = FALSE /\ closed' = "no"
  /\ output' = screen /\ bound' = screen
  /\ request' = RequestFor(size, anchors)
  /\ sent' = [anchors |-> anchors, zone |-> zone, w |-> request'.w, h |-> request'.h]
  /\ committed' = Nothing /\ commitScheduled' = TRUE

-----------------------------------------------------------------------------
(* The window changes.                                                       *)

\* The object is gone between reset and reinit: nothing hears the window.
SetAnchors(s) ==
  /\ open /\ s # anchors /\ anchors' = s
  /\ IF alive THEN TrySetAnchorsAndSize(s, request) ELSE UNCHANGED <<sent, commitScheduled>>
  /\ UNCHANGED <<world, zone, size, closeOnDismissed, open, alive, request, committed,
                 output, bound, recreate, configured, closed>>

SetExclusiveZone(z) ==
  /\ open /\ z # zone /\ zone' = z
  /\ IF alive THEN sent' = [sent EXCEPT !.zone = z] /\ commitScheduled' = TRUE
     ELSE UNCHANGED <<sent, commitScheduled>>
  /\ UNCHANGED <<world, anchors, size, closeOnDismissed, open, alive, request, committed,
                 output, bound, recreate, configured, closed>>

SetWindowGeometry(z) ==
  /\ size' = z
  /\ IF alive THEN /\ request' = RequestFor(z, anchors)
                   /\ TrySetAnchorsAndSize(anchors, request')
     ELSE UNCHANGED <<request, sent, commitScheduled>>
  /\ UNCHANGED <<world, anchors, zone, closeOnDismissed, open, alive, committed, output,
                 bound, recreate>>

Resize(z) == open /\ z # size /\ SetWindowGeometry(z) /\ UNCHANGED <<configured, closed>>

FlushCommit ==
  /\ alive /\ commitScheduled /\ commitScheduled' = FALSE /\ committed' = sent
  /\ UNCHANGED <<world, window, alive, request, sent, output, bound, recreate, configured,
                 closed>>

\* Qt draws the window.
Frame ==
  /\ alive /\ open /\ configured /\ committed' = sent
  /\ UNCHANGED <<world, window, alive, request, sent, commitScheduled, output, bound,
                 recreate, configured, closed>>

-----------------------------------------------------------------------------
(* The compositor and the outputs.                                           *)

\* The first configure resizes at once, a later one when Qt gets to it.
Configure(z) ==
  /\ alive /\ open /\ closed = "no" /\ committed # Nothing
  /\ configured' = TRUE /\ SetWindowGeometry(z) /\ UNCHANGED closed

\* Defect: a change while one is scheduled moves the surface's output, too late.
ScheduleRecreateTwice(s) ==
  IF ~alive \/ s \in {NoOutput, output} THEN UNCHANGED <<output, recreate>>
  ELSE output' = s /\ recreate' = IF recreate = "no" THEN "scheduled" ELSE "no"

\* scheduleRecreate, with the window on s.
ScheduleRecreate(s) ==
  IF ~alive \/ s = NoOutput \/ s = output \/ recreate # "no"
  THEN UNCHANGED <<output, recreate>>
  ELSE output' = s /\ recreate' = "scheduled"

ScreenChanged(s) ==
  /\ open /\ s # screen /\ screen' = s /\ ScheduleRecreate(s)
  /\ UNCHANGED <<outputs, window, alive, request, sent, committed, commitScheduled, bound,
                 configured, closed>>

Plug(o) ==
  /\ o \notin outputs \cup {output, bound} /\ outputs' = outputs \cup {o}
  /\ screen' = IF screen = NoOutput THEN o ELSE screen
  /\ IF screen = NoOutput THEN ScheduleRecreate(o) ELSE UNCHANGED <<output, recreate>>
  /\ UNCHANGED <<window, alive, request, sent, committed, commitScheduled, bound,
                 configured, closed>>

\* Qt moves the window; the compositor closes what was on the output.
Unplug(o) ==
  /\ o \in outputs /\ outputs' = outputs \ {o}
  /\ screen' \in IF screen # o THEN {screen}
                 ELSE IF outputs' = {} THEN {NoOutput} ELSE outputs'
  /\ IF screen = o /\ open THEN ScheduleRecreate(screen') ELSE UNCHANGED <<output, recreate>>
  /\ closed' = IF alive /\ bound = o /\ closed = "no" THEN "sent" ELSE closed
  /\ UNCHANGED <<window, alive, request, sent, committed, commitScheduled, bound,
                 configured>>

Closed ==
  /\ closed = "sent" /\ closed' = "heard" /\ open' = (open /\ ~closeOnDismissed)
  /\ UNCHANGED <<world, anchors, zone, size, closeOnDismissed, alive, request, sent,
                 committed, commitScheduled, output, bound, recreate, configured>>

\* flushRecreate: QWaylandWindow::reset deletes the surface, with what is queued for it.
FlushRecreate ==
  /\ recreate = "scheduled" /\ recreate' = "reset"
  /\ alive' = FALSE /\ commitScheduled' = FALSE /\ closed' = "no"
  /\ UNCHANGED <<world, window, request, sent, committed, output, bound, configured>>

Reinit ==
  /\ recreate = "reset" /\ recreate' = "no" /\ UNCHANGED <<world, window>>
  /\ IF open THEN Construct
     ELSE UNCHANGED <<alive, request, sent, committed, commitScheduled, output, bound,
                      configured, closed>>

Init ==
  /\ outputs \in SUBSET Output /\ outputs # {} /\ screen \in outputs
  /\ anchors \in Anchorings /\ zone \in Zones /\ size \in SurfaceSizes
  /\ closeOnDismissed \in BOOLEAN /\ open = TRUE /\ recreate = "no"
  /\ alive = TRUE /\ configured = FALSE /\ closed = "no" /\ output = screen /\ bound = screen
  /\ request = RequestFor(size, anchors)
  /\ sent = [anchors |-> anchors, zone |-> zone, w |-> request.w, h |-> request.h]
  /\ committed = Nothing /\ commitScheduled = TRUE

Next ==
  \/ \E s \in Anchorings : SetAnchors(s)
  \/ \E z \in Zones : SetExclusiveZone(z)
  \/ \E z \in SurfaceSizes : Resize(z) \/ Configure(z)
  \/ \E o \in outputs : ScreenChanged(o)
  \/ \E o \in Output : Plug(o) \/ Unplug(o)
  \/ FlushCommit \/ Frame \/ Closed \/ FlushRecreate \/ Reinit

Spec == Init /\ [][Next]_vars

-----------------------------------------------------------------------------
(* Properties.                                                               *)

\* Every variable keeps its type; there is no surface only while it is made anew.
TypeOK ==
  /\ outputs \subseteq Output /\ screen \in outputs \cup {NoOutput}
  /\ {output, bound} \subseteq Output \cup {NoOutput}
  /\ recreate \in {"no", "scheduled", "reset"} /\ closed \in {"no", "sent", "heard"}
  /\ {sent.anchors, committed.anchors} \subseteq Anchorings \cup {{}}
  /\ open => (alive <=> recreate # "reset")

\* What counts for the compositor is legal: it is left to choose a length only where the
\* window spans the output.
Legal ==
  alive /\ committed # Nothing =>
    /\ committed.w = 0 => Across(committed.anchors)
    /\ committed.h = 0 => Down(committed.anchors)

\* When no commit is under way the compositor has what the window wants; only the anchors
\* may wait, for the size that goes with them.
Committed ==
  alive /\ ~commitScheduled =>
    /\ committed = sent /\ sent.zone = zone
    /\ sent.anchors = anchors \/ AnchorsSizeConflict(anchors, request)

\* When nothing is queued, the surface is on the window's output and the compositor shows
\* it there, however the outputs came and went.
OnOutput ==
  open /\ recreate = "no" /\ screen # NoOutput /\ closed # "sent" =>
    bound = screen /\ closed = "no"

\* The surface has what the window wants, where the window is.
SurfaceSound == TypeOK /\ Legal /\ Committed /\ OnOutput
=============================================================================
