-------------------------- MODULE MCTraySortOrder --------------------------
(***************************************************************************)
(* TraySortOrder, PanelPopups and PluginHost for TLC.  They share no state: a *)
(* behaviour is one of one of them, and what is not its part keeps its first  *)
(* value.                                                                     *)
(***************************************************************************)
EXTENDS TraySortOrder

CONSTANTS
  Parts,                                    \* those a run is about
  app, plug, clock, noSurface,
  Control, NoControl, MaxLater, MaxSettle,  \* PanelPopups
  Loader, PluginSurface, LoaderOf, TypeOf, Kept, KeptIfSet, MaxValue, \* PluginHost
  Request, Window, Token, NoRequest, NoToken, MaxRetries

\* That no popup is asked for is none of them.
ASSUME ControlAssumption == NoControl \notin Control

\* A surface is of one loader, no value is told in two ways, and none is no request.
ASSUME HostAssumption ==
  /\ LoaderOf \in [PluginSurface -> Loader] /\ Kept \cap KeptIfSet = {}
  /\ NoRequest \notin Request /\ NoToken \notin Token
  /\ MaxRetries \in Nat /\ MaxValue \in Nat

SomeSurfaces == {app, plug, clock}
\* An application's item, a plugin that can be set, and one of
\* the fixed plugins: what tray.qml hands to the model for each.
SomePrefers == (app :> "stashed") @@ (plug :> "collapsable") @@ (clock :> "fixed")
SomeForbids == (app :> {"fixed"}) @@ (plug :> {"fixed"}) @@
               (clock :> {"stashed", "collapsable", "pinned"})
JustPlug == {plug}
JustApp == {app}
SomeLeave == {plug}
\* An order saved when the clock was allowed in the stash.
SavedOrders ==
  {[sec \in {"stashed", "collapsable", "pinned"} |->
      IF sec = "stashed" THEN <<clock>> ELSE <<>>]}

\* Two loaders, the first with two surfaces.
Loaders == {"l1", "l2"}
Surfaces == {"s1", "s2", "s3"}
Owners == [s \in Surfaces |-> IF s = "s3" THEN "l2" ELSE "l1"]
Types == [s \in Surfaces |-> IF s = "s2" THEN "quick" ELSE "tray"]

VARIABLES
  part,
  visible, current, geometry, settle, focus, active, transition, openPending, grabPending,
  later, due, unfocused,
  loader, client, surfaces, lists, value, heard, asked, pending, moves, token, last, provider

popupVars == <<visible, current, geometry, settle, focus, active, transition, openPending,
               grabPending, later, due, unfocused>>

hostVars == <<loader, client, surfaces, lists, value, heard, asked, pending, moves,
              token, last, provider>>

Popups == INSTANCE PanelPopups
Host == INSTANCE PluginHost WITH Surface <- PluginSurface

PartsInit ==
  /\ part \in Parts /\ Init /\ Popups!Init /\ Host!Init

\* Surfaces, moves and tokens share nothing but the connections, so a behaviour uses one
\* of the three.  Moves need a surface, whosever, but not the dock's values.
Used ==
  /\ part = "surfaces" \/ ToSet(surfaces') \subseteq {"s1"}
  /\ part \in {"moves", "surfaces"} \/ UNCHANGED <<surfaces, lists, heard>>
  /\ part = "surfaces" \/ UNCHANGED value
  /\ part = "moves" \/ UNCHANGED <<asked, pending, moves>>
  /\ part = "tokens" \/ UNCHANGED <<token, last, provider>>

PartsNext ==
  /\ UNCHANGED part
  /\ \/ part = "tray" /\ Next /\ UNCHANGED <<popupVars, hostVars>>
     \/ part = "popups" /\ Popups!Next /\ UNCHANGED <<vars, hostVars>>
     \/ part \in {"surfaces", "moves", "tokens"} /\ Host!Next /\ Used
        /\ UNCHANGED <<vars, popupVars>>

PartsSpec ==
  /\ PartsInit
  /\ [][PartsNext]_<<part, vars, popupVars, hostVars>>
  /\ Host!Fairness

-----------------------------------------------------------------------------
(* The properties of the parts.                                              *)

\* Every item of the tray is in one place, under one number, and one popup at a time is
\* shown, for as long as it is asked for and has the focus.
TraySound == ListsSound /\ Popups!PopupsSound

\* The lists of surfaces agree, and what waits has something to wait for.
HostSound == Host!HostSound

\* A client with a surface knows the dock's values.
HeardCurrent == Host!HeardCurrent

\* A loader that crashed runs again, and each request is answered, in the end.
Answered == Host!Answered
=============================================================================
