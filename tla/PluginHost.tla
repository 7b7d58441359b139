----------------------------- MODULE PluginHost -----------------------------
(***************************************************************************)
(* The dock as host of tray plugins: the loader processes (LoadTrayPlugins),  *)
(* the Wayland extension they speak (PluginManager) with the lists of surfaces *)
(* in DockCompositor.qml, the moves of XEmbed windows, and the activation      *)
(* tokens (XdgActivationManager over ds::XdgActivation).                       *)
(***************************************************************************)
EXTENDS Lists

CONSTANTS
  Loader,      \* groups of plugins: a process and a Wayland client each
  Surface,     \* the plugin surfaces they may create
  LoaderOf,    \* whose a surface is
  TypeOf,      \* "tray", "quick", "fixed", or a type without a list
  Kept,        \* values every surface's client is told: position, colour theme
  KeptIfSet,   \* values that are told unless 0 (empty): dock size, popup height
  MaxValue,    \* bound: their values
  Request,     \* moves of XEmbed windows that are asked for
  Window,      \* XEmbed windows
  Token,       \* activation tokens
  NoRequest, NoToken,
  MaxRetries   \* m_maxRetries

VARIABLES
  loader,   \* [Loader -> state], with retryCount
  client,   \* loaders the compositor has a connection with
  surfaces, \* m_pluginSurfaces
  lists,    \* the three lists of DockCompositor
  value,    \* the dock's values
  heard,    \* the ones each client was told, -1 if none
  asked,    \* requests: who asked, for which window, and what became of them
  pending,  \* m_pendingXEmbedCallbacks
  moves,    \* requests whose wl_callback is under way
  token,    \* tokens: whose, and how far
  last,     \* m_pendingToken
  provider  \* a request for a token is under way in the outer compositor

procVars  == <<loader, client>>
surfVars  == <<surfaces, lists, value, heard>>
moveVars  == <<asked, pending, moves>>
tokenVars == <<token, last, provider>>
vars == <<procVars, surfVars, moveVars, tokenVars>>

Listed == {"tray", "quick", "fixed"}
Value == Kept \cup KeptIfSet
Unheard == [v \in Value |-> -1]

-----------------------------------------------------------------------------
(* PluginManager and the lists of surfaces                                   *)

ClientsOf(list) == {LoaderOf[s] : s \in ToSet(list)}

\* sendEventMsg leaves an empty message out.
Sent(told, v, n) == IF v \in KeptIfSet /\ n = 0 THEN told ELSE [told EXCEPT ![v] = n]

\* Defect: only the client of the newest surface is told.
TellNewest(v, n) ==
  [l \in Loader |-> IF surfaces # <<>> /\ LoaderOf[Last(surfaces)] = l
                    THEN Sent(heard[l], v, n) ELSE heard[l]]

\* The client of every surface is told.
Tell(v, n) ==
  [l \in Loader |-> IF l \in ClientsOf(surfaces) THEN Sent(heard[l], v, n) ELSE heard[l]]

\* setDockPosition, setDockColorTheme, setDockSize, setEmbedPanelMinHeight.
SetValue(v, n) ==
  /\ value[v] # n
  /\ value' = [value EXCEPT ![v] = n]
  /\ heard' = Tell(v, n)
  /\ UNCHANGED <<surfaces, lists, procVars, moveVars, tokenVars>>

\* create_plugin: the client is told all values.
CreatePlugin(s) ==
  LET l == LoaderOf[s]
  IN  /\ l \in client /\ ~Contains(surfaces, s)
      /\ heard' = [heard EXCEPT ![l] =
                     [v \in Value |-> Sent(@, v, value[v])[v]]]
      /\ surfaces' = Append(surfaces, s)
      /\ lists' = IF TypeOf[s] \in Listed THEN [lists EXCEPT ![TypeOf[s]] = Append(@, s)] ELSE lists
      /\ UNCHANGED <<value, procVars, moveVars, tokenVars>>

\* removePluginSurface, the lists first.
Removed(gone) ==
  /\ surfaces' = Only(surfaces, Surface \ gone)
  /\ lists' = [t \in Listed |-> Only(lists[t], Surface \ gone)]

DestroyPlugin(s) ==
  /\ Contains(surfaces, s) /\ Removed({s})
  /\ UNCHANGED <<value, heard, procVars, moveVars, tokenVars>>

-----------------------------------------------------------------------------
(* LoadTrayPlugins                                                           *)

MayRetry(l) == loader[l].retryCount < MaxRetries

Becomes(l, state) == loader' = [loader EXCEPT ![l].state = state]

\* A loader crashes; or it exits, or is killed or terminated.
Dies(l, how) ==
  /\ loader[l].state = "runs" /\ Becomes(l, how)
  /\ UNCHANGED <<client, surfVars, moveVars, tokenVars>>

\* handleProcessFinished: only a crash is followed by another start.
HandleProcessFinished(l) ==
  /\ loader[l].state \in {"crashed", "ended"}
  /\ IF loader[l].state = "ended" THEN Becomes(l, "left")
     ELSE IF MayRetry(l)
     THEN loader' = [loader EXCEPT ![l] = [state |-> "retries", retryCount |-> @.retryCount + 1]]
     ELSE Becomes(l, "erased")
  /\ UNCHANGED <<client, surfVars, moveVars, tokenVars>>

\* The compositor sees the connection closed: the resources are destroyed, and
\* with them the surfaces.  Entries of m_pendingXEmbedCallbacks and the pending
\* token stay.
Disconnected(l) ==
  /\ l \in client /\ loader[l].state # "runs"
  /\ client' = client \ {l}
  /\ Removed({s \in Surface : LoaderOf[s] = l})
  /\ heard' = [heard EXCEPT ![l] = Unheard]
  /\ asked' = [r \in Request |-> IF asked[r].state = "waits" /\ asked[r].by = l
                                 THEN [asked[r] EXCEPT !.state = "gone"] ELSE asked[r]]
  /\ token' = [t \in Token |-> IF token[t].of = l /\ token[t].state # "destroyed"
                               THEN [token[t] EXCEPT !.state = "gone"] ELSE token[t]]
  /\ UNCHANGED <<loader, value, pending, moves, last, provider>>

\* A second later; the closed connection was seen long before.  The start may fail,
\* of which nothing is heard.
Retry(l, works) ==
  /\ loader[l].state = "retries" /\ l \notin client
  /\ Becomes(l, IF works THEN "runs" ELSE "left")
  /\ client' = IF works THEN client \cup {l} ELSE client
  /\ UNCHANGED <<surfVars, moveVars, tokenVars>>

-----------------------------------------------------------------------------
(* Moves of XEmbed windows                                                   *)

\* notifyXEmbedWindowMoveResult: whoever asked last for the window is told, if it
\* is still there.  Where it is gone, the code reads a freed resource; of what that
\* can do the model has that nobody is told.
Notified(who, w, p) ==
  IF p[w] # NoRequest /\ who[p[w]].state = "waits"
  THEN [who EXCEPT ![p[w]].state = "answered"] ELSE who

\* Who was to be answered gives way: its callback is forgotten.
Overwritten(who, old, none) ==
  IF old = none THEN who ELSE [who EXCEPT ![old].state = "overwritten"]

\* Defect: a move that cannot be asked for is not answered.
RefusedForgotten(who, p, w) == asked' = who /\ pending' = p

\* The handler is not there, is not ready, or gets no wl_callback.
Refused(who, p, w) ==
  asked' = Notified(who, w, p) /\ pending' = [p EXCEPT ![w] = NoRequest]

\* move_xembed_window by a client, for a surface it has or not.
MoveXEmbedWindow(l, r, w) ==
  LET by(who, state) == [who EXCEPT ![r] = [by |-> l, window |-> w, state |-> state]]
      waits  == by(Overwritten(asked, pending[w], NoRequest), "waits")
      stored == [pending EXCEPT ![w] = r]
  IN  /\ l \in client /\ asked[r].state = "none"
      /\ \/ asked' = by(asked, "answered") /\ UNCHANGED <<pending, moves>>
         \/ /\ surfaces # <<>>
            /\ \/ Refused(waits, stored, w) /\ moves' = moves
               \/ asked' = waits /\ pending' = stored /\ moves' = moves \cup {r}
      /\ UNCHANGED <<procVars, surfVars, tokenVars>>

\* The wl_callback of r is done.
XEmbedWindowMoveResult(r) ==
  LET w == asked[r].window
  IN  /\ r \in moves /\ moves' = moves \ {r}
      /\ asked' = Notified(asked, w, pending)
      /\ pending' = [pending EXCEPT ![w] = NoRequest]
      /\ UNCHANGED <<procVars, surfVars, tokenVars>>

-----------------------------------------------------------------------------
(* Activation tokens                                                         *)

GetActivationToken(l, t) ==
  /\ l \in client /\ token[t].state = "none"
  /\ token' = [token EXCEPT ![t] = [of |-> l, state |-> "made"]]
  /\ UNCHANGED <<last, provider, procVars, surfVars, moveVars>>

\* send_done, which does nothing without a resource.
Done(t) ==
  IF t # NoToken /\ token[t].state = "committed" THEN [token EXCEPT ![t].state = "done"] ELSE token

\* Defect: without an outer compositor nothing is told.
NoTokenSilent(t) == /\ token' = [token EXCEPT ![t].state = "committed"]
                    /\ last' = t

\* tokenReady({}), at once: no activation protocol, or no window.
NoTokenReady(t) == /\ token' = [token EXCEPT ![t].state = "done"]
                   /\ last' = NoToken

\* commit: a request that is under way already will do.
Commit(t) ==
  /\ token[t].state = "made" /\ token[t].of \in client
  /\ \/ ~provider /\ NoTokenReady(t) /\ UNCHANGED provider
     \/ /\ token' = [Overwritten(token, last, NoToken) EXCEPT ![t].state = "committed"]
        /\ last' = t /\ provider' = TRUE
  /\ UNCHANGED <<procVars, surfVars, moveVars>>

\* The outer compositor's done, forwarded to the token that was committed last.
TokenReady ==
  /\ provider /\ provider' = FALSE
  /\ token' = Done(last) /\ last' = NoToken
  /\ UNCHANGED <<procVars, surfVars, moveVars>>

\* clearPendingTokenIf
ForgetIf(t) == last' = IF last = t THEN NoToken ELSE last

\* The client destroys a token, and the object goes.
DestroyToken(t) ==
  /\ token[t].state \in {"made", "committed", "overwritten", "done"}
  /\ token[t].of \in client
  /\ token' = [token EXCEPT ![t].state = "destroyed"]
  /\ ForgetIf(t)
  /\ UNCHANGED <<provider, procVars, surfVars, moveVars>>

-----------------------------------------------------------------------------
Init ==
  /\ loader = [l \in Loader |-> [state |-> "runs", retryCount |-> 0]]
  /\ client = Loader
  /\ surfaces = <<>> /\ lists = [t \in Listed |-> <<>>]
  /\ value = [v \in Value |-> 0] /\ heard = [l \in Loader |-> Unheard]
  /\ asked = [r \in Request |-> [state |-> "none"]]
  /\ pending = [w \in Window |-> NoRequest] /\ moves = {}
  /\ token = [t \in Token |-> [of |-> NoToken, state |-> "none"]]
  /\ last = NoToken /\ provider = FALSE

Next ==
  \/ \E v \in Value, n \in 0..MaxValue : SetValue(v, n)
  \/ \E s \in Surface : CreatePlugin(s) \/ DestroyPlugin(s)
  \/ \E l \in Loader :
       \/ HandleProcessFinished(l) \/ Disconnected(l)
       \/ \E how \in {"crashed", "ended"} : Dies(l, how)
       \/ \E works \in BOOLEAN : Retry(l, works)
       \/ \E r \in Request, w \in Window : MoveXEmbedWindow(l, r, w)
       \/ \E t \in Token : GetActivationToken(l, t)
  \/ \E r \in Request : XEmbedWindowMoveResult(r)
  \/ \E t \in Token : Commit(t) \/ DestroyToken(t)
  \/ TokenReady

\* The event loop runs what is due; both compositors answer.
Fairness ==
  /\ \A l \in Loader : /\ WF_vars(HandleProcessFinished(l)) /\ WF_vars(Disconnected(l))
                       /\ WF_vars(\E works \in BOOLEAN : Retry(l, works))
  /\ \A r \in Request : WF_vars(XEmbedWindowMoveResult(r))
  /\ WF_vars(TokenReady)

Spec == Init /\ [][Next]_vars /\ Fairness

-----------------------------------------------------------------------------
(* Properties.                                                               *)

States == {"runs", "crashed", "ended", "retries", "left", "erased"}

\* Every variable keeps its type; a loader is started again MaxRetries times at most.
TypeOK ==
  /\ loader \in [Loader -> [state : States, retryCount : 0..MaxRetries]]
  /\ client \subseteq Loader /\ surfaces \in Seq(Surface)
  /\ lists \in [Listed -> Seq(Surface)]
  /\ value \in [Value -> 0..MaxValue] /\ heard \in [Loader -> [Value -> -1..MaxValue]]
  /\ pending \in [Window -> Request \cup {NoRequest}] /\ moves \subseteq Request
  /\ last \in Token \cup {NoToken} /\ provider \in BOOLEAN

\* A client with a surface knows the dock's values, however its surfaces came and
\* went and the values changed; an empty size or height it is never told.
HeardCurrent ==
  \A l \in ClientsOf(surfaces), v \in Value :
    heard[l][v] = value[v] \/ (v \in KeptIfSet /\ value[v] = 0)

\* The lists that the tray is made of hold the surfaces that exist, whatever
\* process died, in the order of their creation.
ListsAgree ==
  /\ \A t \in Listed : lists[t] = Only(surfaces, {s \in Surface : TypeOf[s] = t})
  /\ ClientsOf(surfaces) \subseteq client

\* An entry of m_pendingXEmbedCallbacks is the request of a move that is under way:
\* none stays behind that a later result would answer.
WaitsForMove == \A w \in Window : pending[w] # NoRequest => pending[w] \in moves

\* The pending token waits for a request that is under way, and its object was not
\* deleted.
WaitsForToken ==
  last # NoToken => provider /\ token[last].state \in {"committed", "gone"}

\* A crashed loader that may be started again is: it runs, or its start failed.
RunsAgain ==
  \A l \in Loader : loader[l].state = "crashed" /\ loader[l].retryCount < MaxRetries
                      ~> loader[l].state \in {"runs", "left"}

\* The client that asks for a move, and the one that commits a token, is itself told,
\* whatever is asked meanwhile for other windows, refused, committed or destroyed by
\* others, unless it goes, or asks or commits again before the answer.
EachIsAnswered ==
  /\ \A r \in Request :
       asked[r].state = "waits" ~> asked[r].state \in {"answered", "overwritten", "gone"}
  /\ \A t \in Token :
       token[t].state = "committed"
         ~> token[t].state \in {"done", "overwritten", "destroyed", "gone"}

\* The lists of surfaces agree, and what waits has something to wait for.
HostSound == TypeOK /\ ListsAgree /\ WaitsForMove /\ WaitsForToken

\* A loader that crashed runs again, and each request is answered, in the end.
Answered == RunsAgain /\ EachIsAnswered
=============================================================================
