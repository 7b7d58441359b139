------------------------- MODULE NotificationSystem -------------------------
(***************************************************************************)
(* The notification server and the banners together.  The server announces   *)
(* changes by NotificationStateChanged: from the worker thread they reach    *)
(* the panel through the main thread's event queue, from calls of the main   *)
(* thread at once.  The panel calls the server directly.                     *)
(*                                                                           *)
(* A banner holds the NotifyEntity it was made from, which is the server's   *)
(* own shared object: its id and type change under the banner.               *)
(***************************************************************************)
EXTENDS NotificationManager

CONSTANTS
  BubbleCounts,  \* values of the setting bubbleCount
  MaxWaiting,    \* bound: banners in the queue of BubbleModel
  MaxHiding,     \* bound: hide timers under way
  MaxEvents      \* bound: announcements in the event queue

ASSUME PanelAssumption ==
  /\ BubbleCounts # {} /\ BubbleCounts \subseteq Nat \ {0}
  /\ MaxWaiting \in Nat /\ MaxHiding \in Nat

VARIABLES bubbles, waiting, busy, maxKeep, enabled, visible, hiding,
          events \* announcements queued for the main thread

Panel == INSTANCE BubblePanel WITH Entity <- Entities

banners == <<bubbles, waiting, busy, maxKeep, enabled, visible, hiding>>
all == <<vars, banners, events>>

-----------------------------------------------------------------------------
\* replaceBubbleIndex: the first row with the application and the bubble id of
\* the replacement e.
ReplaceIndex(ent, e) ==
  LET Same(i) == /\ ent[bubbles[i]].kind.app = ent[e].kind.app
                 /\ ent[bubbles[i]].bubble = ent[e].bubble
  IN  {i \in 1..Len(bubbles) :
         ent[e].replace /\ Same(i) /\ \A j \in 1..(i - 1) : ~Same(j)}

\* removeById(i): the first row of s whose entity has that id now.
RowOf(ent, s, i) ==
  {n \in 1..Len(s) : ent[s[n]].id = i /\ \A m \in 1..(n - 1) : ent[s[m]].id # i}

\* The row that an announcement closes in the list s, 0 for none.
Closes(ent, s, ch) ==
  LET hit == IF ch = <<>> \/ Head(ch).type = "NotProcessed" THEN {}
             ELSE RowOf(ent, s, Head(ch).id)
  IN  IF hit = {} THEN 0 ELSE CHOOSE n \in hit : TRUE

\* Defect: whatever had that id, in the store or not.
FetchedStale(i) == {e \in 1..made : entity[e].id = i}

\* What the store has under id i (fetchEntity): a row of the history is read into
\* an object of its own, here the one it was saved from.
Fetched(i) ==
  IF InMemory(i) # {} THEN InMemory(i) ELSE {r.ent : r \in InDb(i)}

\* The main thread takes an announcement from its queue.
Deliver ==
  /\ Idle("main") /\ Panel!Roomy
  /\ events # <<>>
  /\ events' = Tail(events)
  /\ LET i == Head(events).id
     IN IF Head(events).type # "NotProcessed"
          THEN Panel!RemoveRow(Closes(entity, bubbles, events))
          ELSE IF Fetched(i) = {} THEN UNCHANGED banners
          ELSE \E e \in Fetched(i) :
                 LET at == ReplaceIndex(entity, e)
                 IN \/ at = {} /\ Panel!AddBubble(e, 0)
                    \/ \E n \in at : Panel!AddBubble(e, n)
  /\ UNCHANGED vars

\* What the worker announces is queued.
Queue == events' = events \o changed'

\* What a call on the main thread announces reaches the panel within the call.
Direct ==
  /\ Panel!Roomy
  /\ Panel!RemoveRow(Closes(entity', bubbles, changed'))
  /\ UNCHANGED events

\* The user acts on row n: it is removed first.
OnRow(n) ==
  /\ Panel!Roomy
  /\ Panel!CloseRow(n, Closes(entity', Panel!Without(bubbles, n), changed'))
  /\ UNCHANGED events

\* close(n, reason) and delayProcess(n), which is close with reason Dismissed.
Close(n, reason) ==
  NotificationClosed(entity[bubbles[n]].id, reason) /\ OnRow(n)

\* invokeAction(n, ...).
InvokeAction(n) == ActionInvoked(entity[bubbles[n]].id) /\ OnRow(n)

\* Defect: the row instead of the id.
SetHoveredRow ==
  /\ \E n \in 0..Len(bubbles) : SetBlockClosedId(n)
  /\ UNCHANGED <<banners, events>>

\* setHoveredId: the pointer enters a banner or leaves it.
SetHoveredId ==
  /\ \E i \in {entity[e].id : e \in Panel!Shown} \cup {None} : SetBlockClosedId(i)
  /\ UNCHANGED <<banners, events>>

\* The panel's own timers and its switch, with the server untouched.
PanelStep ==
  /\ Idle("main")
  /\ \/ Panel!ProcessPending
     \/ Panel!HideLater
     \/ \E on \in BOOLEAN : Panel!SetEnabled(on)
     \/ \E n \in BubbleCounts : Panel!UpdateBubbleCount(n)
  /\ UNCHANGED <<vars, events>>

SystemInit == Init /\ Panel!Init /\ events = <<>>

WorkerStep ==
  /\ Len(events) < MaxEvents
  /\ \/ Client \/ Announce \/ PushPending \/ TimerFires \/ StartTimer \/ Tick
     \/ AddReplacement \/ Insert("worker") \/ Take("worker") \/ Finish("worker")
     \/ HandleDue("worker")
  /\ Queue
  /\ UNCHANGED banners

MainStep ==
  \/ Deliver
  \/ (Insert("main") \/ Take("main")) /\ UNCHANGED <<banners, events>>
  \/ (Finish("main") \/ HandleDue("main")) /\ Direct
  \/ Center /\ Direct
  \/ SetHoveredId
  \/ \E n \in 1..Len(bubbles), reason \in {"Closed", "Dismissed"} :
       Close(n, reason)
  \/ \E n \in 1..Len(bubbles) : InvokeAction(n)
  \/ PanelStep

SystemNext == WorkerStep \/ MainStep

SystemSpec == SystemInit /\ [][SystemNext]_all

-----------------------------------------------------------------------------
(* Properties.                                                               *)

\* Banners that wait have a running timer that shows them.
WaitingServed == Panel!WaitingServed

\* The window is there when the panel is enabled and has a banner, and goes with the last.
VisibleFits == Panel!VisibleFits

\* The panel names only what the server expects of its UI, whatever was announced,
\* replaced or closed since a banner was made: the behaviours of the system are
\* behaviours NotificationManager has.
ServerSpec == Spec

\* The announcement of e is still to come, or to be delivered.
Unannounced(e) ==
  \/ notifying = e /\ stage = "stored"
  \/ \E n \in 1..Len(events) : /\ events[n].id = entity[e].id
                               /\ events[n].type = "NotProcessed"

\* A live notification that has been announced has a banner, shown or waiting,
\* as long as the list had no need to drop one: no close, replacement or timer
\* of another notification takes it away, whatever is still in the event queue.
LiveHasBanner ==
  maxKeep >= MaxEntities =>
    \A e \in mem : Live(e) /\ ~Unannounced(e)
                     => e \in Panel!Shown \cup Panel!Queued

\* A banner comes on the screen for a live notification, out of the queue, or for one whose
\* move to the history is under way and will take it off again: the announcement that
\* arrives late finds nothing in the store, and an id never leads to another notification.
EntersLive ==
  [][\A e \in Panel!Shown' \ Panel!Shown :
       e \in Panel!Queued \/ Live(e) \/ \E t \in Threads : move[t].ent = e]_all

=============================================================================
