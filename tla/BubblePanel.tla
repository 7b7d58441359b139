---------------------------- MODULE BubblePanel ----------------------------
(***************************************************************************)
(* The banners: panels/notification/bubble/bubblepanel.cpp and               *)
(* bubblemodel.cpp, on the main thread.                                      *)
(*                                                                           *)
(* The panel is modelled under any server: which notification a banner is    *)
(* for and which row a call hits are parameters of the actions.              *)
(* NotificationSystem computes them from the store.                          *)
(***************************************************************************)
EXTENDS Integers, Sequences, FiniteSets

CONSTANTS
  Entity,       \* what a banner can be for
  BubbleCounts, \* values of the setting bubbleCount
  MaxWaiting,   \* bound: length of the queue
  MaxHiding     \* bound: 500 ms timers under way

ASSUME CountsAssumption == BubbleCounts # {} /\ BubbleCounts \subseteq Nat \ {0}
ASSUME LimitsAssumption == MaxWaiting \in Nat /\ MaxHiding \in Nat

VARIABLES
  bubbles,  \* BubbleModel::m_bubbles, the newest first
  waiting,  \* BubbleModel::m_pendingBubbles
  busy,     \* m_processPendingTimer is active
  maxKeep,  \* m_maxKeep
  enabled,  \* BubblePanel::m_enabled
  visible,  \* BubblePanel::m_visible
  hiding    \* single shots of onBubbleCountChanged under way

rows == <<bubbles, waiting, busy>>
vars == <<rows, maxKeep, enabled, visible, hiding>>

Shown  == {bubbles[i] : i \in 1..Len(bubbles)}
Queued == {waiting[i] : i \in 1..Len(waiting)}

-----------------------------------------------------------------------------
\* s without its i-th element.
Without(s, i) == [j \in 1..(Len(s) - 1) |-> IF j < i THEN s[j] ELSE s[j + 1]]

\* Defect: an empty list does not schedule the hiding.
CountChangedNoHide(new) ==
  /\ bubbles' = new
  /\ hiding' = hiding
  /\ visible' = IF new = <<>> THEN visible ELSE enabled

\* Defect: a banner shows the panel whether or not it is enabled.
CountChangedAlways(new) ==
  /\ bubbles' = new
  /\ IF new = <<>>
       THEN hiding' = hiding + 1 /\ visible' = visible
       ELSE hiding' = hiding /\ visible' = TRUE

\* Rows were inserted or removed (onBubbleCountChanged): an empty list hides
\* the panel 500 ms later, any other shows it if it is enabled.
CountChanged(new) ==
  /\ bubbles' = new
  /\ IF new = <<>>
       THEN hiding' = hiding + 1 /\ visible' = visible
       ELSE hiding' = hiding /\ visible' = enabled

\* insertBubble: at the front; a full list drops its last row, whose
\* notification nobody tells.
InsertBubble(e) ==
  CountChanged(<<e>> \o (IF Len(bubbles) >= maxKeep
                           THEN Without(bubbles, Len(bubbles)) ELSE bubbles))

\* Defect: what comes during the timer's 300 ms is lost.
PushDropsWhenBusy(e) ==
  IF busy
    THEN UNCHANGED <<rows, visible, hiding>>
    ELSE InsertBubble(e) /\ busy' = TRUE /\ UNCHANGED waiting

\* push: not within 300 ms of the one before.
Push(e) ==
  IF busy
    THEN /\ waiting' = Append(waiting, e)
         /\ UNCHANGED <<bubbles, busy, visible, hiding>>
    ELSE InsertBubble(e) /\ busy' = TRUE /\ UNCHANGED waiting

\* addBubble of a valid entity, in the place of row i that it replaces (0 for
\* none).  A replacement changes data, not the count.
AddBubble(e, i) ==
  /\ IF i = 0
       THEN Push(e)
       ELSE /\ bubbles' = [bubbles EXCEPT ![i] = e]
            /\ UNCHANGED <<waiting, busy, visible, hiding>>
  /\ UNCHANGED <<maxKeep, enabled>>

\* Defect: the timer is not started again for the rest of the queue.
ProcessPendingOnce ==
  /\ busy
  /\ IF waiting = <<>>
       THEN busy' = FALSE /\ UNCHANGED <<bubbles, waiting, visible, hiding>>
       ELSE /\ InsertBubble(Head(waiting))
            /\ waiting' = Tail(waiting)
            /\ busy' = FALSE
  /\ UNCHANGED <<maxKeep, enabled>>

\* m_processPendingTimer fires.
ProcessPending ==
  /\ busy
  /\ IF waiting = <<>>
       THEN busy' = FALSE /\ UNCHANGED <<bubbles, waiting, visible, hiding>>
       ELSE /\ InsertBubble(Head(waiting))
            /\ waiting' = Tail(waiting)
            /\ UNCHANGED busy
  /\ UNCHANGED <<maxKeep, enabled>>

\* remove(i); the queue is not looked at, 0 removes nothing.
RemoveRow(i) ==
  /\ IF i = 0 THEN UNCHANGED <<bubbles, visible, hiding>>
              ELSE CountChanged(Without(bubbles, i))
  /\ UNCHANGED <<waiting, busy, maxKeep, enabled>>

\* The user closes row i (close, delayProcess, invokeAction): it is removed, then
\* the server is called, and what that announces removes row j of the rest.
CloseRow(i, j) ==
  LET rest == Without(bubbles, i)
  IN  /\ CountChanged(IF j = 0 THEN rest ELSE Without(rest, j))
      /\ UNCHANGED <<waiting, busy, maxKeep, enabled>>

\* Defect: fires without having been started.
HideLaterUnasked ==
  /\ hiding' = hiding - 1
  /\ visible' = (visible /\ bubbles # <<>>)
  /\ UNCHANGED <<rows, maxKeep, enabled>>

\* A single shot of onBubbleCountChanged fires.
HideLater ==
  /\ hiding > 0
  /\ hiding' = hiding - 1
  /\ visible' = (visible /\ bubbles # <<>>)
  /\ UNCHANGED <<rows, maxKeep, enabled>>

\* setEnabled(on): the notification center hides the banners while it is open.
SetEnabled(on) ==
  /\ on # enabled
  /\ enabled' = on
  /\ visible' = (bubbles # <<>> /\ on)
  /\ UNCHANGED <<rows, maxKeep, hiding>>

\* updateBubbleCount(n): rows are left as they are.
UpdateBubbleCount(n) ==
  /\ maxKeep' = n + 2
  /\ UNCHANGED <<rows, enabled, visible, hiding>>

Init ==
  /\ bubbles = <<>> /\ waiting = <<>> /\ busy = FALSE
  /\ maxKeep \in {n + 2 : n \in BubbleCounts}
  /\ enabled = TRUE /\ visible = FALSE
  /\ hiding = 0

\* Where the bounds cut.
Roomy == Len(waiting) < MaxWaiting /\ hiding < MaxHiding

Next ==
  \/ \E e \in Entity, i \in 0..Len(bubbles) : Roomy /\ AddBubble(e, i)
  \/ ProcessPending
  \/ \E i \in 0..Len(bubbles) : Roomy /\ RemoveRow(i)
  \/ \E i \in 1..Len(bubbles), j \in 0..(Len(bubbles) - 1) : Roomy /\ CloseRow(i, j)
  \/ HideLater
  \/ \E on \in BOOLEAN : SetEnabled(on)
  \/ \E n \in BubbleCounts : UpdateBubbleCount(n)

Spec == Init /\ [][Next]_vars

\* Timers fire.
Fairness == WF_vars(ProcessPending) /\ WF_vars(HideLater)
FairSpec == Spec /\ Fairness

-----------------------------------------------------------------------------
(* Properties.                                                               *)

\* Every variable keeps its type.
TypeOK ==
  /\ bubbles \in Seq(Entity) /\ waiting \in Seq(Entity)
  /\ busy \in BOOLEAN /\ enabled \in BOOLEAN /\ visible \in BOOLEAN
  /\ maxKeep \in Nat /\ hiding \in Nat

\* A banner that waits has a timer that will insert it, however pushes, removals
\* and the timer itself follow each other.
WaitingServed == waiting # <<>> => busy

\* The window shows when there is a banner and the center is closed, does not
\* show while the center is open, and when it shows nothing a timer is under
\* way to hide it: the hiding is asynchronous, new banners and the center come
\* in between.
VisibleFits ==
  /\ visible => enabled
  /\ enabled /\ bubbles # <<>> => visible
  /\ visible /\ bubbles = <<>> => hiding > 0

\* A banner that waits is shown in the end.
WaitingShown ==
  \A e \in Entity : (e \in Queued) ~> (e \in Shown)

\* An empty window does not stay.
EmptyHides == (visible /\ bubbles = <<>>) ~> (~visible \/ bubbles # <<>>)

\* Under the fairness of timers: banners that wait are shown, and an empty window
\* goes away.
PanelSettles == WaitingShown /\ EmptyHides
=============================================================================
