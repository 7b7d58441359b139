--------------------------- MODULE NotifyStaging ---------------------------
(***************************************************************************)
(* The second list of the notification center, panels/notification/center/   *)
(* notifystagingmodel.cpp: the notifications that are still live when the      *)
(* center is open, a few rows with a count of what lies under the last.       *)
(*                                                                           *)
(* The worker thread changes the store (MemoryAccessor) and queues the news   *)
(* for the main thread; the list reads the store when it gets room, as it is   *)
(* by then.  A notification is a number, its cTime; the store has them in the   *)
(* order they came.  A hidden replacement, which keeps id and row and changes   *)
(* only the content, is left out.                                            *)
(***************************************************************************)
EXTENDS Lists

CONSTANTS
  Notification,    \* cTimes
  BubbleMaxCount,  \* rows
  OverlayMaxCount, \* and what is counted under them
  MaxNews          \* bound: news on its way to the main thread

VARIABLES
  born,    \* notifications that came so far
  live,    \* those in the store that are NotProcessed
  news,    \* NotificationStateChanged on its way: <<"received" or "closed", id>>
  shown,   \* the center is open, NotifyAccessor::enabled
  rows,    \* m_appNotifies
  overlap, \* m_overlapCount
  strayed  \* history: since the center opened the list read the store ahead of news,
           \* or a notification went without news

vars == <<born, live, news, shown, rows, overlap, strayed>>

Least(i, j) == IF i < j THEN i ELSE j

\* MemoryAccessor::fetchEntities: the oldest, and one more than asked for.
Fetched(store) ==
  LET old == Ascending(store)
  IN  SubSeq(old, 1, Least(Len(old), BubbleMaxCount + OverlayMaxCount + 1))

\* updateOverlapCount
Overlap(count, list) ==
  LET rest == Least(count, BubbleMaxCount + OverlayMaxCount) - Len(list)
  IN  IF rest < 0 THEN 0 ELSE rest

\* newEntities of remove
New(store, list) == Only(Fetched(store), Notification \ ToSet(list))

\* The last row that is older than one of new makes room for the first such.
Inserted(list, new) ==
  LET older == {i \in DOMAIN list : \E n \in ToSet(new) : list[i] < n}
      at    == CHOOSE i \in older : \A j \in older : j <= i
  IN  IF new = <<>> THEN list
      ELSE IF older = {} THEN Append(list, Head(new))
      ELSE InsertAt(list, at, Head(Only(new, {n \in ToSet(new) : list[at] < n})))

\* The rows after remove(e), and what they lie on.
Without(store, list, e) ==
  LET i    == CHOOSE j \in DOMAIN list : list[j] = e /\ \A m \in 1..(j - 1) : list[m] # e
      rest == RemoveAt(list, i)
  IN  IF Contains(list, e) THEN Inserted(rest, New(store, rest)) ELSE list

\* The main thread reads the store: news of an arrival is still on its way.
Ahead(queue) == \E i \in DOMAIN queue : queue[i][1] = "received"

RemoveId(store, queue, e) ==
  /\ rows' = Without(store, rows, e)
  /\ overlap' = Overlap(Len(Fetched(store)), rows')
  /\ strayed' = (strayed \/ Ahead(queue))

\* Defect: the count is that of before.
PushUncounted(e) ==
  /\ rows' = SubSeq(<<e>> \o rows, 1, Least(Len(rows) + 1, BubbleMaxCount))
  /\ UNCHANGED <<overlap, strayed>>

\* push: the oldest row makes room.
Push(e) ==
  /\ rows' = SubSeq(<<e>> \o rows, 1, Least(Len(rows) + 1, BubbleMaxCount))
  /\ overlap' = Overlap(Cardinality(live), rows')
  /\ UNCHANGED strayed

-----------------------------------------------------------------------------
(* The worker.                                                               *)

Later(e) == e \notin born /\ \A f \in born : f < e

\* Notify
Notify(e) ==
  /\ Len(news) < MaxNews /\ Later(e)
  /\ born' = born \cup {e} /\ live' = live \cup {e}
  /\ news' = Append(news, <<"received", e>>)
  /\ UNCHANGED <<shown, rows, overlap, strayed>>

\* It expires, and goes to the history.
Expire(e) ==
  /\ Len(news) < MaxNews /\ e \in live
  /\ live' = live \ {e}
  /\ news' = Append(news, <<"closed", e>>)
  /\ UNCHANGED <<born, shown, rows, overlap, strayed>>

\* CloseNotification: onNotificationStateChanged does not know "Removed".
CloseNotification(e) ==
  /\ e \in live
  /\ live' = live \ {e}
  /\ strayed' = TRUE
  /\ UNCHANGED <<born, news, shown, rows, overlap>>

\* Notify that replaces f, which goes to the history without news.
Replace(e, f) ==
  /\ Len(news) < MaxNews /\ Later(e) /\ f \in live
  /\ born' = born \cup {e} /\ live' = (live \ {f}) \cup {e}
  /\ news' = Append(news, <<"received", e>>)
  /\ strayed' = TRUE
  /\ UNCHANGED <<shown, rows, overlap>>

-----------------------------------------------------------------------------
(* The main thread.                                                          *)

\* onNotificationStateChanged, doEntityReceived and onEntityClosed.
Hear ==
  /\ news # <<>> /\ news' = Tail(news)
  /\ LET e == Head(news)[2]
     IN  IF ~shown \/ (Head(news)[1] = "received" /\ e \notin live)
         THEN UNCHANGED <<rows, overlap, strayed>>
         ELSE IF Head(news)[1] = "received" THEN Push(e) ELSE RemoveId(live, Tail(news), e)
  /\ UNCHANGED <<born, live, shown>>

\* The rows that open shows.
Opened(store) ==
  LET young == Reverse(Fetched(store))
  IN  SubSeq(young, 1, Least(Len(young), BubbleMaxCount))

\* open
Open ==
  /\ ~shown /\ shown' = TRUE
  /\ rows' = Opened(live)
  /\ overlap' = IF live = {} THEN overlap ELSE Overlap(Len(Fetched(live)), rows')
  /\ strayed' = Ahead(news)
  /\ UNCHANGED <<born, live, news>>

\* close
Close ==
  /\ shown /\ shown' = FALSE
  /\ rows' = <<>>
  /\ UNCHANGED <<born, live, news, overlap, strayed>>

\* closeNotify and invokeNotify of a row: the server is called at once.
CloseRow(i) ==
  /\ i \in DOMAIN rows
  /\ live' = live \ {rows[i]}
  /\ RemoveId(live', news, rows[i])
  /\ UNCHANGED <<born, news, shown>>

Init ==
  /\ born = {} /\ live = {} /\ news = <<>>
  /\ shown = FALSE /\ rows = <<>> /\ overlap = 0 /\ strayed = FALSE

Next ==
  \/ \E e \in Notification : Notify(e) \/ Expire(e) \/ CloseNotification(e)
  \/ \E e, f \in Notification : Replace(e, f)
  \/ Hear \/ Open \/ Close
  \/ \E i \in 1..BubbleMaxCount : CloseRow(i)

Spec == Init /\ [][Next]_vars

-----------------------------------------------------------------------------
(* Properties.                                                               *)

\* Every variable keeps its type, whatever goes astray.
TypeOK ==
  /\ live \subseteq born /\ born \subseteq Notification /\ shown \in BOOLEAN
  /\ \A i \in DOMAIN news : news[i] \in {"received", "closed"} \X born
  /\ ToSet(rows) \subseteq born /\ Len(rows) <= BubbleMaxCount /\ (~shown => rows = <<>>)
  /\ overlap \in 0..(BubbleMaxCount + OverlayMaxCount) /\ strayed \in BOOLEAN

Settled == shown /\ news = <<>> /\ ~strayed

\* Once the news is heard, and none of it came after the list had read the store, the
\* rows are live notifications, each of them once, as many as there is room for.
RowsLive ==
  Settled => /\ ToSet(rows) \subseteq live /\ IsInjective(rows)
             /\ Len(rows) = Least(Cardinality(live), BubbleMaxCount)

\* And the last row counts what is left, up to OverlayMaxCount.
OverlapRight ==
  Settled /\ live # {} => overlap = Least(Cardinality(live) - Len(rows), OverlayMaxCount)

\* Rows, what lies under the last and the store agree.
StagingSound == TypeOK /\ RowsLive /\ OverlapRight
=============================================================================
