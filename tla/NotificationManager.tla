------------------------ MODULE NotificationManager ------------------------
(***************************************************************************)
(* The notification server: panels/notification/server/                    *)
(* notificationmanager.cpp over the two-level store of                      *)
(* panels/notification/common (DataAccessorProxy: MemoryAccessor for live    *)
(* notifications, DBAccessor for the history).                               *)
(*                                                                           *)
(* The manager lives in a worker thread (D-Bus calls, the expiry timer), but *)
(* the UI calls it directly from the main thread (Qt::DirectConnection in    *)
(* notifyserverapplet.cpp).  One call is one step, except where it loops or  *)
(* is observably cut: Notify stores, then announces, then arms the timeout;  *)
(* onHandingPendingEntities takes what is due out of the pending hash and    *)
(* then closes the items one by one; and a notification moves from memory to *)
(* the database by calls that each take a lock of their own: its type and    *)
(* the look-up, the INSERT, the removal, and its new id with what follows.   *)
(* Steps of the two threads interleave in between.                           *)
(*                                                                           *)
(* NotifyEntity is explicitly shared and never detaches, so the store, the   *)
(* pending hash and the UI all alias one object: an entity is a number, the  *)
(* variable "entity" is the heap.                                            *)
(*                                                                           *)
(* Time is relative: "left" is the time until a point of the pending hash,   *)
(* 0 for a point that has passed.                                            *)
(***************************************************************************)
EXTENDS Integers, Sequences, FiniteSets

CONSTANTS
  MaxEntities,      \* bound: notifications created in a behaviour
  MaxStarts,        \* bound: timer starts waiting in the worker's event queue
  Kinds,            \* what a Notify call can carry (see KindType)
  Apps,             \* application names
  BlockItemTimeout, \* grace time of a notification the pointer has left
  DbOutcomes,       \* outcomes of an INSERT into the database
  CenterSetting,    \* values the ShowInCenter setting of an app can have
  PromptLoop,       \* whether queued starts are delivered before time passes
  CenterInUse       \* whether the notification center acts on the history

ASSUME BoundsAssumption == MaxEntities \in Nat /\ MaxStarts \in Nat
ASSUME AppsAssumption == Apps # {}
ASSUME GraceAssumption == BlockItemTimeout \in Nat
ASSUME ChoicesAssumption ==
  DbOutcomes \subseteq BOOLEAN /\ CenterSetting \subseteq BOOLEAN
  /\ CenterInUse \in BOOLEAN /\ PromptLoop \in BOOLEAN

\* timeout: the expire_timeout, 0 when the entity never expires (expire_timeout
\* 0 or urgency critical); hidden: hint x-deepin-ShowInNotifyCenter = false;
\* bluetooth: the transfer-progress notifications filterToSource recognises.
KindType == [app : Apps, timeout : Nat, hidden : BOOLEAN, bluetooth : BOOLEAN]
ASSUME KindsAssumption == Kinds \subseteq KindType

Entities == 1..MaxEntities
None == 0                  \* no entity; also NotifyEntity::InvalidId
Never == -1                \* a timer that is off, a timeout point at infinity
Threads == {"worker", "main"}

\* NotifyEntity::ProcessedType
Types == {"NotProcessed", "Processed", "Removed"}

VARIABLES
  made,       \* entities created so far: 1..made
  entity,     \* the shared NotifyData objects
  mem,        \* MemoryAccessor::m_entities
  memId,      \* its g_Id: the last (negative) id given out
  db,         \* the rows of the database
  lastRow,    \* AUTOINCREMENT id of the last row
  move,       \* per thread: the updateEntityProcessedType of a live entity it is in
  overtaken,  \* history: entities a call took hold of while the other thread moved them
  pending,    \* m_pendingTimeoutEntities
  due,        \* per thread: timeoutEntities of a running onHandingPendingEntities
  lastPoint,  \* m_lastTimeoutPoint
  timer,      \* m_pendingTimeout: time left, or Never when it is off
  starts,     \* queued "start" calls of m_pendingTimeout, their intervals
  block,      \* m_blockClosedId
  replaces,   \* m_replacesCount
  notifying,  \* the entity of the Notify call the worker is in, or None
  stage,      \* how far that call is: "idle", "replacing", "stored", "announced"
  changed     \* NotificationStateChanged emitted by the last step

heap   == <<made, entity>>
moves  == <<move, overtaken>>
store  == <<mem, memId, db, lastRow, moves>>
expiry == <<pending, due, lastPoint, starts>>
call   == <<notifying, stage>>
vars   == <<heap, store, expiry, timer, block, replaces, call, changed>>

Data == [kind : KindType, bubble : Nat, replace : BOOLEAN,
         id : Int, type : Types, slot : Nat]
Row  == [id : Nat, ent : Entities, type : Types]
Item == [left : Nat, ent : Entities]

\* id: the id the call was made with, by which memory drops the entity; row: sId, None as
\* long as there is none.
Move == [at : {"none", "typed", "inserted", "finishing"},
         ent : Entities \cup {None}, id : Int, row : Nat]
NoMove == [at |-> "none", ent |-> None, id |-> None, row |-> None]

-----------------------------------------------------------------------------
(* The store: DataAccessorProxy over MemoryAccessor and DBAccessor.         *)

\* Lookup by id: the live notifications first, then the database.
InMemory(i) == {e \in mem : entity[e].id = i}
InDb(i)     == {r \in db : r.id = i}

\* Defect: the oldest match instead of the latest.
FirstOfBubble(b) ==
  {e \in mem : /\ entity[e].bubble = b
               /\ \A f \in mem : entity[f].bubble = b
                                   => entity[f].slot >= entity[e].slot}
\* fetchLastEntity(bubbleId): live notifications only, the latest slot.
LastOfBubble(b) ==
  {e \in mem : /\ entity[e].bubble = b
               /\ \A f \in mem : entity[f].bubble = b
                                   => entity[f].slot <= entity[e].slot}

NewRow(e, ty) == [id |-> lastRow + 1, ent |-> e, type |-> ty]

\* An object as Notify builds it: slot is its place in m_entities, 0 for one
\* that is never live.
Fresh(k, b, rep, i, ty, s) ==
  [kind |-> k, bubble |-> b, replace |-> rep, id |-> i, type |-> ty, slot |-> s]

-----------------------------------------------------------------------------
(* Timeouts.  P is the pending hash and D the due lists a call works on.     *)

\* The first of the points of P (one value, when P is not empty).
FirstLeft(P) == {n \in {p.left : p \in P} : \A p \in P : n <= p.left}

\* Defect: m_lastTimeoutPoint is not reset when nothing is left.
HandlePendingStalePoint(t, P, D) ==
  LET taken == {p \in P : p.left = 0}
      rest  == P \ taken
  IN  /\ due' = [D EXCEPT ![t] = @ \cup {p.ent : p \in taken}]
      /\ pending' = rest
      /\ IF rest = {}
           THEN lastPoint' = lastPoint /\ starts' = starts
           ELSE \E n \in FirstLeft(rest) :
                  lastPoint' = n /\ starts' = Append(starts, n)

\* Defect: the timer is not restarted for what is left.
HandlePendingNoRestart(t, P, D) ==
  LET taken == {p \in P : p.left = 0}
      rest  == P \ taken
  IN  /\ due' = [D EXCEPT ![t] = @ \cup {p.ent : p \in taken}]
      /\ pending' = rest
      /\ IF rest = {}
           THEN lastPoint' = Never /\ starts' = starts
           ELSE \E n \in FirstLeft(rest) : lastPoint' = n /\ starts' = starts

\* onHandingPendingEntities up to its loop over what is due: take the points
\* that have passed, and let the worker restart the timer for the next one
\* (a queued call carrying the interval computed now).
HandlePending(t, P, D) ==
  LET taken == {p \in P : p.left = 0}
      rest  == P \ taken
  IN  /\ due' = [D EXCEPT ![t] = @ \cup {p.ent : p \in taken}]
      /\ pending' = rest
      /\ IF rest = {}
           THEN lastPoint' = Never /\ starts' = starts
           ELSE \E n \in FirstLeft(rest) :
                  lastPoint' = n /\ starts' = Append(starts, n)

\* Defect: a replacement matches whatever its bubble.
MatchingAnyBubble(P, ent, i, rep, b) ==
  {p \in P : \/ ent[p.ent].id = i
             \/ rep}

\* The items removePendingEntity takes for the entity (i, rep, b): equal ids,
\* or the same bubble when that entity is a replacement.  ent is the heap.
Matching(P, ent, i, rep, b) ==
  {p \in P : \/ ent[p.ent].id = i
             \/ rep /\ ent[p.ent].bubble = b}

\* removePendingEntity: the first match of the hash order goes, then
\* onHandingPendingEntities runs.
RemovePending(t, D, ent, i, rep, b) ==
  LET found == Matching(pending, ent, i, rep, b)
  IN  IF found = {}
        THEN UNCHANGED <<pending, lastPoint, starts>> /\ due' = D
        ELSE \E p \in found : HandlePending(t, pending \ {p}, D)

-----------------------------------------------------------------------------
(* updateEntityProcessed(const NotifyEntity &): the store, the announcement, *)
(* the timeout of the entity, in this order.                                 *)

\* ShowInCenter of the app, unless the hint of the entity overrides it.
Shown(k) == IF k.hidden THEN {FALSE} ELSE CenterSetting

\* The threads in the middle of moving the entity with id i, or the one in its place.
Moving(i) == {t \in Threads : move[t].id = i}

\* The entities of E, of id i, are in the hands of two calls now.
Overtake(i, E) == overtaken' = IF Moving(i) = {} THEN overtaken ELSE overtaken \cup E

\* A live entity that was removed or is not for the center: out of memory.
Drop(t, D, e, ty) ==
  /\ entity' = [entity EXCEPT ![e].type = ty]
  /\ mem' = mem \ {e}
  /\ changed' = <<[id |-> entity[e].id, type |-> ty]>>
  /\ RemovePending(t, D, entity', entity[e].id, entity[e].replace, entity[e].bubble)
  /\ UNCHANGED move

\* updateEntityProcessedType of a live entity begins, of which the heap is then ent: the
\* type is set and the entity fetched; the rest is Insert, Take and Finish.
BeginMove(t, e, ty, ent) ==
  /\ entity' = [ent EXCEPT ![e].type = ty]
  /\ move' = [move EXCEPT ![t] =
                [at |-> "typed", ent |-> e, id |-> entity[e].id, row |-> None]]

\* For a live entity e that becomes ty.
SettleLive(t, D, e, ty) ==
  /\ \E show \in Shown(entity[e].kind) :
       \/ /\ ty = "Removed" \/ ~show
          /\ Drop(t, D, e, ty)
       \/ /\ ty = "Processed" /\ show
          /\ BeginMove(t, e, ty, entity)
          /\ due' = D /\ changed' = <<>>
          /\ UNCHANGED <<mem, pending, lastPoint, starts>>
  /\ Overtake(entity[e].id, {e})
  /\ UNCHANGED <<db, lastRow>>

\* The same for a row of the database, fetched as an object of its own.
SettleRow(t, D, r, ty) ==
  \E show \in Shown(entity[r.ent].kind) :
    /\ db' = IF ty = "Removed" \/ ~show
               THEN db \ {r}
               ELSE (db \ {r}) \cup {[r EXCEPT !.type = ty]}
    /\ changed' = <<[id |-> r.id, type |-> ty]>>
    /\ RemovePending(t, D, entity, r.id, entity[r.ent].replace,
                     entity[r.ent].bubble)
    /\ UNCHANGED <<entity, mem, lastRow, moves>>

\* fetchEntity(i), then updateEntityProcessed with the type that next gives for
\* the type it had; nothing when no store has the id.
Settle(t, D, i, next) ==
  \/ \E e \in InMemory(i) : SettleLive(t, D, e, next[entity[e].type])
  \/ /\ InMemory(i) = {}
     /\ \E r \in InDb(i) : SettleRow(t, D, r, next[r.type])
  \/ /\ InMemory(i) = {} /\ InDb(i) = {}
     /\ due' = D
     /\ changed' = <<>>
     /\ UNCHANGED <<entity, mem, db, lastRow, moves, pending, lastPoint, starts>>

\* Defect: the reason where the type belongs.
ClosedTypeIsReason(reason) ==
  [ty \in Types |-> IF \/ reason \in {"Closed", "Dismissed"} /\ ty = "NotProcessed"
                       \/ reason = "Timeout"
                     THEN "Removed" ELSE reason]

\* The type notificationClosed gives, by its reason and the type before.
ClosedType(reason) ==
  [ty \in Types |-> IF \/ reason \in {"Closed", "Dismissed"} /\ ty = "NotProcessed"
                       \/ reason = "Timeout"
                     THEN "Removed" ELSE "Processed"]

\* CloseNotification and actionInvoked remove whatever it was.
AsRemoved == [ty \in Types |-> "Removed"]

-----------------------------------------------------------------------------
(* The worker: D-Bus calls and the timer.                                    *)

\* A thread is free for its next call.
Idle(t) == due[t] = {} /\ move[t] = NoMove /\ (t = "worker" => stage = "idle")

\* MaxStarts bounds the queue of timer starts.
Roomy == Len(starts) < MaxStarts

\* DataAccessorProxy::addEntity, to the live notifications M: memory gives the
\* next negative id.
AddLive(M, e) ==
  /\ mem' = M \cup {e}
  /\ memId' = memId - 1

\* recordNotification of a new notification, as the entity made + 1: a live one
\* goes to memory ...
AddNewLive(k) ==
  /\ AddLive(mem, made + 1)
  /\ entity' = [entity EXCEPT ![made + 1] =
       Fresh(k, replaces + 1, FALSE, memId - 1, "NotProcessed", made + 1)]
  /\ UNCHANGED <<db, lastRow>>

\* ... a quiet one to the database; the id is -1 when it is filtered out or the
\* INSERT fails.
AddNewQuiet(k) ==
  /\ \E ok \in DbOutcomes :
       LET saved == ok /\ ~k.bluetooth
       IN /\ entity' = [entity EXCEPT ![made + 1] =
               Fresh(k, replaces + 1, FALSE, IF saved THEN lastRow + 1 ELSE -1,
                     "Processed", 0)]
          /\ db' = IF saved THEN db \cup {NewRow(made + 1, "Processed")} ELSE db
          /\ lastRow' = IF saved THEN lastRow + 1 ELSE lastRow
  /\ UNCHANGED <<mem, memId>>

\* Notify of a new notification.  quiet is the outcome of the do-not-disturb,
\* lock screen and desktop settings.
NotifyNew(k, quiet) ==
  /\ Idle("worker") /\ Roomy
  /\ made < MaxEntities
  /\ made' = made + 1
  /\ replaces' = replaces + 1
  /\ notifying' = made + 1
  /\ IF quiet THEN AddNewQuiet(k) ELSE AddNewLive(k)
  /\ stage' = "stored"
  /\ changed' = <<>>
  /\ UNCHANGED <<moves, expiry, timer, block>>

\* Notify's removal of the old timeout of the replacement e, whichever way it came.
DropReplaced(e) == RemovePending("worker", due, entity', entity'[e].id, TRUE, entity'[e].bubble)

\* recordNotification of a replacement, as the entity made + 1.  A hidden one
\* takes the place and the id of the old one (replaceEntity) ...
ReplaceInPlace(k, b, old) ==
  /\ k.hidden
  /\ entity' = [entity EXCEPT ![made + 1] =
       Fresh(k, b, TRUE, entity[old].id, "NotProcessed", entity[old].slot)]
  /\ mem' = (mem \ {old}) \cup {made + 1}
  /\ Overtake(entity[old].id, {made + 1})
  /\ DropReplaced(made + 1)
  /\ stage' = "stored"
  /\ UNCHANGED move

\* ... else the old one moves to the history first, and the new one is added then.
ReplaceByMoving(k, b, old) ==
  /\ ~k.hidden
  /\ BeginMove("worker", old, "Processed",
       [entity EXCEPT ![made + 1] = Fresh(k, b, TRUE, None, "NotProcessed", made + 1)])
  /\ Overtake(entity[old].id, {old})
  /\ stage' = "replacing"
  /\ UNCHANGED <<mem, expiry>>

\* Notify with replaces_id b, for a notification that is still live (for any
\* other id the call returns 0 and changes nothing).
NotifyReplace(k, b) ==
  /\ Idle("worker") /\ Roomy
  /\ made < MaxEntities
  /\ made' = made + 1
  /\ notifying' = made + 1
  /\ \E old \in LastOfBubble(b) :
       ReplaceInPlace(k, b, old) \/ ReplaceByMoving(k, b, old)
  /\ changed' = <<>>
  /\ UNCHANGED <<memId, db, lastRow, timer, block, replaces>>

\* Notify goes on once the timeouts it came across are handled: the
\* announcement to the UI ...
Announce ==
  /\ stage = "stored" /\ due["worker"] = {} /\ move["worker"] = NoMove
  /\ stage' = "announced"
  /\ changed' = <<[id |-> entity[notifying].id, type |-> entity[notifying].type]>>
  /\ UNCHANGED <<heap, store, expiry, timer, block, replaces, notifying>>

\* ... and pushPendingEntity.
PushPending ==
  /\ stage = "announced" /\ due["worker"] = {} /\ move["worker"] = NoMove
  /\ stage' = "idle"
  /\ notifying' = None
  /\ LET n == entity[notifying].kind.timeout
     IN IF n = 0
          THEN UNCHANGED <<pending, lastPoint, timer>>
          ELSE /\ pending' = pending \cup {[left |-> n, ent |-> notifying]}
               /\ IF lastPoint = Never \/ lastPoint > n
                    THEN lastPoint' = n /\ timer' = n
                    ELSE UNCHANGED <<lastPoint, timer>>
  /\ changed' = <<>>
  /\ UNCHANGED <<heap, store, due, starts, block, replaces>>

\* CloseNotification of D-Bus: for live notifications only.
CloseNotification(b) ==
  /\ Idle("worker") /\ Roomy
  /\ \E e \in LastOfBubble(b) : SettleLive("worker", due, e, "Removed")
  /\ UNCHANGED <<made, memId, timer, block, replaces, call>>

\* The single-shot timer fires.
TimerFires ==
  /\ Idle("worker") /\ Roomy
  /\ timer = 0
  /\ timer' = Never
  /\ HandlePending("worker", pending, due)
  /\ changed' = <<>>
  /\ UNCHANGED <<heap, store, block, replaces, call>>

\* A queued "start" of the timer is delivered: it counts from now.
StartTimer ==
  /\ Idle("worker")
  /\ starts # <<>>
  /\ timer' = Head(starts)
  /\ starts' = Tail(starts)
  /\ changed' = <<>>
  /\ UNCHANGED <<heap, store, pending, due, lastPoint, block, replaces, call>>

-----------------------------------------------------------------------------
(* Either thread, in the move of a notification to the database.             *)

\* Defect: the outcome of the INSERT is not looked at.
InsertUnchecked(t) ==
  /\ move[t].at = "typed"
  /\ \E ok \in DbOutcomes :
       LET e == move[t].ent
       IN  /\ move' = [move EXCEPT ![t].at = "inserted",
                                   ![t].row = IF ok THEN lastRow + 1 ELSE None]
           /\ db' = IF ok THEN db \cup {NewRow(e, entity[e].type)} ELSE db
           /\ lastRow' = IF ok THEN lastRow + 1 ELSE lastRow
  /\ changed' = <<>>
  /\ UNCHANGED <<heap, mem, memId, overtaken, expiry, timer, block, replaces, call>>

\* addEntity of the database, with the type the entity has by then; one that the history
\* does not take is removed from memory instead.
Insert(t) ==
  /\ move[t].at = "typed"
  /\ LET e == move[t].ent
     IN  \/ /\ entity[e].kind.bluetooth
            /\ mem' = mem \ InMemory(move[t].id)
            /\ move' = [move EXCEPT ![t].at = "finishing"]
            /\ UNCHANGED <<db, lastRow>>
         \/ /\ ~entity[e].kind.bluetooth /\ TRUE \in DbOutcomes
            /\ db' = db \cup {NewRow(e, entity[e].type)}
            /\ lastRow' = lastRow + 1
            /\ move' = [move EXCEPT ![t].at = "inserted", ![t].row = lastRow + 1]
            /\ UNCHANGED mem
         \/ /\ ~entity[e].kind.bluetooth /\ FALSE \in DbOutcomes
            /\ move' = [move EXCEPT ![t].at = "finishing"]
            /\ UNCHANGED <<mem, db, lastRow>>
  /\ changed' = <<>>
  /\ UNCHANGED <<heap, memId, overtaken, expiry, timer, block, replaces, call>>

\* Defect: removed by the id it has in the database.
TakeBySavedId(t) ==
  /\ move[t].at = "inserted"
  /\ mem' = mem \ InMemory(move[t].row)
  /\ move' = [move EXCEPT ![t].at = "finishing"]
  /\ changed' = <<>>
  /\ UNCHANGED <<heap, memId, db, lastRow, overtaken, expiry, timer, block, replaces, call>>

\* removeEntity of memory, by the id the call was made with.
Take(t) ==
  /\ move[t].at = "inserted"
  /\ mem' = mem \ InMemory(move[t].id)
  /\ move' = [move EXCEPT ![t].at = "finishing"]
  /\ changed' = <<>>
  /\ UNCHANGED <<heap, memId, db, lastRow, overtaken, expiry, timer, block, replaces, call>>

\* setId: the heap when the entity that t moved has the id of its row, if it has one.
WithRowId(t) ==
  [entity EXCEPT ![move[t].ent].id = IF move[t].row = None THEN @ ELSE move[t].row]

\* setId, then the rest of updateEntityProcessed: the announcement and the timeout.
Finish(t) ==
  /\ move[t].at = "finishing" /\ ~(t = "worker" /\ stage = "replacing")
  /\ entity' = WithRowId(t)
  /\ LET e == entity'[move[t].ent]
     IN  /\ changed' = <<[id |-> e.id, type |-> e.type]>>
         /\ RemovePending(t, due, entity', e.id, e.replace, e.bubble)
  /\ move' = [move EXCEPT ![t] = NoMove]
  /\ UNCHANGED <<made, mem, memId, db, lastRow, overtaken, timer, block, replaces, call>>

\* setId, then the rest of recordNotification, which adds the replacement, and Notify's
\* removal of the old timeout.
AddReplacement ==
  /\ move["worker"].at = "finishing" /\ stage = "replacing"
  /\ AddLive(mem, notifying)
  /\ entity' = [WithRowId("worker") EXCEPT ![notifying].id = memId - 1]
  /\ DropReplaced(notifying)
  /\ move' = [move EXCEPT !["worker"] = NoMove]
  /\ stage' = "stored"
  /\ changed' = <<>>
  /\ UNCHANGED <<made, db, lastRow, overtaken, timer, block, replaces, notifying>>

-----------------------------------------------------------------------------
(* Either thread, in the loop of onHandingPendingEntities.                   *)

\* One item that is due: kept for the hovered bubble, else closed as expired.
HandleDue(t) ==
  /\ move[t] = NoMove
  /\ \E e \in due[t] :
       LET rest == [due EXCEPT ![t] = @ \ {e}]
       IN \/ /\ entity[e].id = block
             /\ pending' = pending \cup {[left |-> 0, ent |-> e]}
             /\ due' = rest
             /\ changed' = <<>>
             /\ UNCHANGED <<entity, mem, db, lastRow, moves, lastPoint, starts>>
          \/ /\ entity[e].id # block
             /\ Settle(t, rest, entity[e].id, ClosedType("Expired"))
  /\ UNCHANGED <<made, memId, timer, block, replaces, call>>

-----------------------------------------------------------------------------
(* Calls of the UI, on the main thread.                                      *)

\* notificationClosed(i, ..., reason).
NotificationClosed(i, reason) ==
  /\ Idle("main") /\ Roomy
  /\ Settle("main", due, i, ClosedType(reason))
  /\ UNCHANGED <<made, memId, timer, block, replaces, call>>

\* actionInvoked(i, ...).
ActionInvoked(i) ==
  /\ Idle("main") /\ Roomy
  /\ Settle("main", due, i, AsRemoved)
  /\ UNCHANGED <<made, memId, timer, block, replaces, call>>

\* setBlockClosedId(i): the bubble under the pointer changes.
SetBlockClosedId(i) ==
  /\ Idle("main") /\ Roomy
  /\ i # block
  /\ block' = i
  /\ LET late == {p \in pending : /\ block # None
                                  /\ entity[p.ent].id = block
                                  /\ p.left < BlockItemTimeout}
     IN IF late = {}
          THEN HandlePending("main", pending, due)
          ELSE \E p \in late :
                 HandlePending("main",
                   (pending \ {p}) \cup {[p EXCEPT !.left = BlockItemTimeout]},
                   due)
  /\ changed' = <<>>
  /\ UNCHANGED <<heap, store, timer, replaces, call>>

\* removeNotification(i): proxy removeEntity, memory first; nothing pending is
\* touched and nothing announced.
RemoveNotification(i) ==
  /\ Idle("main")
  /\ mem' = mem \ InMemory(i)
  /\ db' = IF InMemory(i) = {} THEN db \ InDb(i) ELSE db
  /\ changed' = <<>>
  /\ UNCHANGED <<heap, memId, lastRow, moves, expiry, timer, block, replaces, call>>

\* removeNotifications(app), removeNotifications() and
\* removeExpiredNotifications(): the history only.
RemoveRows(R) ==
  /\ Idle("main")
  /\ db' = db \ R
  /\ changed' = <<>>
  /\ UNCHANGED <<heap, mem, memId, lastRow, moves, expiry, timer, block, replaces, call>>

RemoveByApp(a)   == RemoveRows({r \in db : entity[r.ent].kind.app = a})
RemoveAll        == RemoveRows(db)
RemoveExpired(e) == RemoveRows({r \in db : r.ent <= e})

-----------------------------------------------------------------------------
(* Time passes for everything that waits for a point in time.                *)

Less(n) == IF n > 0 THEN n - 1 ELSE n

Tick ==
  /\ \/ timer > 0
     \/ \E p \in pending : p.left > 0
  /\ PromptLoop => starts = <<>>
  /\ pending' = {[p EXCEPT !.left = Less(@)] : p \in pending}
  /\ lastPoint' = Less(lastPoint)
  /\ timer' = Less(timer)
  /\ changed' = <<>>
  /\ UNCHANGED <<heap, store, due, starts, block, replaces, call>>

\* Ids the UI can name: bubbles hold the entities announced to them, the center
\* shows the rows of the history.
BubbleIds == {entity[e].id : e \in {f \in 1..made :
                                      /\ entity[f].slot # 0
                                      /\ f # notifying \/ stage \notin {"replacing", "stored"}}}
RowIds == {r.id : r \in db}

Blank == Fresh([app |-> CHOOSE a \in Apps : TRUE, timeout |-> 0,
                hidden |-> FALSE, bluetooth |-> FALSE],
               0, FALSE, 0, "NotProcessed", 0)

Init ==
  /\ made = 0 /\ entity = [e \in Entities |-> Blank]
  /\ mem = {} /\ memId = 0
  /\ db = {} /\ lastRow = 0
  /\ move = [t \in Threads |-> NoMove] /\ overtaken = {}
  /\ pending = {} /\ due = [t \in Threads |-> {}]
  /\ lastPoint = Never /\ starts = <<>> /\ timer = Never
  /\ block = None /\ replaces = 0
  /\ notifying = None /\ stage = "idle"
  /\ changed = <<>>

\* The worker's event loop takes D-Bus calls ...
Client ==
  \/ \E k \in Kinds, quiet \in BOOLEAN : NotifyNew(k, quiet)
  \/ \E k \in Kinds, b \in 1..replaces : NotifyReplace(k, b)
  \/ \E b \in 1..replaces : CloseNotification(b)

\* ... and goes on with what it has begun.
Internal ==
  \/ Announce
  \/ PushPending
  \/ TimerFires
  \/ StartTimer
  \/ AddReplacement
  \/ \E t \in Threads : Insert(t) \/ Take(t) \/ Finish(t) \/ HandleDue(t)
  \/ Tick

Bubbles ==
  \/ \E i \in BubbleIds, reason \in {"Closed", "Dismissed"} :
       NotificationClosed(i, reason)
  \/ \E i \in BubbleIds : ActionInvoked(i)
  \/ \E i \in BubbleIds \cup {None} : SetBlockClosedId(i)

Center ==
  /\ CenterInUse
  /\ \/ \E i \in RowIds : ActionInvoked(i) \/ RemoveNotification(i)
     \/ \E a \in Apps : RemoveByApp(a)
     \/ RemoveAll
     \/ \E e \in Entities : RemoveExpired(e)

Next == Client \/ Internal \/ Bubbles \/ Center

Spec == Init /\ [][Next]_vars

\* Time passes, an event loop that has an event takes it, a loop that runs
\* ends.  Nothing is assumed of clients and of the user.
Fairness ==
  /\ WF_vars(Tick)
  /\ WF_vars(TimerFires)
  /\ WF_vars(StartTimer)
  /\ WF_vars(Announce)
  /\ WF_vars(PushPending)
  /\ WF_vars(AddReplacement)
  /\ \A t \in Threads : /\ WF_vars(Insert(t)) /\ WF_vars(Take(t)) /\ WF_vars(Finish(t))
                        /\ WF_vars(HandleDue(t))

FairSpec == Spec /\ Fairness

-----------------------------------------------------------------------------
(* Properties.                                                               *)

\* Every variable keeps its type.
TypeOK ==
  /\ made \in 0..MaxEntities /\ entity \in [Entities -> Data]
  /\ mem \subseteq Entities /\ memId \in Int
  /\ db \subseteq Row /\ lastRow \in Nat
  /\ move \in [Threads -> Move] /\ overtaken \subseteq Entities
  /\ pending \subseteq Item /\ due \in [Threads -> SUBSET Entities]
  /\ lastPoint \in Nat \cup {Never} /\ timer \in Nat \cup {Never}
  /\ starts \in Seq(Nat)
  /\ block \in Int /\ replaces \in Nat
  /\ notifying \in Entities \cup {None}
  /\ stage \in {"idle", "replacing", "stored", "announced"}
  /\ changed \in Seq([id : Int, type : Types])

\* A notification whose timeout is pending, and that the pointer does not
\* hold, has a timer that is running or about to be started: whatever the
\* order of pushPendingEntity, of the hover and of the removals that restart
\* the timer, m_lastTimeoutPoint never claims a timer nobody started.
TimeoutArmed ==
  (\E p \in pending : entity[p.ent].id # block)
     => timer # Never \/ starts # <<>>

\* What makes TimeoutArmed inductive: m_lastTimeoutPoint is finite exactly as
\* long as a timer or a start is there, and infinite only while every pending
\* notification is held by the pointer.  Names refer to created entities only.
Created ==
  /\ \A p \in pending : p.ent <= made
  /\ \A t \in Threads : \A e \in due[t] : e <= made
  /\ \A t \in Threads : IF move[t].at = "none" THEN move[t] = NoMove
                        ELSE move[t].ent # None /\ move[t].ent <= made
  /\ notifying <= made
  /\ stage # "idle" => notifying # None
  /\ \A e \in mem : e <= made
  /\ \A r \in db : r.ent <= made

TimerInv ==
  /\ lastPoint # Never => timer # Never \/ starts # <<>>
  /\ \A p \in pending : entity[p.ent].id # block => lastPoint # Never

\* A notification is in one store only, once, except while a move of it is between the INSERT
\* and the removal; and no two that are live share an id.  Those a call of one thread took
\* hold of while the other moved them are left out: of them the code may keep two rows.
StoredOnce ==
  /\ \A r \in db : r.ent \in mem \ overtaken =>
       \E t \in Threads : move[t].at = "inserted" /\ move[t].ent = r.ent /\ move[t].row = r.id
  /\ \A r, s \in db : r.id = s.id \/ (r.ent = s.ent /\ r.ent \notin overtaken) => r = s
  /\ \A e, f \in mem : entity[e].id = entity[f].id => e = f

\* A notification the user or its application closed while it was live is gone for good,
\* if not closed in the middle of a move of the other thread: then its row stays.
ClosedIsGone ==
  \A e \in (1..made) \ overtaken : entity[e].type = "Removed" =>
     e \notin mem /\ \A r \in db : r.ent # e

\* Both: what the two threads do to a notification leaves it in one place, or gone.
StoreSound == StoredOnce /\ ClosedIsGone

Live(e) == e \in mem /\ entity[e].type = "NotProcessed"

\* An application sees one live notification per id it was given, also when a
\* replacement meets an INSERT that fails: the bubble id names one thing.
OneLivePerBubble ==
  \A e, f \in mem : Live(e) /\ Live(f) /\ entity[e].bubble = entity[f].bubble
                      => e = f

\* The server is still going to look at the timeout of e.
Watched(e) ==
  \/ \E p \in pending : p.ent = e
  \/ \E t \in Threads : e \in due[t]
  \/ notifying = e

\* No replacement other than e has used the bubble of e.
SoleReplacement(e) ==
  \A f \in 1..made : f # e /\ entity[f].bubble = entity[e].bubble
                       => ~entity[f].replace

\* A live notification with a timeout keeps it, whatever happens to others and
\* on whichever thread, as long as its bubble has been replaced once at most, and not in the
\* middle of a move of the other thread.
FreshTimeoutKept ==
  \A e \in mem \ overtaken :
    Live(e) /\ entity[e].kind.timeout > 0 /\ SoleReplacement(e) => Watched(e)

\* A live notification leaves memory only once it has a row, because it was
\* closed, or because it is one the history does not take (hidden, or a
\* transfer in progress); a hidden replacement takes the place of the old one.
\* In particular a failing INSERT loses nothing, and a move takes only what it saved, but
\* for the replacement that took the place of a notification the other thread was moving.
NothingLost ==
  [][\A e \in mem \ overtaken : e \notin mem' =>
       \/ \E t \in Threads : move[t].ent = e /\ move[t].row # None
       \/ entity'[e].type = "Removed"
       \/ entity[e].kind.hidden \/ entity[e].kind.bluetooth
       \/ FALSE \in CenterSetting
       \/ \E f \in mem' : /\ f \notin mem /\ entity'[f].kind.hidden
                          /\ entity'[f].bubble = entity[e].bubble]_vars

\* Every live notification with a timeout is closed in the end, or its bubble
\* is under the pointer, or it is replaced again.
Expires ==
  \A e \in Entities :
    (Live(e) /\ entity[e].kind.timeout > 0)
      ~> (~Live(e) \/ entity[e].id = block \/ ~SoleReplacement(e) \/ e \in overtaken)

=============================================================================
