---------------------- MODULE NotificationSystem_proofs ----------------------
(***************************************************************************)
(* What is proved of the server, for every value of its constants: the     *)
(* types and the timer; and what becomes of a notification: it is stored   *)
(* once, is live once per bubble, keeps its timeout, and is not lost.      *)
(* Of the panel of banners, under any server.                              *)
(* And of the system of the two: what is proved of each under any          *)
(* environment holds of both together; the ids the banners name are ids    *)
(* the server expects; and a live notification keeps its banner.           *)
(***************************************************************************)
EXTENDS NotificationSystem, FiniteSetTheorems, TLAPS

-----------------------------------------------------------------------------
(* The server.                                                                *)

Ann == [id : Int, type : Types]

\* What every use of onHandingPendingEntities leaves behind: fewer points, and
\* a start on its way exactly when points are left.
LEMMA HandlePendingLemma ==
  ASSUME TypeOK, NEW t \in Threads, NEW P \in SUBSET Item,
         NEW D \in [Threads -> SUBSET Entities], HandlePending(t, P, D)
  PROVE  /\ pending' \subseteq P
         /\ due' \in [Threads -> SUBSET Entities]
         /\ \A u \in Threads : \A e \in due'[u] :
               e \in D[u] \/ \E p \in P : p.ent = e
         /\ lastPoint' \in Nat \cup {Never}
         /\ starts' \in Seq(Nat)
         /\ pending' # {} => lastPoint' # Never
         /\ lastPoint' # Never => starts' # <<>>
<1> DEFINE taken == {p \in P : p.left = 0}
           rest == P \ taken
<1>1. /\ due' = [D EXCEPT ![t] = @ \cup {p.ent : p \in taken}]
      /\ pending' = rest
      /\ IF rest = {}
           THEN lastPoint' = Never /\ starts' = starts
           ELSE \E n \in FirstLeft(rest) :
                  lastPoint' = n /\ starts' = Append(starts, n)
  BY DEF HandlePending
<1>2. \A p \in P : p.ent \in Entities /\ p.left \in Nat
  BY DEF Item
<1>3. {p.ent : p \in taken} \subseteq Entities
  BY <1>2
<1>4. due' \in [Threads -> SUBSET Entities]
  BY <1>1, <1>3
<1>5. \A u \in Threads : \A e \in due'[u] :
               e \in D[u] \/ \E p \in P : p.ent = e
  BY <1>1
<1>6. starts \in Seq(Nat)
  BY DEF TypeOK
<1>7. CASE rest = {}
  BY <1>1, <1>4, <1>5, <1>6, <1>7
<1>8. CASE rest # {}
  <2>1. PICK n \in FirstLeft(rest) : lastPoint' = n /\ starts' = Append(starts, n)
    BY <1>1, <1>8
  <2>2. n \in Nat
    BY <2>1, <1>2 DEF FirstLeft
  <2>3. Append(starts, n) \in Seq(Nat) /\ Append(starts, n) # <<>>
    BY <2>2, <1>6
  <2>4. n # Never
    BY <2>2 DEF Never
  <2> QED
    BY <1>1, <1>4, <1>5, <2>1, <2>2, <2>3, <2>4
<1> QED
  BY <1>7, <1>8

\* removePendingEntity either finds nothing, and then nothing pending has the
\* id it was called with, or ends as onHandingPendingEntities does.
LEMMA RemovePendingLemma ==
  ASSUME TypeOK, NEW t \in Threads, NEW D \in [Threads -> SUBSET Entities],
         NEW ent, NEW i, NEW rep, NEW b, RemovePending(t, D, ent, i, rep, b)
  PROVE  /\ pending' \subseteq pending
         /\ due' \in [Threads -> SUBSET Entities]
         /\ \A u \in Threads : \A e \in due'[u] :
               e \in D[u] \/ \E p \in pending : p.ent = e
         /\ lastPoint' \in Nat \cup {Never}
         /\ starts' \in Seq(Nat)
         /\ \/ /\ pending' # {} => lastPoint' # Never
               /\ lastPoint' # Never => starts' # <<>>
            \/ /\ UNCHANGED <<lastPoint, starts>>
               /\ \A p \in pending : ent[p.ent].id # i
               /\ \A p \in pending : rep => ent[p.ent].bubble # b
<1> DEFINE found == Matching(pending, ent, i, rep, b)
<1>1. CASE found = {}
  <2>1. UNCHANGED <<pending, lastPoint, starts>> /\ due' = D
    BY <1>1 DEF RemovePending
  <2>2. \A p \in pending : ent[p.ent].id # i /\ (rep => ent[p.ent].bubble # b)
    BY <1>1 DEF Matching
  <2> QED
    BY <2>1, <2>2 DEF TypeOK
<1>2. CASE found # {}
  <2>1. PICK p \in found : HandlePending(t, pending \ {p}, D)
    BY <1>2 DEF RemovePending
  <2>2. pending \ {p} \in SUBSET Item
    BY DEF TypeOK
  <2>3. /\ pending' \subseteq pending \ {p}
        /\ due' \in [Threads -> SUBSET Entities]
        /\ \A u \in Threads : \A e \in due'[u] :
               e \in D[u] \/ \E q \in pending \ {p} : q.ent = e
        /\ lastPoint' \in Nat \cup {Never}
        /\ starts' \in Seq(Nat)
        /\ pending' # {} => lastPoint' # Never
        /\ lastPoint' # Never => starts' # <<>>
    BY <2>1, <2>2, HandlePendingLemma
  <2> QED
    BY <2>3
<1> QED
  BY <1>1, <1>2

\* What removePendingEntity changes, once the heap is what it is after the step.
PendingEffect(D) ==
  /\ pending' \subseteq pending
  /\ due' \in [Threads -> SUBSET Entities]
  /\ \A u \in Threads : \A e \in due'[u] :
        e \in D[u] \/ \E p \in pending : p.ent = e
  /\ lastPoint' \in Nat \cup {Never}
  /\ starts' \in Seq(Nat)
  /\ \/ /\ pending' # {} => lastPoint' # Never
        /\ lastPoint' # Never => starts' # <<>>
     \/ /\ UNCHANGED <<lastPoint, starts>>
        /\ \A p \in pending' : entity'[p.ent].id = entity[p.ent].id

\* A thread's move goes on or ends, or it begins one of a live notification.
MovesOn(t) ==
  /\ move' \in [Threads -> Move] /\ overtaken' \subseteq Entities
  /\ \A u \in Threads : u # t => move'[u] = move[u]
  /\ \/ move'[t] \in {move[t], NoMove}
     \/ move'[t].at # "none" /\ move'[t].ent \in mem

\* updateEntityProcessed of a live entity, or of a row, the whole call with its lookup, and
\* the end of a move: what it may change.
SettleEffect(t, D) ==
  /\ entity' \in [Entities -> Data]
  /\ mem' \subseteq mem
  /\ db' \subseteq Row
  /\ \A r \in db' : \E s \in db : s.ent = r.ent
  /\ lastRow' \in Nat
  /\ changed' \in Seq(Ann)
  /\ MovesOn(t)
  /\ \A f \in Entities : entity'[f].bubble = entity[f].bubble
  /\ PendingEffect(D)

\* removePendingEntity after one entity changed.
LEMMA PendingAfter ==
  ASSUME TypeOK, NEW t \in Threads, NEW D \in [Threads -> SUBSET Entities],
         NEW e, NEW ent, \A f \in Entities : f # e => ent[f] = entity[f],
         NEW rep, NEW b, RemovePending(t, D, ent, ent[e].id, rep, b), entity' = ent
  PROVE  PendingEffect(D)
<1>1. \/ /\ pending' # {} => lastPoint' # Never
         /\ lastPoint' # Never => starts' # <<>>
      \/ /\ UNCHANGED <<lastPoint, starts>>
         /\ \A p \in pending : ent[p.ent].id # ent[e].id
  BY RemovePendingLemma
<1>2. /\ pending' \subseteq pending
      /\ due' \in [Threads -> SUBSET Entities]
      /\ \A u \in Threads : \A f \in due'[u] :
            f \in D[u] \/ \E p \in pending : p.ent = f
      /\ lastPoint' \in Nat \cup {Never}
      /\ starts' \in Seq(Nat)
  BY RemovePendingLemma
<1>3. ASSUME \A p \in pending : ent[p.ent].id # ent[e].id, NEW p \in pending'
      PROVE  entity'[p.ent].id = entity[p.ent].id
  BY <1>2, <1>3 DEF TypeOK, Item
<1> QED
  BY <1>1, <1>2, <1>3 DEF PendingEffect

LEMMA OvertakeType ==
  ASSUME TypeOK, NEW i, NEW E \in SUBSET Entities, Overtake(i, E)
  PROVE  overtaken' \subseteq Entities
BY DEF Overtake, TypeOK

\* The state a move begins in, and the heap with another type of an entity.
LEMMA BeginsWell ==
  ASSUME TypeOK, NEW t \in Threads, NEW e \in mem, NEW ty \in Types,
         NEW ent \in [Entities -> Data], BeginMove(t, e, ty, ent)
  PROVE  /\ entity' \in [Entities -> Data]
         /\ entity' = [ent EXCEPT ![e] = [@ EXCEPT !.type = ty]]
         /\ \A f \in Entities : f # e => entity'[f] = ent[f]
         /\ \A f \in Entities : entity'[f].id = ent[f].id /\ entity'[f].bubble = ent[f].bubble
         /\ move' \in [Threads -> Move]
         /\ \A u \in Threads : u # t => move'[u] = move[u]
         /\ move'[t] = [at |-> "typed", ent |-> e, id |-> entity[e].id, row |-> None]
<1>1. e \in Entities /\ entity[e] \in Data /\ ent[e] \in Data /\ move \in [Threads -> Move]
  BY DEF TypeOK
<1>2. entity' = [ent EXCEPT ![e] = [@ EXCEPT !.type = ty]]
  BY DEF BeginMove
<1>3. [ent[e] EXCEPT !.type = ty] \in Data /\ [ent[e] EXCEPT !.type = ty].id = ent[e].id
      /\ [ent[e] EXCEPT !.type = ty].bubble = ent[e].bubble
  BY <1>1 DEF Data
<1>4. [at |-> "typed", ent |-> e, id |-> entity[e].id, row |-> None] \in Move
  BY <1>1 DEF Move, Data, None
<1> QED
  BY <1>1, <1>2, <1>3, <1>4 DEF BeginMove

\* Closing, expiring or acting on a live notification, up to its move if it has one, has
\* that effect.
LEMMA SettleLiveLemma ==
  ASSUME TypeOK, NEW t \in Threads, NEW D \in [Threads -> SUBSET Entities],
         NEW e \in mem, NEW ty \in Types, SettleLive(t, D, e, ty)
  PROVE  SettleEffect(t, D)
<1>1. e \in Entities /\ entity[e] \in Data /\ entity \in [Entities -> Data]
      /\ move \in [Threads -> Move]
  BY DEF TypeOK
<1>2. /\ overtaken' \subseteq Entities
      /\ db' = db /\ lastRow' = lastRow /\ db' \subseteq Row /\ lastRow' \in Nat
  BY <1>1, OvertakeType DEF SettleLive, TypeOK
<1>3. CASE Drop(t, D, e, ty)
  <2>1. PICK ent : ent = [entity EXCEPT ![e].type = ty]
    OBVIOUS
  <2>2. /\ ent \in [Entities -> Data] /\ ent[e].id = entity[e].id
        /\ \A f \in Entities : f # e => ent[f] = entity[f]
        /\ \A f \in Entities : ent[f].bubble = entity[f].bubble
    BY <1>1, <2>1 DEF Data
  <2>3. entity' = ent /\ mem' = mem \ {e} /\ changed' = <<[id |-> entity[e].id, type |-> ty]>>
        /\ move' = move
    BY <1>3, <2>1 DEF Drop
  <2>4. RemovePending(t, D, ent, ent[e].id, entity[e].replace, entity[e].bubble)
    <3>1. RemovePending(t, D, ent, entity[e].id, entity[e].replace, entity[e].bubble)
      BY <1>3, <2>3 DEF Drop, RemovePending, Matching
    <3> QED
      BY <2>2, <3>1
  <2>5. PendingEffect(D)
    BY <2>2, <2>3, <2>4, PendingAfter
  <2>6. changed' \in Seq(Ann)
    BY <1>1, <2>3 DEF Ann, Data
  <2>7. MovesOn(t)
    BY <1>1, <1>2, <2>3 DEF MovesOn
  <2> QED
    BY <1>2, <2>2, <2>3, <2>5, <2>6, <2>7 DEF SettleEffect
<1>4. CASE /\ BeginMove(t, e, ty, entity) /\ due' = D /\ changed' = <<>>
           /\ UNCHANGED <<mem, pending, lastPoint, starts>>
  <2>1. /\ entity' \in [Entities -> Data]
        /\ \A f \in Entities : entity'[f].id = entity[f].id /\ entity'[f].bubble = entity[f].bubble
        /\ move' \in [Threads -> Move]
        /\ \A u \in Threads : u # t => move'[u] = move[u]
        /\ move'[t] = [at |-> "typed", ent |-> e, id |-> entity[e].id, row |-> None]
    BY <1>1, <1>4, BeginsWell
  <2>2. MovesOn(t)
    BY <1>2, <2>1 DEF MovesOn
  <2>3. PendingEffect(D)
    BY <1>4, <2>1 DEF PendingEffect, TypeOK, Item
  <2>4. changed' \in Seq(Ann)
    BY <1>4
  <2> QED
    BY <1>2, <1>4, <2>1, <2>2, <2>3, <2>4 DEF SettleEffect
<1> QED
  BY <1>3, <1>4 DEF SettleLive

\* So has doing it to a row of the history.
LEMMA SettleRowLemma ==
  ASSUME TypeOK, NEW t \in Threads, NEW D \in [Threads -> SUBSET Entities],
         NEW r \in db, NEW ty \in Types, SettleRow(t, D, r, ty)
  PROVE  SettleEffect(t, D)
<1>1. /\ \/ db' = db \ {r}
         \/ db' = (db \ {r}) \cup {[r EXCEPT !.type = ty]}
      /\ changed' = <<[id |-> r.id, type |-> ty]>>
      /\ RemovePending(t, D, entity, r.id, entity[r.ent].replace,
                       entity[r.ent].bubble)
      /\ UNCHANGED <<entity, mem, lastRow, move, overtaken>>
  BY DEF SettleRow, moves
<1>2. r \in Row /\ db \subseteq Row
  BY DEF TypeOK
<1>3. [r EXCEPT !.type = ty] \in Row /\ [r EXCEPT !.type = ty].ent = r.ent
  BY <1>2 DEF Row
<1>4. /\ db' \subseteq Row
      /\ \A q \in db' : \E s \in db : s.ent = q.ent
  BY <1>1, <1>2, <1>3
<1>5. changed' \in Seq(Ann)
  BY <1>1, <1>2 DEF Ann, Row
<1>6. \/ /\ pending' # {} => lastPoint' # Never
         /\ lastPoint' # Never => starts' # <<>>
      \/ UNCHANGED <<lastPoint, starts>>
  BY <1>1, RemovePendingLemma
<1>7. /\ pending' \subseteq pending
      /\ due' \in [Threads -> SUBSET Entities]
      /\ \A u \in Threads : \A f \in due'[u] :
            f \in D[u] \/ \E p \in pending : p.ent = f
      /\ lastPoint' \in Nat \cup {Never}
      /\ starts' \in Seq(Nat)
  BY <1>1, RemovePendingLemma
<1>8. PendingEffect(D) /\ MovesOn(t)
  BY <1>1, <1>6, <1>7 DEF PendingEffect, MovesOn, TypeOK
<1> QED
  BY <1>1, <1>4, <1>5, <1>8 DEF SettleEffect, TypeOK

\* fetchEntity followed by updateEntityProcessed: one of the two, or nothing.
LEMMA SettleLemma ==
  ASSUME TypeOK, NEW t \in Threads, NEW D \in [Threads -> SUBSET Entities],
         NEW i, NEW next \in [Types -> Types], Settle(t, D, i, next)
  PROVE  SettleEffect(t, D)
<1>1. ASSUME NEW e \in InMemory(i), SettleLive(t, D, e, next[entity[e].type])
      PROVE  SettleEffect(t, D)
  <2>1. e \in mem
    BY DEF InMemory
  <2>2. next[entity[e].type] \in Types
    BY <2>1 DEF TypeOK, Data
  <2> QED
    BY <1>1, <2>1, <2>2, SettleLiveLemma
<1>2. ASSUME NEW r \in InDb(i), SettleRow(t, D, r, next[r.type])
      PROVE  SettleEffect(t, D)
  <2>1. r \in db
    BY DEF InDb
  <2>2. next[r.type] \in Types
    BY <2>1 DEF TypeOK, Row
  <2> QED
    BY <1>2, <2>1, <2>2, SettleRowLemma
<1>3. CASE /\ due' = D
           /\ changed' = <<>>
           /\ UNCHANGED <<entity, mem, db, lastRow, moves, pending, lastPoint, starts>>
  BY <1>3 DEF SettleEffect, PendingEffect, MovesOn, moves, TypeOK
<1> QED
  BY <1>1, <1>2, <1>3 DEF Settle

-----------------------------------------------------------------------------
(* The inductive invariant, action by action.                                *)

\* A replacement that waits for the old notification to move: both have the bubble.
Replacing ==
  stage = "replacing" =>
    /\ move["worker"].at # "none" /\ move["worker"].ent # notifying
    /\ entity[move["worker"].ent].bubble = entity[notifying].bubble

IInv == TypeOK /\ Created /\ TimerInv /\ Replacing

\* The invariant holds of a server that has just started.
LEMMA InitIInv == Init => IInv
<1> SUFFICES ASSUME Init PROVE IInv
  OBVIOUS
<1>1. PICK a \in Apps : (CHOOSE x \in Apps : TRUE) = a
  BY AppsAssumption
<1>2. Blank \in Data
  BY <1>1 DEF Blank, Fresh, Data, KindType, Types
<1>3. TypeOK
  <2>1. NoMove \in Move
    BY DEF NoMove, Move, None
  <2> QED
    BY <1>2, <2>1, BoundsAssumption DEF Init, TypeOK, Threads, None, Never
<1>4. Created /\ TimerInv /\ Replacing
  BY DEF Init, Created, TimerInv, Replacing, Threads, None, NoMove
<1> QED
  BY <1>3, <1>4 DEF IInv

\* A call that settles one entity.
LEMMA SettleStep ==
  ASSUME IInv, NEW t \in Threads, NEW D \in [Threads -> SUBSET Entities],
         \A u \in Threads : D[u] \subseteq due[u],
         SettleEffect(t, D), t = "worker" => stage # "replacing",
         UNCHANGED <<made, memId, timer, block, replaces, call>>
  PROVE  IInv'
<1> USE DEF IInv, SettleEffect, PendingEffect, MovesOn, call
<1>1. TypeOK'
  BY DEF TypeOK, Ann
<1>2. Created'
  <2>1. \A u \in Threads : \A e \in due'[u] : e <= made
    <3>1. \A u \in Threads : \A e \in due[u] : e <= made
      BY DEF Created
    <3>2. \A p \in pending : p.ent <= made
      BY DEF Created
    <3>3. \A u \in Threads : \A e \in due'[u] :
             e \in due[u] \/ \E p \in pending : p.ent = e
      OBVIOUS
    <3> QED
      BY <3>1, <3>2, <3>3
  <2>2. \A r \in db' : r.ent <= made
    BY DEF Created
  <2>3. /\ \A p \in pending' : p.ent <= made
        /\ \A e \in mem' : e <= made
    BY DEF Created
  <2>4. \A u \in Threads : IF move'[u].at = "none" THEN move'[u] = NoMove
                          ELSE move'[u].ent # None /\ move'[u].ent <= made
    <3>1. \A u \in Threads : IF move[u].at = "none" THEN move[u] = NoMove
                             ELSE move[u].ent # None /\ move[u].ent <= made
      BY DEF Created
    <3>2. \A e \in mem : e # None /\ e <= made
      BY DEF Created, TypeOK, Entities, None
    <3>3. NoMove.at = "none"
      BY DEF NoMove
    <3>4. /\ \A u \in Threads : u # t => move'[u] = move[u]
          /\ \/ move'[t] \in {move[t], NoMove}
             \/ move'[t].at # "none" /\ move'[t].ent \in mem
      OBVIOUS
    <3> SUFFICES ASSUME NEW u \in Threads
                 PROVE  IF move'[u].at = "none" THEN move'[u] = NoMove
                        ELSE move'[u].ent # None /\ move'[u].ent <= made
      OBVIOUS
    <3>5. move'[u] \in {move[u], NoMove} \/ (move'[u].at # "none" /\ move'[u].ent \in mem)
      BY <3>4
    <3> HIDE DEF IInv, SettleEffect, PendingEffect, MovesOn, call
    <3>6. CASE move'[u] = move[u]
      BY <3>1, <3>6
    <3>7. CASE move'[u] = NoMove
      BY <3>3, <3>7
    <3>8. CASE move'[u].at # "none" /\ move'[u].ent \in mem
      BY <3>2, <3>8
    <3> QED
      BY <3>5, <3>6, <3>7, <3>8
  <2> QED
    BY <2>1, <2>2, <2>3, <2>4 DEF Created
<1>3. TimerInv'
  BY DEF TimerInv
<1>4. Replacing'
  <2>1. CASE stage = "replacing"
    <3>1. move'["worker"] = move["worker"] /\ move["worker"].at # "none"
      BY <2>1 DEF Threads, Replacing
    <3>2. move["worker"].ent \in Entities /\ notifying \in Entities
      BY <2>1, <3>1 DEF TypeOK, Created, Move, Threads
    <3> QED
      BY <3>1, <3>2 DEF Replacing
  <2> QED
    BY <2>1 DEF Replacing
<1> QED
  BY <1>1, <1>2, <1>3, <1>4

\* A call that only looks at the pending timeouts.
LEMMA HandleStep ==
  ASSUME IInv, NEW t \in Threads, NEW P \in SUBSET Item,
         \A p \in P : p.ent <= made,
         HandlePending(t, P, due), timer' \in Nat \cup {Never}, block' \in Int,
         changed' = <<>>, UNCHANGED <<heap, store, replaces, call>>
  PROVE  IInv'
<1> USE DEF IInv, heap, store, moves, call
<1>1. /\ pending' \subseteq P
      /\ due' \in [Threads -> SUBSET Entities]
      /\ \A u \in Threads : \A e \in due'[u] :
            e \in due[u] \/ \E p \in P : p.ent = e
      /\ lastPoint' \in Nat \cup {Never}
      /\ starts' \in Seq(Nat)
      /\ pending' # {} => lastPoint' # Never
      /\ lastPoint' # Never => starts' # <<>>
  <2>1. due \in [Threads -> SUBSET Entities]
    BY DEF TypeOK
  <2> QED
    BY <2>1, HandlePendingLemma
<1>2. TypeOK'
  BY <1>1 DEF TypeOK
<1>3. Created'
  BY <1>1 DEF Created
<1>4. TimerInv' /\ Replacing'
  BY <1>1 DEF TimerInv, Replacing
<1> QED
  BY <1>2, <1>3, <1>4

\* The object a Notify call builds.
LEMMA FreshLemma ==
  ASSUME NEW k \in KindType, NEW b \in Nat, NEW rep \in BOOLEAN, NEW i \in Int,
         NEW ty \in Types, NEW s \in Nat
  PROVE  /\ Fresh(k, b, rep, i, ty, s) \in Data
         /\ Fresh(k, b, rep, i, ty, s).bubble = b
         /\ Fresh(k, b, rep, i, ty, s).replace = rep
BY DEF Fresh, Data

\* The two ways a new notification is stored.
LEMMA NewStores ==
  ASSUME IInv, NEW k \in Kinds, made + 1 \in Entities,
         AddNewLive(k) \/ AddNewQuiet(k)
  PROVE  /\ entity' \in [Entities -> Data]
         /\ \A f \in 1..made : entity'[f] = entity[f]
         /\ mem' \subseteq mem \cup {made + 1}
         /\ memId' \in Int
         /\ db' \subseteq Row
         /\ \A r \in db' : r \in db \/ r.ent = made + 1
         /\ lastRow' \in Nat
<1>1. /\ made \in Nat /\ memId \in Int /\ lastRow \in Nat /\ replaces \in Nat
      /\ k \in KindType /\ db \subseteq Row /\ entity \in [Entities -> Data]
  BY KindsAssumption, BoundsAssumption DEF IInv, TypeOK
<1>2. \A f \in 1..made : f \in Entities /\ f # made + 1
  BY <1>1, BoundsAssumption DEF Entities
<1>3. CASE AddNewLive(k)
  <2> DEFINE d == Fresh(k, replaces + 1, FALSE, memId - 1, "NotProcessed", made + 1)
  <2>1. d \in Data
    <3>1. /\ memId - 1 \in Int /\ made + 1 \in Nat /\ replaces + 1 \in Nat
          /\ "NotProcessed" \in Types
      BY <1>1 DEF Types
    <3> QED
      BY <1>1, <3>1, FreshLemma
  <2>2. /\ entity' = [entity EXCEPT ![made + 1] = d]
        /\ mem' = mem \cup {made + 1} /\ memId' = memId - 1
        /\ UNCHANGED <<db, lastRow>>
    BY <1>3 DEF AddNewLive, AddLive
  <2> HIDE DEF d
  <2> QED
    BY <1>1, <1>2, <2>1, <2>2
<1>4. CASE AddNewQuiet(k)
  <2>1. PICK ok \in DbOutcomes :
       LET saved == ok /\ ~k.bluetooth
       IN /\ entity' = [entity EXCEPT ![made + 1] =
               Fresh(k, replaces + 1, FALSE, IF saved THEN lastRow + 1 ELSE -1,
                     "Processed", 0)]
          /\ db' = IF saved THEN db \cup {NewRow(made + 1, "Processed")} ELSE db
          /\ lastRow' = IF saved THEN lastRow + 1 ELSE lastRow
    BY <1>4 DEF AddNewQuiet
  <2> DEFINE saved == ok /\ ~k.bluetooth
             i == IF saved THEN lastRow + 1 ELSE -1
             d == Fresh(k, replaces + 1, FALSE, i, "Processed", 0)
  <2>2. d \in Data
    <3>1. i \in Int /\ replaces + 1 \in Nat /\ "Processed" \in Types
      BY <1>1 DEF Types
    <3> HIDE DEF i
    <3> QED
      BY <1>1, <3>1, FreshLemma
  <2>3. /\ entity' = [entity EXCEPT ![made + 1] = d]
        /\ UNCHANGED <<mem, memId>>
        /\ db' = db \cup {NewRow(made + 1, "Processed")} \/ db' = db
        /\ lastRow' \in Nat
    <3>1. entity' = [entity EXCEPT ![made + 1] = d]
      BY <2>1
    <3>2. /\ db' = db \cup {NewRow(made + 1, "Processed")} \/ db' = db
          /\ lastRow' \in Nat
      BY <1>1, <2>1
    <3>3. UNCHANGED <<mem, memId>>
      BY <1>4 DEF AddNewQuiet
    <3> QED
      BY <3>1, <3>2, <3>3
  <2>4. NewRow(made + 1, "Processed") \in Row
        /\ NewRow(made + 1, "Processed").ent = made + 1
    BY <1>1 DEF NewRow, Row, Types
  <2> HIDE DEF d
  <2> QED
    BY <1>1, <1>2, <2>2, <2>3, <2>4
<1> QED
  BY <1>3, <1>4

\* Notify of a new notification, up to its announcement, keeps the invariant.
LEMMA NotifyNewStep ==
  ASSUME IInv, NEW k \in Kinds, NEW quiet \in BOOLEAN, NotifyNew(k, quiet)
  PROVE  IInv'
<1>1. /\ made < MaxEntities /\ made' = made + 1 /\ replaces' = replaces + 1
      /\ notifying' = made + 1 /\ stage' = "stored" /\ changed' = <<>>
      /\ UNCHANGED <<move, overtaken, pending, due, lastPoint, starts, timer, block>>
      /\ AddNewLive(k) \/ AddNewQuiet(k)
  BY DEF NotifyNew, moves, expiry
<1>2. made \in Nat /\ made + 1 \in Entities
  BY <1>1, BoundsAssumption DEF IInv, TypeOK, Entities
<1>3. /\ entity' \in [Entities -> Data]
      /\ \A f \in 1..made : entity'[f] = entity[f]
      /\ mem' \subseteq mem \cup {made + 1}
      /\ memId' \in Int
      /\ db' \subseteq Row
      /\ \A r \in db' : r \in db \/ r.ent = made + 1
      /\ lastRow' \in Nat
  BY <1>1, <1>2, NewStores
<1>4. TypeOK'
  BY <1>1, <1>2, <1>3 DEF IInv, TypeOK, Entities
<1>5. Created'
  <2>1. \A u \in Threads : \A e \in due'[u] : e <= made + 1
    BY <1>1, <1>2 DEF IInv, TypeOK, Created, Entities
  <2>2. ASSUME NEW r \in db' PROVE r.ent <= made + 1
    <3>1. \A s \in db : s.ent \in Nat /\ s.ent <= made
      BY BoundsAssumption DEF IInv, TypeOK, Created, Row, Entities
    <3>2. r \in db \/ r.ent = made + 1
      BY <1>3
    <3> QED
      BY <1>2, <3>1, <3>2
  <2>3. /\ \A p \in pending' : p.ent <= made + 1
        /\ \A e \in mem' : e <= made + 1
    BY <1>1, <1>2, <1>3 DEF IInv, TypeOK, Created, Item, Entities
  <2>4. \A u \in Threads : IF move[u].at = "none" THEN move[u] = NoMove
                          ELSE move[u].ent # None /\ move[u].ent <= made + 1
    BY <1>2 DEF IInv, TypeOK, Created, Move, Entities, None
  <2> QED
    BY <1>1, <1>2, <2>1, <2>2, <2>3, <2>4 DEF Created, None
<1>6. TimerInv'
  <2>1. \A p \in pending : p.ent \in 1..made
    BY <1>2 DEF IInv, TypeOK, Created, Item, Entities
  <2> QED
    BY <1>1, <1>3, <2>1 DEF IInv, TimerInv
<1>7. Replacing'
  BY <1>1 DEF Replacing
<1> QED
  BY <1>4, <1>5, <1>6, <1>7 DEF IInv

\* A step after which removePendingEntity is through: what else it may change.
LEMMA EffectStep ==
  ASSUME IInv, NEW D \in [Threads -> SUBSET Entities],
         \A u \in Threads : D[u] \subseteq due[u], PendingEffect(D),
         made' \in 0..MaxEntities, made <= made', entity' \in [Entities -> Data],
         mem' \subseteq Entities, \A e \in mem' : e <= made', memId' \in Int,
         db' \subseteq Row, \A r \in db' : r.ent <= made', lastRow' \in Nat,
         move' \in [Threads -> Move], overtaken' \subseteq Entities,
         \A u \in Threads : IF move'[u].at = "none" THEN move'[u] = NoMove
                            ELSE move'[u].ent # None /\ move'[u].ent <= made',
         notifying' \in Entities, notifying' <= made', stage' \in {"replacing", "stored"},
         changed' \in Seq(Ann), Replacing', UNCHANGED <<timer, block, replaces>>
  PROVE  IInv'
<1>1. /\ pending' \subseteq pending
      /\ due' \in [Threads -> SUBSET Entities]
      /\ \A u \in Threads : \A e \in due'[u] :
            e \in D[u] \/ \E p \in pending : p.ent = e
      /\ lastPoint' \in Nat \cup {Never}
      /\ starts' \in Seq(Nat)
      /\ \/ /\ pending' # {} => lastPoint' # Never
            /\ lastPoint' # Never => starts' # <<>>
         \/ /\ UNCHANGED <<lastPoint, starts>>
            /\ \A p \in pending' : entity'[p.ent].id = entity[p.ent].id
  BY DEF PendingEffect
<1>2. TypeOK'
  BY <1>1 DEF IInv, TypeOK, Ann
<1>3. Created'
  <2>1. /\ \A p \in pending : p.ent \in Nat /\ p.ent <= made
        /\ \A u \in Threads : \A e \in due[u] : e \in Nat /\ e <= made
    BY DEF IInv, TypeOK, Created, Item, Entities
  <2>2. made \in Nat /\ made' \in Nat
    BY BoundsAssumption DEF IInv, TypeOK
  <2>3. \A u \in Threads : \A e \in due'[u] : e <= made'
    <3> SUFFICES ASSUME NEW u \in Threads, NEW e \in due'[u] PROVE e <= made'
      OBVIOUS
    <3>1. e \in due[u] \/ \E p \in pending : p.ent = e
      BY <1>1
    <3>2. e \in Nat /\ e <= made
      BY <2>1, <3>1
    <3> QED
      BY <2>2, <3>2
  <2>4. \A p \in pending' : p.ent <= made'
    BY <1>1, <2>1, <2>2
  <2>5. notifying' # None
    BY DEF Entities, None
  <2> QED
    BY <2>3, <2>4, <2>5 DEF Created
<1>4. TimerInv'
  BY <1>1 DEF IInv, TimerInv
<1> QED
  BY <1>2, <1>3, <1>4 DEF IInv

\* The live notification a replacement finds.
LEMMA OldOne ==
  ASSUME IInv, made + 1 \in Entities, NEW b \in Nat, NEW old \in LastOfBubble(b)
  PROVE  /\ made \in Nat /\ memId \in Int /\ lastRow \in Nat
         /\ old \in Entities /\ old \in mem /\ old <= made /\ old # made + 1
         /\ entity[old] \in Data /\ entity[old].bubble = b
         /\ db \subseteq Row /\ entity \in [Entities -> Data]
         /\ \A f \in 1..made : f \in Entities /\ f # made + 1
         /\ \A e \in mem : e \in Nat /\ e <= made /\ e <= made + 1
         /\ \A r \in db : r.ent <= made + 1
         /\ \A p \in pending : p.ent \in 1..made
         /\ \A u \in Threads : move[u].at # "none" => move[u].ent # None /\ move[u].ent <= made + 1
<1>1. old \in mem /\ entity[old].bubble = b
  BY DEF LastOfBubble
<1>2. made \in Nat
  BY BoundsAssumption DEF IInv, TypeOK
<1>3. old \in Entities /\ old <= made /\ old # made + 1
  BY <1>1, <1>2, BoundsAssumption DEF IInv, TypeOK, Created, Entities
<1>4. \A f \in 1..made : f \in Entities /\ f # made + 1
  BY <1>2, BoundsAssumption DEF Entities
<1>5. \A e \in mem : e \in Nat /\ e <= made /\ e <= made + 1
  BY <1>2, BoundsAssumption DEF IInv, TypeOK, Created, Entities
<1>6. \A r \in db : r.ent <= made + 1
  BY <1>2, BoundsAssumption DEF IInv, TypeOK, Created, Entities, Row
<1>7. \A p \in pending : p.ent \in 1..made
  BY <1>2, BoundsAssumption DEF IInv, TypeOK, Created, Entities, Item
<1>8. \A u \in Threads : move[u].at # "none" => move[u].ent # None /\ move[u].ent <= made + 1
  BY <1>2, BoundsAssumption DEF IInv, TypeOK, Created, Entities, Move, None
<1> QED
  BY <1>1, <1>2, <1>3, <1>4, <1>5, <1>6, <1>7, <1>8 DEF IInv, TypeOK

\* So does Notify of a replacement, which drops a pending timeout as well: at once when it
\* takes the place of the old one ...
LEMMA InPlaceStep ==
  ASSUME IInv, NEW k \in Kinds, NEW b \in Nat, made + 1 \in Entities,
         NEW old \in LastOfBubble(b), ReplaceInPlace(k, b, old),
         made' = made + 1, notifying' = made + 1, changed' = <<>>,
         UNCHANGED <<memId, db, lastRow, timer, block, replaces>>
  PROVE  IInv'
<1> DEFINE d == Fresh(k, b, TRUE, entity[old].id, "NotProcessed", entity[old].slot)
<1>1. d \in Data /\ d.bubble = b
  <2>1. entity[old].id \in Int /\ entity[old].slot \in Nat
    BY OldOne DEF Data
  <2>2. k \in KindType /\ "NotProcessed" \in Types /\ TRUE \in BOOLEAN
    BY KindsAssumption DEF Types
  <2>3. d \in Data
    BY <2>1, <2>2, FreshLemma
  <2> QED
    BY <2>3 DEF Fresh
<1>2. /\ entity' = [entity EXCEPT ![made + 1] = d]
      /\ mem' = (mem \ {old}) \cup {made + 1} /\ stage' = "stored" /\ move' = move
      /\ Overtake(entity[old].id, {made + 1}) /\ DropReplaced(made + 1)
  BY DEF ReplaceInPlace
<1> HIDE DEF d
<1>3. PICK ent : ent = entity'
  OBVIOUS
<1>4. /\ entity' \in [Entities -> Data]
      /\ \A f \in Entities : f # made + 1 => ent[f] = entity[f]
  BY <1>1, <1>2, <1>3, OldOne
<1>5. RemovePending("worker", due, ent, ent[made + 1].id, TRUE, ent[made + 1].bubble)
  BY <1>2, <1>3 DEF DropReplaced, RemovePending, Matching
<1>6. "worker" \in Threads /\ due \in [Threads -> SUBSET Entities] /\ TypeOK
  BY DEF Threads, IInv, TypeOK
<1>7. PendingEffect(due)
  BY <1>3, <1>4, <1>5, <1>6, PendingAfter
<1>8. overtaken' \subseteq Entities
  BY <1>2, <1>6, OvertakeType
<1>9. /\ made' \in 0..MaxEntities /\ made <= made'
      /\ mem' \subseteq Entities /\ \A e \in mem' : e <= made'
      /\ \A r \in db' : r.ent <= made'
      /\ \A u \in Threads : IF move'[u].at = "none" THEN move'[u] = NoMove
                            ELSE move'[u].ent # None /\ move'[u].ent <= made'
  <2>1. made' \in 0..MaxEntities /\ made <= made' /\ made + 1 <= made'
    BY OldOne, BoundsAssumption DEF Entities
  <2>2. mem' \subseteq Entities /\ \A e \in mem' : e <= made'
    BY <1>2, <1>6, <2>1, OldOne DEF TypeOK
  <2>3. \A u \in Threads : move[u].at = "none" => move[u] = NoMove
    BY DEF IInv, Created
  <2> QED
    BY <1>2, <2>1, <2>2, <2>3, OldOne
<1>10. db' \subseteq Row /\ lastRow' \in Nat /\ memId' \in Int /\ move' \in [Threads -> Move]
  BY <1>2, <1>6 DEF TypeOK
<1>11. notifying' \in Entities /\ notifying' <= made' /\ changed' \in Seq(Ann) /\ Replacing'
  BY <1>2, <1>9 DEF Replacing
<1> QED
  BY <1>2, <1>4, <1>6, <1>7, <1>8, <1>9, <1>10, <1>11, EffectStep

\* ... else later, when the old one has been moved ...
LEMMA ByMovingStep ==
  ASSUME IInv, NEW k \in Kinds, NEW b \in Nat, made + 1 \in Entities,
         NEW old \in LastOfBubble(b), ReplaceByMoving(k, b, old),
         made' = made + 1, notifying' = made + 1, changed' = <<>>,
         UNCHANGED <<memId, db, lastRow, timer, block, replaces>>
  PROVE  IInv'
<1> DEFINE d == Fresh(k, b, TRUE, None, "NotProcessed", made + 1)
<1>1. d \in Data /\ d.bubble = b
  <2>1. k \in KindType /\ "NotProcessed" \in Types /\ made + 1 \in Nat /\ None \in Int
    BY KindsAssumption, OldOne DEF Types, None
  <2>2. d \in Data
    BY <2>1, FreshLemma
  <2> QED
    BY <2>2 DEF Fresh
<1> DEFINE ent == [entity EXCEPT ![made + 1] = d]
<1>2. /\ BeginMove("worker", old, "Processed", ent)
      /\ mem' = mem /\ stage' = "replacing"
      /\ UNCHANGED <<pending, due, lastPoint, starts>>
      /\ Overtake(entity[old].id, {old})
  BY DEF ReplaceByMoving, expiry
<1>3. ent \in [Entities -> Data] /\ \A f \in Entities : f # made + 1 => ent[f] = entity[f]
  BY <1>1, OldOne
<1> HIDE DEF ent
<1>4. "worker" \in Threads /\ due \in [Threads -> SUBSET Entities] /\ TypeOK
      /\ old \in mem /\ old \in Entities /\ "Processed" \in Types
  BY OldOne DEF Threads, IInv, TypeOK, Types
<1>5. /\ entity' \in [Entities -> Data]
      /\ \A f \in Entities : entity'[f].id = ent[f].id /\ entity'[f].bubble = ent[f].bubble
      /\ move' \in [Threads -> Move]
      /\ \A u \in Threads : u # "worker" => move'[u] = move[u]
      /\ move'["worker"] = [at |-> "typed", ent |-> old, id |-> entity[old].id, row |-> None]
  BY <1>2, <1>3, <1>4, BeginsWell
<1>6. PendingEffect(due)
  <2>1. \A p \in pending : entity'[p.ent].id = entity[p.ent].id
    BY <1>3, <1>5, OldOne
  <2> QED
    BY <1>2, <1>4, <2>1 DEF PendingEffect, TypeOK
<1>7. overtaken' \subseteq Entities
  BY <1>2, <1>4, OvertakeType
<1>8. /\ made' \in 0..MaxEntities /\ made <= made' /\ made + 1 <= made'
      /\ mem' \subseteq Entities /\ \A e \in mem' : e <= made'
      /\ \A r \in db' : r.ent <= made'
  <2>1. made' \in 0..MaxEntities /\ made <= made' /\ made + 1 <= made'
    BY OldOne, BoundsAssumption DEF Entities
  <2> QED
    BY <1>2, <1>4, <2>1, OldOne DEF TypeOK
<1>9. \A u \in Threads : IF move'[u].at = "none" THEN move'[u] = NoMove
                         ELSE move'[u].ent # None /\ move'[u].ent <= made'
  <2>1. CASE TRUE
    <3> SUFFICES ASSUME NEW u \in Threads
                 PROVE  IF move'[u].at = "none" THEN move'[u] = NoMove
                        ELSE move'[u].ent # None /\ move'[u].ent <= made'
      OBVIOUS
    <3>1. CASE u = "worker"
      BY <1>4, <1>5, <1>8, <3>1, OldOne DEF Entities, None
    <3>2. CASE u # "worker"
      <4>1. move[u].at = "none" => move[u] = NoMove
        BY DEF IInv, Created
      <4> QED
        BY <1>5, <3>2, <4>1, OldOne
    <3> QED
      BY <3>1, <3>2
  <2> QED
    BY <2>1
<1>10. db' \subseteq Row /\ lastRow' \in Nat /\ memId' \in Int
  BY <1>4 DEF TypeOK
<1>11. notifying' \in Entities /\ notifying' <= made' /\ changed' \in Seq(Ann)
  BY <1>8
<1>12. Replacing'
  <2>1. \A f \in Entities : entity'[f].bubble = ent[f].bubble
    BY <1>5
  <2>2. /\ ent[made + 1] = d /\ ent[old] = entity[old] /\ entity[old].bubble = b
        /\ old # made + 1
    BY OldOne DEF ent
  <2>3. d.bubble = b
    BY <1>1
  <2>4. entity'[old].bubble = b /\ entity'[made + 1].bubble = b
    BY <1>4, <2>1, <2>2, <2>3
  <2>5. move'["worker"].at # "none" /\ move'["worker"].ent = old
    BY <1>5
  <2> QED
    BY <2>2, <2>4, <2>5 DEF Replacing
<1>13. entity' \in [Entities -> Data] /\ move' \in [Threads -> Move]
  BY <1>5
<1>14. due \in [Threads -> SUBSET Entities] /\ stage' \in {"replacing", "stored"}
  BY <1>2, <1>4
<1> QED
  BY <1>6, <1>7, <1>8, <1>9, <1>10, <1>11, <1>12, <1>13, <1>14, EffectStep

LEMMA NotifyReplaceStep ==
  ASSUME IInv, NEW k \in Kinds, NEW b \in 1..replaces, NotifyReplace(k, b)
  PROVE  IInv'
<1>1. /\ made < MaxEntities /\ made' = made + 1 /\ notifying' = made + 1 /\ changed' = <<>>
      /\ UNCHANGED <<memId, db, lastRow, timer, block, replaces>>
  BY DEF NotifyReplace
<1>2. made + 1 \in Entities /\ b \in Nat
  BY <1>1, BoundsAssumption DEF IInv, TypeOK, Entities
<1>3. PICK old \in LastOfBubble(b) :
        ReplaceInPlace(k, b, old) \/ ReplaceByMoving(k, b, old)
  BY DEF NotifyReplace
<1> QED
  BY <1>1, <1>2, <1>3, InPlaceStep, ByMovingStep

\* The move of a thread that is past its beginning.
LEMMA MoveFacts ==
  ASSUME IInv, NEW t \in Threads, move[t].at # "none"
  PROVE  /\ move[t] \in Move /\ move[t].ent \in Entities /\ move[t].ent <= made
         /\ made \in Nat
<1>1. made \in Nat /\ move[t] \in Move
  BY BoundsAssumption DEF IInv, TypeOK
<1>2. move[t].ent # None /\ move[t].ent <= made
  BY DEF IInv, Created
<1> QED
  BY <1>1, <1>2 DEF Move

\* The other steps of a move: a row more, an entity less in memory.
LEMMA MovingStep ==
  ASSUME IInv, NEW t \in Threads, Insert(t) \/ Take(t)
  PROVE  IInv'
<1>1. /\ mem' \subseteq mem /\ changed' = <<>>
      /\ \/ UNCHANGED <<db, lastRow>>
         \/ /\ db' = db \cup {NewRow(move[t].ent, entity[move[t].ent].type)}
            /\ lastRow' = lastRow + 1
      /\ UNCHANGED <<made, entity, memId, overtaken, pending, due, lastPoint, starts, timer,
                     block, replaces, notifying, stage>>
  BY DEF Insert, Take, heap, expiry, call
<1>2. /\ move[t].at # "none"
      /\ \/ move' = [move EXCEPT ![t].at = "finishing"]
         \/ move' = [move EXCEPT ![t].at = "inserted", ![t].row = lastRow + 1]
  BY DEF Insert, Take
<1>3. move[t] \in Move /\ move[t].ent \in Entities /\ move[t].ent <= made /\ made \in Nat
  BY <1>2, MoveFacts
<1>4. /\ move \in [Threads -> Move] /\ lastRow \in Nat /\ entity \in [Entities -> Data]
  BY DEF IInv, TypeOK
<1>5. /\ move' \in [Threads -> Move]
      /\ \A u \in Threads : u # t => move'[u] = move[u]
      /\ move'[t].at # "none" /\ move'[t].ent = move[t].ent
  BY <1>2, <1>3, <1>4 DEF Move
<1>6. NewRow(move[t].ent, entity[move[t].ent].type) \in Row
      /\ NewRow(move[t].ent, entity[move[t].ent].type).ent = move[t].ent
  BY <1>3, <1>4 DEF NewRow, Row, Data
<1>7. TypeOK'
  BY <1>1, <1>4, <1>5, <1>6 DEF IInv, TypeOK
<1>8. Created'
  <2>1. \A u \in Threads : IF move'[u].at = "none" THEN move'[u] = NoMove
                          ELSE move'[u].ent # None /\ move'[u].ent <= made
    BY <1>3, <1>5 DEF IInv, Created, Entities, None
  <2> QED
    BY <1>1, <1>3, <1>6, <2>1 DEF IInv, Created
<1>9. TimerInv'
  BY <1>1 DEF IInv, TimerInv
<1>10. Replacing'
  BY <1>1, <1>5 DEF IInv, Replacing, Threads
<1> QED
  BY <1>7, <1>8, <1>9, <1>10 DEF IInv

\* The heap with the id of the row.
LEMMA RowIdFacts ==
  ASSUME TypeOK, NEW t \in Threads, move[t].ent \in Entities
  PROVE  /\ WithRowId(t) \in [Entities -> Data]
         /\ \A f \in Entities : f # move[t].ent => WithRowId(t)[f] = entity[f]
         /\ WithRowId(t)[move[t].ent].id = IF move[t].row = None THEN entity[move[t].ent].id
                                           ELSE move[t].row
         /\ \A f \in Entities : /\ WithRowId(t)[f].bubble = entity[f].bubble
                                /\ WithRowId(t)[f].replace = entity[f].replace
                                /\ WithRowId(t)[f].type = entity[f].type
                                /\ WithRowId(t)[f].kind = entity[f].kind
                                /\ WithRowId(t)[f].slot = entity[f].slot
<1> DEFINE e == move[t].ent
           i == IF move[t].row = None THEN entity[e].id ELSE move[t].row
<1>1. entity \in [Entities -> Data] /\ e \in Entities /\ entity[e] \in Data
      /\ move[t] \in Move
  BY DEF TypeOK
<1>2. i \in Int
  BY <1>1 DEF Move, Data
<1>3. WithRowId(t) = [entity EXCEPT ![e] = [@ EXCEPT !.id = i]]
  BY <1>1 DEF WithRowId
<1> HIDE DEF e, i
<1>4. /\ [entity[e] EXCEPT !.id = i] \in Data
      /\ [entity[e] EXCEPT !.id = i].id = i
      /\ [entity[e] EXCEPT !.id = i].bubble = entity[e].bubble
      /\ [entity[e] EXCEPT !.id = i].replace = entity[e].replace
      /\ [entity[e] EXCEPT !.id = i].type = entity[e].type
      /\ [entity[e] EXCEPT !.id = i].kind = entity[e].kind
      /\ [entity[e] EXCEPT !.id = i].slot = entity[e].slot
  BY <1>1, <1>2 DEF Data
<1>5. /\ WithRowId(t) \in [Entities -> Data]
      /\ WithRowId(t)[e] = [entity[e] EXCEPT !.id = i]
      /\ \A f \in Entities : f # e => WithRowId(t)[f] = entity[f]
  BY <1>1, <1>3, <1>4
<1> QED
  BY <1>4, <1>5 DEF e, i

\* The end of a move has the effect of a call that settles its entity.
LEMMA FinishLemma ==
  ASSUME IInv, NEW t \in Threads, Finish(t)
  PROVE  SettleEffect(t, due)
<1> DEFINE e == move[t].ent
<1>1. TypeOK /\ e \in Entities /\ due \in [Threads -> SUBSET Entities]
      /\ move \in [Threads -> Move]
  BY MoveFacts DEF Finish, IInv, TypeOK
<1>2. PICK ent : ent = WithRowId(t)
  OBVIOUS
<1>3. /\ ent \in [Entities -> Data] /\ \A f \in Entities : f # e => ent[f] = entity[f]
  BY <1>1, <1>2, RowIdFacts
<1>4. /\ entity' = ent
      /\ changed' = <<[id |-> ent[e].id, type |-> ent[e].type]>>
      /\ RemovePending(t, due, ent, ent[e].id, ent[e].replace, ent[e].bubble)
      /\ move' = [move EXCEPT ![t] = NoMove]
      /\ UNCHANGED <<mem, db, lastRow, overtaken>>
  BY <1>2 DEF Finish, RemovePending, Matching
<1> HIDE DEF e
<1>5. PendingEffect(due)
  BY <1>1, <1>3, <1>4, PendingAfter
<1>6. changed' \in Seq(Ann)
  BY <1>1, <1>3, <1>4 DEF Ann, Data
<1>7. NoMove \in Move
  BY DEF NoMove, Move, None
<1>8. MovesOn(t)
  BY <1>1, <1>4, <1>7 DEF MovesOn, TypeOK
<1>9. \A f \in Entities : entity'[f].bubble = entity[f].bubble
  BY <1>1, <1>2, <1>4, RowIdFacts DEF e
<1> QED
  BY <1>1, <1>3, <1>4, <1>5, <1>6, <1>8, <1>9 DEF SettleEffect, TypeOK

\* ... and then it comes into memory, and the old timeout goes.
LEMMA AddReplacementStep ==
  ASSUME IInv, AddReplacement
  PROVE  IInv'
<1>1. /\ "worker" \in Threads /\ TypeOK /\ due \in [Threads -> SUBSET Entities]
      /\ move["worker"].ent \in Entities /\ notifying \in Entities /\ notifying <= made
      /\ made \in Nat /\ memId \in Int /\ move \in [Threads -> Move]
  <2>1. "worker" \in Threads /\ move["worker"].at # "none"
    BY DEF Threads, AddReplacement
  <2>2. notifying \in Entities /\ notifying <= made
    BY DEF AddReplacement, IInv, TypeOK, Created
  <2> QED
    BY <2>1, <2>2, MoveFacts DEF IInv, TypeOK
<1> DEFINE mid == WithRowId("worker")
<1>2. mid \in [Entities -> Data]
  BY <1>1, RowIdFacts
<1>3. /\ \A f \in Entities : f # move["worker"].ent => mid[f] = entity[f]
      /\ \A f \in Entities : mid[f].bubble = entity[f].bubble
      /\ mid[move["worker"].ent].id = IF move["worker"].row = None THEN entity[move["worker"].ent].id
                                      ELSE move["worker"].row
  BY <1>1, RowIdFacts
<1>4. /\ entity' = [mid EXCEPT ![notifying].id = memId - 1]
      /\ mem' = mem \cup {notifying} /\ memId' = memId - 1
      /\ DropReplaced(notifying)
      /\ move' = [move EXCEPT !["worker"] = NoMove] /\ stage' = "stored" /\ changed' = <<>>
      /\ UNCHANGED <<made, db, lastRow, overtaken, timer, block, replaces, notifying>>
  BY DEF AddReplacement, AddLive
<1> HIDE DEF mid
<1>5. /\ entity' \in [Entities -> Data]
      /\ \A f \in Entities : f # notifying => entity'[f] = mid[f]
      /\ entity'[notifying].bubble = mid[notifying].bubble
  <2>1. entity' = [mid EXCEPT ![notifying] = [@ EXCEPT !.id = memId - 1]]
    BY <1>4
  <2>2. [mid[notifying] EXCEPT !.id = memId - 1] \in Data
        /\ [mid[notifying] EXCEPT !.id = memId - 1].bubble = mid[notifying].bubble
    BY <1>1, <1>2 DEF Data
  <2> QED
    BY <1>1, <1>2, <2>1, <2>2
<1>6. PICK ent : ent = entity'
  OBVIOUS
<1>7. PICK whole : /\ whole = TRUE
                    /\ RemovePending("worker", due, ent, ent[notifying].id, whole,
                                     ent[notifying].bubble)
  BY <1>4, <1>6 DEF DropReplaced, RemovePending, Matching
<1>8. \A f \in Entities : ent[f].bubble = entity[f].bubble
  BY <1>3, <1>5, <1>6
<1>9. PendingEffect(due)
  <2>1. /\ pending' \subseteq pending
        /\ due' \in [Threads -> SUBSET Entities]
        /\ \A u \in Threads : \A e \in due'[u] :
              e \in due[u] \/ \E p \in pending : p.ent = e
        /\ lastPoint' \in Nat \cup {Never}
        /\ starts' \in Seq(Nat)
        /\ \/ /\ pending' # {} => lastPoint' # Never
              /\ lastPoint' # Never => starts' # <<>>
           \/ /\ UNCHANGED <<lastPoint, starts>>
              /\ \A p \in pending : ent[p.ent].id # ent[notifying].id
              /\ \A p \in pending : whole => ent[p.ent].bubble # ent[notifying].bubble
    <3>1. RemovePending("worker", due, ent, ent[notifying].id, whole, ent[notifying].bubble)
      BY <1>7
    <3>2. TypeOK /\ "worker" \in Threads /\ due \in [Threads -> SUBSET Entities]
      BY <1>1
    <3> QED
      BY <3>1, <3>2, RemovePendingLemma
  <2>2. ASSUME NEW p \in pending', ent[p.ent].bubble # ent[notifying].bubble
        PROVE  entity'[p.ent].id = entity[p.ent].id
    <3>1. p.ent \in Entities
      BY <1>1, <2>1 DEF TypeOK, Item
    <3>2. entity[move["worker"].ent].bubble = entity[notifying].bubble
      BY DEF IInv, Replacing, AddReplacement
    <3>3. p.ent # notifying /\ p.ent # move["worker"].ent
      BY <1>1, <1>8, <2>2, <3>1, <3>2
    <3> QED
      BY <1>3, <1>5, <3>1, <3>3
  <2> QED
    BY <1>7, <2>1, <2>2 DEF PendingEffect
<1>10. /\ mem' \subseteq Entities /\ (\A e \in mem' : e <= made') /\ memId' \in Int
       /\ (\A r \in db' : r.ent <= made') /\ made' \in 0..MaxEntities /\ made <= made'
       /\ db' \subseteq Row /\ lastRow' \in Nat /\ overtaken' \subseteq Entities
  BY <1>1, <1>4 DEF IInv, TypeOK, Created
<1>11. /\ move' \in [Threads -> Move]
       /\ \A u \in Threads : IF move'[u].at = "none" THEN move'[u] = NoMove
                             ELSE move'[u].ent # None /\ move'[u].ent <= made'
  <2>1. NoMove \in Move /\ NoMove.at = "none"
    BY DEF NoMove, Move, None
  <2>2. \A u \in Threads : IF move[u].at = "none" THEN move[u] = NoMove
                          ELSE move[u].ent # None /\ move[u].ent <= made
    BY DEF IInv, Created
  <2> QED
    BY <1>1, <1>4, <2>1, <2>2
<1>12. Replacing' /\ changed' \in Seq(Ann) /\ UNCHANGED <<timer, block, replaces>>
       /\ notifying' \in Entities /\ notifying' <= made' /\ stage' \in {"replacing", "stored"}
  BY <1>1, <1>4 DEF Replacing
<1>13. entity' \in [Entities -> Data] /\ due \in [Threads -> SUBSET Entities]
  BY <1>1, <1>5
<1> QED
  BY <1>9, <1>10, <1>11, <1>12, <1>13, EffectStep

\* pushPendingEntity keeps it: the timer is started unless it has a point that
\* is no later.
LEMMA PushPendingStep ==
  ASSUME IInv, PushPending
  PROVE  IInv'
<1> DEFINE n == entity[notifying].kind.timeout
<1>1. /\ notifying \in Entities /\ notifying <= made /\ n \in Nat
      /\ entity' = entity /\ made' = made
  <2>1. notifying \in Entities /\ notifying <= made
    BY DEF PushPending, IInv, TypeOK, Created
  <2>2. n \in Nat
    BY <2>1 DEF IInv, TypeOK, Data, KindType
  <2> QED
    BY <2>1, <2>2 DEF PushPending, heap
<1>2. /\ stage' = "idle" /\ notifying' = None /\ changed' = <<>>
      /\ UNCHANGED <<made, entity, mem, memId, db, lastRow, move, overtaken, due, starts, block,
                     replaces>>
      /\ \/ UNCHANGED <<pending, lastPoint, timer>>
         \/ /\ pending' = pending \cup {[left |-> n, ent |-> notifying]}
            /\ \/ lastPoint' = n /\ timer' = n
               \/ lastPoint # Never /\ UNCHANGED <<lastPoint, timer>>
  BY DEF PushPending, heap, store, moves
<1>3. [left |-> n, ent |-> notifying] \in Item
      /\ [left |-> n, ent |-> notifying].ent = notifying
  BY <1>1 DEF Item
<1>4. n # Never
  BY <1>1 DEF Never
<1> HIDE DEF n
<1>5. TypeOK'
  BY <1>1, <1>2, <1>3 DEF IInv, TypeOK
<1>6. Created'
  <2>1. made \in Nat
    BY BoundsAssumption DEF IInv, TypeOK
  <2> QED
    BY <1>1, <1>2, <1>3, <2>1 DEF IInv, Created, None
<1>7. TimerInv' /\ Replacing'
  BY <1>1, <1>2, <1>4 DEF IInv, TimerInv, Replacing
<1> QED
  BY <1>5, <1>6, <1>7 DEF IInv

\* One turn of the loop of onHandingPendingEntities keeps it.
LEMMA HandleDueStep ==
  ASSUME IInv, NEW t \in Threads, HandleDue(t)
  PROVE  IInv'
<1>1. PICK e \in due[t] :
        \/ /\ entity[e].id = block
           /\ pending' = pending \cup {[left |-> 0, ent |-> e]}
           /\ due' = [due EXCEPT ![t] = @ \ {e}]
           /\ changed' = <<>>
           /\ UNCHANGED <<entity, mem, db, lastRow, move, overtaken, lastPoint, starts>>
        \/ Settle(t, [due EXCEPT ![t] = @ \ {e}], entity[e].id, ClosedType("Expired"))
  BY DEF HandleDue, moves
<1> DEFINE D == [due EXCEPT ![t] = @ \ {e}]
<1>2. /\ UNCHANGED <<made, memId, timer, block, replaces, call>>
      /\ due \in [Threads -> SUBSET Entities] /\ e \in Entities /\ e <= made
  BY DEF HandleDue, IInv, TypeOK, Created
<1>3. D \in [Threads -> SUBSET Entities] /\ \A u \in Threads : D[u] \subseteq due[u]
  BY <1>2
<1> HIDE DEF D
<1>4. CASE Settle(t, D, entity[e].id, ClosedType("Expired"))
  <2>1. ClosedType("Expired") \in [Types -> Types]
    BY DEF ClosedType, Types
  <2>2. SettleEffect(t, D)
    BY <1>3, <1>4, <2>1, SettleLemma DEF IInv
  <2>3. t = "worker" => stage # "replacing"
    BY DEF HandleDue, IInv, Replacing, NoMove
  <2> QED
    BY <1>2, <1>3, <2>2, <2>3, SettleStep
<1>5. CASE /\ entity[e].id = block
           /\ pending' = pending \cup {[left |-> 0, ent |-> e]}
           /\ due' = D
           /\ changed' = <<>>
           /\ UNCHANGED <<entity, mem, db, lastRow, move, overtaken, lastPoint, starts>>
  <2>1. [left |-> 0, ent |-> e] \in Item /\ [left |-> 0, ent |-> e].ent = e
    BY <1>2 DEF Item
  <2>2. TypeOK'
    BY <1>2, <1>3, <1>5, <2>1 DEF IInv, TypeOK, call
  <2>3. Created'
    BY <1>2, <1>3, <1>5, <2>1 DEF IInv, Created, call
  <2>4. TimerInv' /\ Replacing'
    BY <1>2, <1>5, <2>1 DEF IInv, TimerInv, Replacing, call
  <2> QED
    BY <2>2, <2>3, <2>4 DEF IInv
<1> QED
  BY <1>1, <1>4, <1>5 DEF D

\* setBlockClosedId keeps it: what the pointer leaves gets a timer again.
LEMMA SetBlockStep ==
  ASSUME IInv, NEW i \in Int, SetBlockClosedId(i)
  PROVE  IInv'
<1>1. PICK P : /\ HandlePending("main", P, due)
               /\ \/ P = pending
                  \/ \E p \in pending :
                       P = (pending \ {p}) \cup {[p EXCEPT !.left = BlockItemTimeout]}
  BY DEF SetBlockClosedId
<1>2. P \in SUBSET Item /\ \A q \in P : q.ent <= made
  <2>1. \A p \in pending : /\ p \in Item /\ p.ent <= made
                           /\ [p EXCEPT !.left = BlockItemTimeout] \in Item
                           /\ [p EXCEPT !.left = BlockItemTimeout].ent = p.ent
    BY GraceAssumption DEF IInv, TypeOK, Created, Item
  <2> QED
    BY <1>1, <2>1
<1>3. /\ timer' \in Nat \cup {Never} /\ block' \in Int /\ changed' = <<>>
      /\ UNCHANGED <<heap, store, replaces, call>>
  BY DEF SetBlockClosedId, IInv, TypeOK
<1> QED
  BY <1>1, <1>2, <1>3, HandleStep DEF Threads

\* Time passing keeps it: a timer that reaches 0 is still there.
LEMMA TickStep ==
  ASSUME IInv, Tick
  PROVE  IInv'
<1>1. /\ pending' = {[p EXCEPT !.left = Less(@)] : p \in pending}
      /\ lastPoint' = Less(lastPoint) /\ timer' = Less(timer) /\ changed' = <<>>
      /\ UNCHANGED <<made, entity, mem, memId, db, lastRow, move, overtaken, due, starts, block,
                     replaces, notifying, stage>>
  BY DEF Tick, heap, store, moves, call
<1>2. \A n \in Nat \cup {Never} :
         /\ Less(n) \in Nat \cup {Never}
         /\ Less(n) = Never <=> n = Never
  BY DEF Less, Never
<1>3. \A p \in pending : /\ [p EXCEPT !.left = Less(@)] \in Item
                         /\ [p EXCEPT !.left = Less(@)].ent = p.ent
  <2> TAKE p \in pending
  <2>1. p \in Item /\ p.left \in Nat
    BY DEF IInv, TypeOK, Item
  <2>2. Less(p.left) \in Nat
    BY <2>1 DEF Less
  <2> QED
    BY <2>1, <2>2 DEF Item
<1>4. TypeOK'
  BY <1>1, <1>2, <1>3 DEF IInv, TypeOK
<1>5. Created'
  BY <1>1, <1>3 DEF IInv, Created
<1>6. TimerInv'
  <2>1. lastPoint' # Never <=> lastPoint # Never
    BY <1>1, <1>2 DEF IInv, TypeOK
  <2>2. timer' # Never <=> timer # Never
    BY <1>1, <1>2 DEF IInv, TypeOK
  <2>3. \A q \in pending' : \E p \in pending : q.ent = p.ent
    BY <1>1, <1>3
  <2> QED
    BY <1>1, <2>1, <2>2, <2>3 DEF IInv, TimerInv
<1>7. Replacing'
  BY <1>1 DEF IInv, Replacing
<1> QED
  BY <1>4, <1>5, <1>6, <1>7 DEF IInv

\* The ids the UI passes are integers.
LEMMA IdsAreIntegers ==
  ASSUME IInv
  PROVE  BubbleIds \subseteq Int /\ RowIds \subseteq Int
<1>1. \A e \in Entities : entity[e].id \in Int
  BY DEF IInv, TypeOK, Data
<1>2. 1..made \subseteq Entities
  BY BoundsAssumption DEF IInv, TypeOK, Entities
<1>3. \A r \in db : r.id \in Int
  BY DEF IInv, TypeOK, Row
<1> QED
  BY <1>1, <1>2, <1>3 DEF BubbleIds, RowIds

\* The steps of clients, of the worker's event loop, of the bubbles and of the
\* center, one lemma each, keep it.
LEMMA ClientStep ==
  ASSUME IInv, Client
  PROVE  IInv'
<1>1. ASSUME NEW b \in 1..replaces, CloseNotification(b)
      PROVE  IInv'
  <2>1. PICK e \in LastOfBubble(b) : SettleLive("worker", due, e, "Removed")
    BY <1>1 DEF CloseNotification
  <2>2. /\ e \in mem /\ "Removed" \in Types /\ "worker" \in Threads
        /\ due \in [Threads -> SUBSET Entities] /\ TypeOK
    BY DEF LastOfBubble, Types, Threads, IInv, TypeOK
  <2>3. SettleEffect("worker", due)
    BY <2>1, <2>2, SettleLiveLemma
  <2>4. UNCHANGED <<made, memId, timer, block, replaces, call>> /\ stage # "replacing"
    BY <1>1 DEF CloseNotification, Idle
  <2> QED
    BY <2>2, <2>3, <2>4, SettleStep
<1> QED
  BY <1>1, NotifyNewStep, NotifyReplaceStep DEF Client

\* What the worker goes on with, and time.
LEMMA InternalStep ==
  ASSUME IInv, Internal
  PROVE  IInv'
<1>1. CASE Announce
  <2>1. notifying \in Entities
    BY <1>1 DEF Announce, IInv, TypeOK, Created
  <2>2. [id |-> entity[notifying].id, type |-> entity[notifying].type] \in Ann
    BY <2>1 DEF IInv, TypeOK, Data, Ann
  <2>3. TypeOK'
    BY <1>1, <2>2 DEF Announce, IInv, TypeOK, Ann, heap, store, moves, expiry
  <2>4. Created' /\ TimerInv' /\ Replacing'
    BY <1>1 DEF Announce, IInv, Created, TimerInv, Replacing, heap, store, moves, expiry
  <2> QED
    BY <2>3, <2>4 DEF IInv
<1>2. CASE TimerFires
  <2>1. HandlePending("worker", pending, due) /\ "worker" \in Threads
    BY <1>2 DEF TimerFires, Threads
  <2>2. /\ pending \in SUBSET Item /\ \A p \in pending : p.ent <= made
        /\ timer' \in Nat \cup {Never} /\ block' \in Int
        /\ changed' = <<>> /\ UNCHANGED <<heap, store, replaces, call>>
    BY <1>2 DEF TimerFires, IInv, TypeOK, Created
  <2> QED
    BY <2>1, <2>2, HandleStep
<1>3. CASE StartTimer
  <2>1. /\ timer' = Head(starts) /\ starts' = Tail(starts) /\ changed' = <<>>
        /\ UNCHANGED <<made, entity, mem, memId, db, lastRow, move, overtaken, pending, due,
                       lastPoint, block, replaces, notifying, stage>>
    BY <1>3 DEF StartTimer, heap, store, moves, call
  <2>2. starts \in Seq(Nat) /\ starts # <<>>
    BY <1>3 DEF StartTimer, IInv, TypeOK
  <2>3. Head(starts) \in Nat /\ Tail(starts) \in Seq(Nat)
    BY <2>2
  <2>4. TypeOK'
    BY <2>1, <2>3 DEF IInv, TypeOK
  <2>5. Created'
    BY <2>1 DEF IInv, Created
  <2>6. TimerInv' /\ Replacing'
    BY <2>1, <2>3 DEF IInv, TimerInv, Replacing, Never
  <2> QED
    BY <2>4, <2>5, <2>6 DEF IInv
<1>4. ASSUME NEW t \in Threads, Finish(t)
      PROVE  IInv'
  <2>1. SettleEffect(t, due)
    BY <1>4, FinishLemma
  <2>2. /\ UNCHANGED <<made, memId, timer, block, replaces, call>>
        /\ t = "worker" => stage # "replacing"
    BY <1>4 DEF Finish
  <2>3. due \in [Threads -> SUBSET Entities]
    BY DEF IInv, TypeOK
  <2> QED
    BY <2>1, <2>2, <2>3, SettleStep
<1> QED
  BY <1>1, <1>2, <1>3, <1>4, PushPendingStep, HandleDueStep, TickStep, MovingStep,
     AddReplacementStep DEF Internal

\* A call of the UI that settles the entity with an id.
LEMMA SettleCallStep ==
  ASSUME IInv, NEW i, NEW next \in [Types -> Types],
         Settle("main", due, i, next),
         UNCHANGED <<made, memId, timer, block, replaces, call>>
  PROVE  IInv'
<1>1. "main" \in Threads /\ due \in [Threads -> SUBSET Entities] /\ TypeOK
  BY DEF Threads, IInv, TypeOK
<1>2. SettleEffect("main", due)
  BY <1>1, SettleLemma
<1> QED
  BY <1>1, <1>2, SettleStep

\* actionInvoked, from a bubble or from the center.
LEMMA ActionInvokedStep ==
  ASSUME IInv, NEW i, ActionInvoked(i)
  PROVE  IInv'
<1>1. AsRemoved \in [Types -> Types]
  BY DEF AsRemoved, Types
<1> QED
  BY <1>1, SettleCallStep DEF ActionInvoked

\* What the user does to a bubble.
LEMMA BubblesStep ==
  ASSUME IInv, Bubbles
  PROVE  IInv'
<1>1. ASSUME NEW i \in BubbleIds, NEW reason \in {"Closed", "Dismissed"},
             NotificationClosed(i, reason)
      PROVE  IInv'
  <2>1. ClosedType(reason) \in [Types -> Types]
    BY DEF ClosedType, Types
  <2> QED
    BY <1>1, <2>1, SettleCallStep DEF NotificationClosed
<1>2. ASSUME NEW i \in BubbleIds \cup {None}, SetBlockClosedId(i)
      PROVE  IInv'
  <2>1. i \in Int
    BY IdsAreIntegers DEF None
  <2> QED
    BY <1>2, <2>1, SetBlockStep
<1> QED
  BY <1>1, <1>2, ActionInvokedStep DEF Bubbles

\* What the user does in the notification center.
LEMMA CenterStep ==
  ASSUME IInv, Center
  PROVE  IInv'
<1>1. ASSUME NEW i, RemoveNotification(i)
      PROVE  IInv'
  BY <1>1 DEF RemoveNotification, IInv, TypeOK, Created, TimerInv, Replacing, heap, moves,
              expiry, call
<1>2. ASSUME NEW R, RemoveRows(R)
      PROVE  IInv'
  BY <1>2 DEF RemoveRows, IInv, TypeOK, Created, TimerInv, Replacing, heap, moves, expiry, call
<1> QED
  BY <1>1, <1>2, ActionInvokedStep
     DEF Center, RemoveByApp, RemoveAll, RemoveExpired

\* Every step keeps the invariant.
LEMMA NextIInv == IInv /\ [Next]_vars => IInv'
<1> SUFFICES ASSUME IInv, [Next]_vars PROVE IInv'
  OBVIOUS
<1>1. CASE UNCHANGED vars
  BY <1>1 DEF vars, heap, store, moves, expiry, call, IInv, TypeOK, Created, TimerInv, Replacing
<1> QED
  BY <1>1, ClientStep, InternalStep, BubblesStep, CenterStep DEF Next

-----------------------------------------------------------------------------
(* What holds of the notification server in every behaviour.                 *)

\* The invariant holds in every behaviour: the variables keep their types, the
\* pending hash and the stores name only entities that exist, and
\* m_lastTimeoutPoint is finite exactly as long as a timer runs or its start is
\* queued.
THEOREM SpecIInv == Spec => []IInv
BY InitIInv, NextIInv, PTL DEF Spec

\* Every variable of the server keeps its type: the ids of the two stores, the
\* timeouts and the timer stay in their ranges, whatever the calls.
THEOREM TypeCorrect == Spec => []TypeOK
<1>1. IInv => TypeOK
  BY DEF IInv
<1> QED
  BY <1>1, SpecIInv, PTL

\* No timeout waits without a timer: as long as something is pending that the
\* pointer does not hold, m_pendingTimeout runs or its start is queued, whatever
\* the two threads do.
THEOREM NoTimeoutForgotten == Spec => []TimeoutArmed
<1>1. IInv => TimeoutArmed
  BY DEF IInv, TimerInv, TimeoutArmed
<1> QED
  BY <1>1, SpecIInv, PTL

-----------------------------------------------------------------------------
(* What becomes of a notification.                                           *)

\* Live notifications have the negative ids that g_Id has counted down to, each its own.
IdsInv ==
  /\ memId <= 0
  /\ \A e \in mem : memId <= entity[e].id /\ entity[e].id < 0
  /\ \A e, f \in mem : entity[e].id = entity[f].id => e = f

\* Rows have the positive ones that AUTOINCREMENT has counted up to, each its own; and what no
\* other call took hold of has one row, when it is in memory no more or its move is between
\* the two stores.
RowsInv ==
  /\ \A r \in db : 0 < r.id /\ r.id <= lastRow
  /\ \A r, s \in db : r.id = s.id => r = s
  /\ \A r, s \in db : r.ent = s.ent /\ r.ent \notin overtaken => r = s
  /\ \A r \in db : r.ent \in mem /\ r.ent \notin overtaken =>
       \E t \in Threads : move[t].at = "inserted" /\ move[t].ent = r.ent /\ move[t].row = r.id

\* No two entities of m_entities have the same place, none has one later than its own, and of
\* those of a bubble a live one is the last.
SlotInv ==
  /\ \A e \in mem : entity[e].slot <= e
  /\ \A e, f \in mem : entity[e].slot = entity[f].slot => e = f
  /\ \A e, f \in mem : Live(f) /\ entity[e].bubble = entity[f].bubble
                         => entity[e].slot <= entity[f].slot

\* Bubble ids are counted up, an idle worker notifies nobody, and a busy one the last made.
CallInv ==
  /\ \A e \in 1..made : entity[e].bubble <= replaces
  /\ stage = "idle" => notifying = None
  /\ stage # "idle" => notifying = made

\* What is known of a move: who has its id in memory is the entity it moves, or one that took
\* the place of that meanwhile; and the entity has the id until a row gives it another.
MovesWell(t) ==
  move[t].at # "none" =>
    /\ entity[move[t].ent].type # "NotProcessed"
    /\ entity[move[t].ent].type = "Removed" => move[t].ent \in overtaken
    /\ memId <= move[t].id /\ move[t].id < 0
    /\ entity[move[t].ent].id = move[t].id \/ entity[move[t].ent].id > 0
    /\ \A f \in mem : entity[f].id = move[t].id => f = move[t].ent \/ f \in overtaken
    /\ move[t].at = "typed" => move[t].row = None
    /\ move[t].at = "typed" /\ move[t].ent \notin overtaken => \A r \in db : r.ent # move[t].ent
    /\ move[t].at = "inserted" => move[t].row # None
    /\ move[t].at = "finishing" /\ move[t].row # None => move[t].ent \notin mem

MoveInv ==
  /\ \A t \in Threads : MovesWell(t)
  /\ \A t, u \in Threads : t # u /\ move[t].at # "none" /\ move[t].ent = move[u].ent
                             => move[t].ent \in overtaken

\* A replacement that waits for the old one's move is in no store, and nothing else of its
\* bubble is live.
WaitInv ==
  stage = "replacing" =>
    /\ notifying \notin mem /\ (\A r \in db : r.ent # notifying)
    /\ \A t \in Threads : move[t].ent # notifying
    /\ entity[notifying].type = "NotProcessed" /\ entity[notifying].slot = notifying
    /\ entity[notifying].replace
    /\ \A e \in mem : Live(e) => entity[e].bubble # entity[notifying].bubble

StoreInv ==
  IdsInv /\ RowsInv /\ SlotInv /\ CallInv /\ MoveInv /\ WaitInv /\ ClosedIsGone /\ FreshTimeoutKept

\* Why a step may take a live notification out of memory.
LossExplained ==
  \A e \in mem \ overtaken : e \notin mem' =>
       \/ \E t \in Threads : move[t].ent = e /\ move[t].row # None
       \/ entity'[e].type = "Removed"
       \/ entity[e].kind.hidden \/ entity[e].kind.bluetooth
       \/ FALSE \in CenterSetting
       \/ \E f \in mem' : /\ f \notin mem /\ entity'[f].kind.hidden
                          /\ entity'[f].bubble = entity[e].bubble

\* Somebody still looks at the timeout of e after the step.
StillWatched(e) ==
  \/ \E q \in pending' : q.ent = e
  \/ \E u \in Threads : e \in due'[u]

\* Somebody other than Notify looked at it before.
Seen(e) ==
  \/ \E p \in pending : p.ent = e
  \/ \E u \in Threads : e \in due[u]

\* What every step but those of Notify leaves as it is.
Steady ==
  /\ UNCHANGED <<made, memId, replaces, call>>
  /\ mem' \subseteq mem /\ overtaken \subseteq overtaken'
  /\ \A f \in Entities :
       /\ entity'[f].bubble = entity[f].bubble /\ entity'[f].replace = entity[f].replace
       /\ entity'[f].slot = entity[f].slot /\ entity'[f].kind = entity[f].kind
       /\ entity'[f].type = "NotProcessed" => entity[f].type = "NotProcessed"
       /\ f \in mem' => entity'[f].id = entity[f].id
       /\ f \notin mem /\ (\A t \in Threads : move[t].ent # f) => entity'[f] = entity[f]
  /\ \A r \in db' : (\E s \in db : s.ent = r.ent) \/ \E t \in Threads : move[t].ent = r.ent
  /\ \A t \in Threads : move'[t].ent \in mem \cup {None, move[t].ent}

-----------------------------------------------------------------------------
(* What the operators of the server do to it.                                *)

\* onHandingPendingEntities moves what is due and forgets nothing.
LEMMA HandleKeeps ==
  ASSUME NEW t \in Threads, NEW P, NEW D \in [Threads -> SUBSET Entities],
         HandlePending(t, P, D)
  PROVE  /\ \A u \in Threads : D[u] \subseteq due'[u]
         /\ \A p \in P : StillWatched(p.ent)
<1> DEFINE taken == {p \in P : p.left = 0}
<1>1. /\ due' = [D EXCEPT ![t] = @ \cup {p.ent : p \in taken}]
      /\ pending' = P \ taken
  BY DEF HandlePending
<1>2. \A u \in Threads : D[u] \subseteq due'[u]
  BY <1>1
<1>3. ASSUME NEW p \in P PROVE StillWatched(p.ent)
  <2>1. CASE p \in taken
    <3>1. p.ent \in due'[t]
      BY <1>1, <2>1
    <3> QED
      BY <3>1 DEF StillWatched
  <2>2. CASE p \notin taken
    BY <1>1, <2>2 DEF StillWatched
  <2> QED
    BY <2>1, <2>2
<1> QED
  BY <1>2, <1>3

\* removePendingEntity forgets one entity at most: one that it was asked for.
LEMMA RemoveKeeps ==
  ASSUME NEW t \in Threads, NEW D \in [Threads -> SUBSET Entities],
         NEW ent, NEW i, NEW rep, NEW b, RemovePending(t, D, ent, i, rep, b)
  PROVE  /\ \A u \in Threads : D[u] \subseteq due'[u]
         /\ \A p \in pending : \/ ent[p.ent].id = i
                               \/ rep /\ ent[p.ent].bubble = b
                               \/ StillWatched(p.ent)
<1> DEFINE found == Matching(pending, ent, i, rep, b)
<1>1. CASE found = {}
  BY <1>1 DEF RemovePending, StillWatched
<1>2. CASE found # {}
  <2>1. PICK p \in found : HandlePending(t, pending \ {p}, D)
    BY <1>2 DEF RemovePending
  <2>2. /\ \A u \in Threads : D[u] \subseteq due'[u]
        /\ \A q \in pending \ {p} : StillWatched(q.ent)
    BY <2>1, HandleKeeps
  <2>3. ent[p.ent].id = i \/ (rep /\ ent[p.ent].bubble = b)
    BY DEF Matching
  <2> QED
    BY <2>2, <2>3
<1> QED
  BY <1>1, <1>2

\* What removePendingEntity leaves of the timeouts of the entities other than x.
Spares(D, x) ==
  /\ \A u \in Threads : D[u] \subseteq due'[u]
  /\ \A p \in pending : \/ entity'[p.ent].id = entity'[x].id
                        \/ entity[x].replace /\ entity'[p.ent].bubble = entity[x].bubble
                        \/ StillWatched(p.ent)

\* The numbers the created notifications have.
LEMMA NumberFacts ==
  ASSUME IInv
  PROVE  /\ made \in Nat /\ mem \subseteq 1..made /\ 1..made \subseteq Entities
         /\ lastRow \in Nat /\ memId \in Int
         /\ \A r \in db : r.ent \in 1..made /\ r.id \in Nat
         /\ \A e \in Entities : entity[e].id \in Int /\ entity[e].slot \in Nat
         /\ \A t \in Threads : /\ move[t].id \in Int /\ move[t].row \in Nat
                               /\ move[t].at # "none" => move[t].ent \in 1..made
                               /\ move[t].at = "none" => move[t].ent = None
         /\ None \notin 1..made
<1>1. /\ made \in 0..MaxEntities /\ mem \subseteq Entities /\ memId \in Int
      /\ lastRow \in Nat
      /\ \A e \in Entities : entity[e].id \in Int /\ entity[e].slot \in Nat
      /\ \A r \in db : r.id \in Nat /\ r.ent \in Entities
      /\ \A t \in Threads : /\ move[t].id \in Int /\ move[t].row \in Nat
                            /\ move[t].ent \in Entities \cup {None}
  BY DEF IInv, TypeOK, Data, Row, Move
<1>2. /\ \A e \in mem : e <= made
      /\ \A r \in db : r.ent <= made
      /\ \A t \in Threads : IF move[t].at = "none" THEN move[t].ent = None
                            ELSE move[t].ent # None /\ move[t].ent <= made
  BY DEF IInv, Created, NoMove
<1>3. Entities = 1..MaxEntities /\ MaxEntities \in Nat /\ None = 0
  BY BoundsAssumption DEF Entities, None
<1> QED
  BY <1>1, <1>2, <1>3

-----------------------------------------------------------------------------
(* What a steady step keeps.                                                 *)

\* The ids, the places, the call and the replacement that waits.
LEMMA SteadyKeeps ==
  ASSUME IInv, StoreInv, Steady
  PROVE  IdsInv' /\ SlotInv' /\ CallInv' /\ WaitInv'
<1>1. mem \subseteq 1..made /\ 1..made \subseteq Entities /\ None \notin 1..made
  BY NumberFacts
<1>2. \A e \in mem' : /\ e \in mem /\ e \in Entities /\ entity'[e].id = entity[e].id
                      /\ entity'[e].slot = entity[e].slot
                      /\ entity'[e].bubble = entity[e].bubble
                      /\ Live(e)' => Live(e)
  BY <1>1 DEF Steady, Live
<1>3. /\ made' = made /\ memId' = memId /\ replaces' = replaces
      /\ notifying' = notifying /\ stage' = stage
  BY DEF Steady, call
<1>4. IdsInv'
  BY <1>2, <1>3 DEF StoreInv, IdsInv
<1>5. SlotInv'
  BY <1>2 DEF StoreInv, SlotInv
<1>6. CallInv'
  <2>1. \A e \in 1..made : entity'[e].bubble = entity[e].bubble
    BY <1>1 DEF Steady
  <2> QED
    BY <1>3, <2>1 DEF StoreInv, CallInv
<1>7. WaitInv'
  <2> SUFFICES ASSUME stage = "replacing" PROVE WaitInv'
    BY <1>3 DEF WaitInv
  <2>1. /\ notifying \notin mem /\ (\A r \in db : r.ent # notifying)
        /\ \A t \in Threads : move[t].ent # notifying
        /\ entity[notifying].type = "NotProcessed" /\ entity[notifying].slot = notifying
        /\ entity[notifying].replace
        /\ \A e \in mem : Live(e) => entity[e].bubble # entity[notifying].bubble
    BY DEF StoreInv, WaitInv
  <2>2. notifying \in Entities /\ notifying # None
    BY DEF IInv, TypeOK, Created
  <2>3. entity'[notifying] = entity[notifying]
    BY <2>1, <2>2 DEF Steady
  <2>4. notifying \notin mem' /\ (\A r \in db' : r.ent # notifying)
    BY <1>2, <2>1 DEF Steady
  <2>5. \A t \in Threads : move'[t].ent # notifying
    BY <2>1, <2>2 DEF Steady
  <2>6. \A e \in mem' : Live(e)' => entity'[e].bubble # entity[notifying].bubble
    BY <1>2, <2>1
  <2> QED
    BY <1>3, <2>1, <2>3, <2>4, <2>5, <2>6 DEF WaitInv
<1> QED
  BY <1>4, <1>5, <1>6, <1>7

\* The timeouts, when the step goes on looking at those of the live ones.
LEMMA SteadyTimeouts ==
  ASSUME IInv, StoreInv, Steady,
         \A e \in mem : Live(e) /\ SoleReplacement(e) /\ e \notin overtaken /\ Live(e)' /\ Seen(e)
                          => StillWatched(e)
  PROVE  FreshTimeoutKept'
<1> SUFFICES ASSUME NEW e \in mem', e \notin overtaken', Live(e)', entity'[e].kind.timeout > 0,
                    SoleReplacement(e)'
             PROVE  StillWatched(e) \/ notifying' = e
  BY DEF FreshTimeoutKept, Watched, StillWatched
<1>1. mem \subseteq 1..made /\ 1..made \subseteq Entities
  BY NumberFacts
<1>2. made' = made /\ notifying' = notifying
  BY DEF Steady, call
<1>3. e \in mem /\ e \in Entities /\ e \notin overtaken
  BY <1>1 DEF Steady
<1>4. Live(e) /\ entity[e].kind.timeout > 0
  BY <1>3 DEF Steady, Live
<1>5. SoleReplacement(e)
  BY <1>1, <1>2, <1>3 DEF SoleReplacement, Steady
<1>6. Watched(e)
  BY <1>3, <1>4, <1>5 DEF StoreInv, FreshTimeoutKept
<1>7. Seen(e) \/ notifying = e
  BY <1>6 DEF Watched, Seen
<1> QED
  BY <1>2, <1>3, <1>4, <1>5, <1>7

\* removePendingEntity for an entity x that is not live spares the live ones.
LEMMA SparesLive ==
  ASSUME IInv, StoreInv, NEW D, NEW x \in Entities, x \in 1..made, Spares(D, x),
         \A f \in Entities : entity'[f].bubble = entity[f].bubble,
         NEW e \in mem, Live(e), SoleReplacement(e), Seen(e), e # x,
         entity'[e].id # entity'[x].id,
         \A u \in Threads : e \in due[u] => e \in D[u]
  PROVE  StillWatched(e)
<1>1. e \in Entities /\ mem \subseteq 1..made /\ 1..made \subseteq Entities
  BY NumberFacts
<1>2. ~(entity[x].replace /\ entity'[e].bubble = entity[x].bubble)
  BY <1>1 DEF SoleReplacement
<1>3. ASSUME NEW p \in pending, p.ent = e PROVE StillWatched(e)
  BY <1>2, <1>3 DEF Spares
<1>4. ASSUME NEW u \in Threads, e \in due[u] PROVE StillWatched(e)
  BY <1>4 DEF Spares, StillWatched
<1> QED
  BY <1>3, <1>4 DEF Seen

-----------------------------------------------------------------------------
(* A call on a live notification: it goes, or its move begins.                *)

\* Who is in the middle of a move has the id of it, as long as it is in memory.
LEMMA HeldId ==
  ASSUME IInv, StoreInv, NEW t \in Threads, move[t].at # "none", move[t].ent \in mem
  PROVE  entity[move[t].ent].id = move[t].id
<1>1. entity[move[t].ent].id = move[t].id \/ entity[move[t].ent].id > 0
  BY DEF StoreInv, MoveInv, MovesWell
<1>2. entity[move[t].ent].id < 0 /\ entity[move[t].ent].id \in Int
  BY NumberFacts DEF StoreInv, IdsInv
<1> QED
  BY <1>1, <1>2

\* A call on it is noted.
LEMMA HeldIsOvertaken ==
  ASSUME IInv, StoreInv, NEW e \in mem, Overtake(entity[e].id, {e}),
         NEW t \in Threads, move[t].at # "none", move[t].ent = e
  PROVE  e \in overtaken'
<1>1. move[t].id = entity[e].id
  BY HeldId
<1>2. t \in Moving(entity[e].id)
  BY <1>1 DEF Moving
<1> QED
  BY <1>2 DEF Overtake

LEMMA OvertakenGrows ==
  ASSUME NEW i, NEW E, Overtake(i, E)
  PROVE  overtaken \subseteq overtaken' /\ overtaken' \subseteq overtaken \cup E
BY DEF Overtake

\* A row of a live notification is there only while its move is.
LEMMA RowOfLive ==
  ASSUME IInv, StoreInv, NEW e \in mem, Overtake(entity[e].id, {e}), e \notin overtaken',
         NEW r \in db
  PROVE  r.ent # e
<1> SUFFICES ASSUME r.ent = e PROVE FALSE
  OBVIOUS
<1>1. e \notin overtaken
  BY OvertakenGrows
<1>2. PICK t \in Threads : move[t].at = "inserted" /\ move[t].ent = e
  BY <1>1 DEF StoreInv, RowsInv
<1> QED
  BY <1>2, HeldIsOvertaken

\* What taking the live entity e out leaves: only e changes, which is not live any more.
Dropped(D, e) ==
  /\ \A f \in Entities : f # e => entity'[f] = entity[f]
  /\ entity'[e].bubble = entity[e].bubble /\ entity'[e].replace = entity[e].replace
  /\ entity'[e].slot = entity[e].slot /\ entity'[e].kind = entity[e].kind
  /\ entity'[e].id = entity[e].id /\ entity'[e].type \in {"Processed", "Removed"}
  /\ changed' = <<[id |-> entity'[e].id, type |-> entity'[e].type]>>
  /\ mem' = mem \ {e} /\ UNCHANGED <<db, lastRow, move>> /\ Overtake(entity[e].id, {e})
  /\ \/ entity'[e].type = "Removed"
     \/ entity[e].kind.hidden \/ FALSE \in CenterSetting
  /\ Spares(D, e)

\* What beginning its move leaves, in the thread t.
Begun(t, e) ==
  /\ \A f \in 1..made : f # e => entity'[f] = entity[f]
  /\ entity'[e].bubble = entity[e].bubble /\ entity'[e].replace = entity[e].replace
  /\ entity'[e].slot = entity[e].slot /\ entity'[e].kind = entity[e].kind
  /\ entity'[e].id = entity[e].id /\ entity'[e].type = "Processed"
  /\ move[t] = NoMove
  /\ move'[t] = [at |-> "typed", ent |-> e, id |-> entity[e].id, row |-> None]
  /\ \A u \in Threads : u # t => move'[u] = move[u]
  /\ UNCHANGED <<mem, db, lastRow>> /\ Overtake(entity[e].id, {e})

\* What settling a row leaves.
RowSettled(D, r) ==
  /\ UNCHANGED <<entity, mem, lastRow, move, overtaken>>
  /\ \E ty \in {"Processed", "Removed"} : changed' = <<[id |-> r.id, type |-> ty]>>
  /\ \/ db' = db \ {r}
     \/ \E ty \in Types : db' = (db \ {r}) \cup {[r EXCEPT !.type = ty]}
  /\ \A u \in Threads : D[u] \subseteq due'[u]
  /\ \A p \in pending : \/ entity[p.ent].id = r.id
                        \/ entity[r.ent].replace /\ entity[p.ent].bubble = entity[r.ent].bubble
                        \/ StillWatched(p.ent)

\* updateEntityProcessed of a live entity does the first or the second ...
LEMMA LiveSettles ==
  ASSUME TypeOK, NEW t \in Threads, NEW D \in [Threads -> SUBSET Entities],
         NEW e \in mem, NEW ty \in {"Processed", "Removed"}, SettleLive(t, D, e, ty),
         \A f \in 1..made : f \in Entities, move[t] = NoMove
  PROVE  \/ Dropped(D, e)
         \/ /\ Begun(t, e) /\ due' = D /\ changed' = <<>> /\ pending' = pending
            /\ \A f \in Entities : f # e => entity'[f] = entity[f]
<1>1. /\ e \in Entities /\ entity[e] \in Data /\ entity \in [Entities -> Data]
      /\ entity[e].kind \in KindType /\ move \in [Threads -> Move]
  BY DEF TypeOK, Data
<1>2. PICK show \in Shown(entity[e].kind) :
       \/ /\ ty = "Removed" \/ ~show
          /\ Drop(t, D, e, ty)
       \/ /\ ty = "Processed" /\ show
          /\ BeginMove(t, e, ty, entity)
          /\ due' = D /\ changed' = <<>>
          /\ UNCHANGED <<mem, pending, lastPoint, starts>>
  BY DEF SettleLive
<1>3. Overtake(entity[e].id, {e}) /\ UNCHANGED <<db, lastRow>>
  BY DEF SettleLive
<1>4. CASE (ty = "Removed" \/ ~show) /\ Drop(t, D, e, ty)
  <2>1. PICK ent : ent = [entity EXCEPT ![e].type = ty]
    OBVIOUS
  <2>2. /\ ent[e].id = entity[e].id /\ ent[e].type = ty
        /\ ent[e].bubble = entity[e].bubble /\ ent[e].replace = entity[e].replace
        /\ ent[e].slot = entity[e].slot /\ ent[e].kind = entity[e].kind
        /\ \A f \in Entities : f # e => ent[f] = entity[f]
    BY <1>1, <2>1 DEF Data
  <2>3. /\ entity' = ent /\ mem' = mem \ {e} /\ changed' = <<[id |-> entity[e].id, type |-> ty]>>
        /\ move' = move
        /\ RemovePending(t, D, ent, entity[e].id, entity[e].replace, entity[e].bubble)
    BY <1>4, <2>1 DEF Drop, RemovePending, Matching
  <2>4. ty = "Removed" \/ entity[e].kind.hidden \/ FALSE \in CenterSetting
    BY <1>1, <1>4, ChoicesAssumption DEF Shown, KindType
  <2>5. Spares(D, e)
    BY <2>2, <2>3, RemoveKeeps DEF Spares
  <2> QED
    BY <1>3, <2>2, <2>3, <2>4, <2>5 DEF Dropped
<1>5. CASE /\ ty = "Processed" /\ BeginMove(t, e, ty, entity) /\ due' = D /\ changed' = <<>>
           /\ UNCHANGED <<mem, pending, lastPoint, starts>>
  <2>1. /\ entity' = [entity EXCEPT ![e].type = ty]
        /\ move' = [move EXCEPT ![t] =
                      [at |-> "typed", ent |-> e, id |-> entity[e].id, row |-> None]]
    BY <1>5 DEF BeginMove
  <2>2. /\ entity'[e].id = entity[e].id /\ entity'[e].type = ty
        /\ entity'[e].bubble = entity[e].bubble /\ entity'[e].replace = entity[e].replace
        /\ entity'[e].slot = entity[e].slot /\ entity'[e].kind = entity[e].kind
        /\ \A f \in Entities : f # e => entity'[f] = entity[f]
    BY <1>1, <2>1 DEF Data
  <2>3. /\ move'[t] = [at |-> "typed", ent |-> e, id |-> entity[e].id, row |-> None]
        /\ \A u \in Threads : u # t => move'[u] = move[u]
    BY <1>1, <2>1
  <2> QED
    BY <1>3, <1>5, <2>2, <2>3 DEF Begun
<1> QED
  BY <1>2, <1>4, <1>5

\* ... and of a row the third.
LEMMA RowSettles ==
  ASSUME NEW t \in Threads, NEW D \in [Threads -> SUBSET Entities],
         NEW r \in db, NEW ty \in {"Processed", "Removed"}, SettleRow(t, D, r, ty)
  PROVE  RowSettled(D, r)
<1>1. /\ \/ db' = db \ {r}
         \/ db' = (db \ {r}) \cup {[r EXCEPT !.type = ty]}
      /\ changed' = <<[id |-> r.id, type |-> ty]>>
      /\ RemovePending(t, D, entity, r.id, entity[r.ent].replace,
                       entity[r.ent].bubble)
      /\ UNCHANGED <<entity, mem, lastRow, move, overtaken>>
  BY DEF SettleRow, moves
<1>2. /\ \A u \in Threads : D[u] \subseteq due'[u]
      /\ \A p \in pending : \/ entity[p.ent].id = r.id
                            \/ entity[r.ent].replace /\ entity[p.ent].bubble = entity[r.ent].bubble
                            \/ StillWatched(p.ent)
  BY <1>1, RemoveKeeps
<1>3. ty \in Types
  BY DEF Types
<1> QED
  BY <1>1, <1>2, <1>3 DEF RowSettled

\* The call that settles what has the id i.
Settled(t, D, i) ==
  \/ \E e \in mem : /\ entity[e].id = i
                    /\ \/ Dropped(D, e)
                       \/ /\ Begun(t, e) /\ due' = D /\ changed' = <<>> /\ pending' = pending
                          /\ \A f \in Entities : f # e => entity'[f] = entity[f]
  \/ /\ \A e \in mem : entity[e].id # i
     /\ \/ \E r \in db : r.id = i /\ RowSettled(D, r)
        \/ /\ due' = D /\ changed' = <<>>
           /\ UNCHANGED <<entity, mem, db, lastRow, move, overtaken, pending>>

\* fetchEntity and updateEntityProcessed settle what has the id.
LEMMA Settles ==
  ASSUME IInv, NEW t \in Threads, NEW D \in [Threads -> SUBSET Entities], move[t] = NoMove,
         NEW i, NEW next \in [Types -> {"Processed", "Removed"}], Settle(t, D, i, next)
  PROVE  Settled(t, D, i)
<1> USE DEF IInv
<1>1. ASSUME NEW e \in InMemory(i), SettleLive(t, D, e, next[entity[e].type])
      PROVE  Settled(t, D, i)
  <2>1. e \in mem /\ entity[e].id = i
    BY DEF InMemory
  <2>2. next[entity[e].type] \in {"Processed", "Removed"}
    BY <2>1 DEF TypeOK, Data
  <2>3. \A f \in 1..made : f \in Entities
    BY NumberFacts
  <2>4. \/ Dropped(D, e)
        \/ /\ Begun(t, e) /\ due' = D /\ changed' = <<>> /\ pending' = pending
           /\ \A f \in Entities : f # e => entity'[f] = entity[f]
    BY <1>1, <2>1, <2>2, <2>3, LiveSettles
  <2> QED
    BY <2>1, <2>4 DEF Settled
<1>2. ASSUME InMemory(i) = {}, NEW r \in InDb(i), SettleRow(t, D, r, next[r.type])
      PROVE  Settled(t, D, i)
  <2>1. r \in db /\ r.id = i
    BY DEF InDb
  <2>2. next[r.type] \in {"Processed", "Removed"}
    BY <2>1 DEF TypeOK, Row, Types
  <2>3. RowSettled(D, r)
    BY <1>2, <2>1, <2>2, RowSettles
  <2> QED
    BY <1>2, <2>1, <2>3 DEF Settled, InMemory
<1>3. CASE /\ InMemory(i) = {} /\ due' = D /\ changed' = <<>>
           /\ UNCHANGED <<entity, mem, db, lastRow, moves, pending>>
  BY <1>3 DEF Settled, InMemory, moves
<1> QED
  BY <1>1, <1>2, <1>3 DEF Settle

-----------------------------------------------------------------------------
(* A call that settles what has the id i, on whichever thread, keeps the     *)
(* invariant.  D may have lost an entity with that id, which the loop of      *)
(* onHandingPendingEntities has taken.                                        *)

\* When the live entity x goes ...
LEMMA DroppedKeeps ==
  ASSUME IInv, StoreInv, NEW D, NEW x \in mem, Dropped(D, x),
         \A u \in Threads : \A e \in due[u] : e \in D[u] \/ entity[e].id = entity[x].id,
         UNCHANGED <<made, memId, replaces, call>>
  PROVE  StoreInv' /\ LossExplained
<1>1. /\ x \in Entities /\ x \in 1..made /\ mem \subseteq 1..made /\ 1..made \subseteq Entities
      /\ \A r \in db : r.ent \in 1..made
      /\ \A u \in Threads : move[u].at # "none" => move[u].ent \in 1..made
  BY NumberFacts
<1>2. /\ \A f \in Entities : f # x => entity'[f] = entity[f]
      /\ entity'[x].bubble = entity[x].bubble /\ entity'[x].replace = entity[x].replace
      /\ entity'[x].slot = entity[x].slot /\ entity'[x].kind = entity[x].kind
      /\ entity'[x].id = entity[x].id /\ entity'[x].type \in {"Processed", "Removed"}
      /\ mem' = mem \ {x} /\ db' = db /\ lastRow' = lastRow /\ move' = move
      /\ Overtake(entity[x].id, {x})
      /\ \/ entity'[x].type = "Removed"
         \/ entity[x].kind.hidden \/ FALSE \in CenterSetting
  BY DEF Dropped
<1>3. overtaken \subseteq overtaken'
  BY <1>2, OvertakenGrows
<1>4. Steady
  BY <1>1, <1>2, <1>3 DEF Steady
<1>5. RowsInv'
  <2>1. \A r, s \in db : r.ent = s.ent /\ r.ent \notin overtaken' => r = s
    BY <1>3 DEF StoreInv, RowsInv
  <2>2. \A r \in db : r.ent \in mem' /\ r.ent \notin overtaken' =>
          \E t \in Threads : move[t].at = "inserted" /\ move[t].ent = r.ent /\ move[t].row = r.id
    BY <1>2, <1>3 DEF StoreInv, RowsInv
  <2> QED
    BY <1>2, <2>1, <2>2 DEF StoreInv, RowsInv
<1>6. MoveInv'
  <2>1. ASSUME NEW t \in Threads, move[t].at # "none", move[t].ent = x PROVE x \in overtaken'
    BY <1>2, <2>1, HeldIsOvertaken
  <2>2. ASSUME NEW t \in Threads PROVE MovesWell(t)'
    <3> SUFFICES ASSUME move[t].at # "none" PROVE MovesWell(t)'
      BY <1>2 DEF MovesWell
    <3>1. move[t].ent \in Entities
      BY <1>1
    <3>2. MovesWell(t)
      BY DEF StoreInv, MoveInv
    <3>3. /\ entity'[move[t].ent].type # "NotProcessed"
          /\ entity'[move[t].ent].type = "Removed" => move[t].ent \in overtaken'
          /\ entity'[move[t].ent].id = entity[move[t].ent].id
      BY <1>2, <1>3, <2>1, <3>1, <3>2 DEF MovesWell
    <3>4. \A f \in mem' : entity'[f].id = move[t].id => f = move[t].ent \/ f \in overtaken'
      BY <1>1, <1>2, <1>3, <3>2 DEF MovesWell
    <3>5. move[t].at = "typed" /\ move[t].ent \notin overtaken'
            => \A r \in db : r.ent # move[t].ent
      BY <1>3, <3>2 DEF MovesWell
    <3> QED
      BY <1>2, <3>2, <3>3, <3>4, <3>5 DEF MovesWell
  <2> QED
    BY <1>2, <1>3, <2>2 DEF StoreInv, MoveInv
<1>7. ClosedIsGone'
  <2> SUFFICES ASSUME NEW f \in 1..made, f \notin overtaken', entity'[f].type = "Removed"
               PROVE  f \notin mem' /\ \A r \in db : r.ent # f
    BY <1>2 DEF ClosedIsGone
  <2>1. CASE f = x
    BY <1>2, <2>1, RowOfLive
  <2>2. CASE f # x
    BY <1>1, <1>2, <1>3, <2>2 DEF StoreInv, ClosedIsGone
  <2> QED
    BY <2>1, <2>2
<1>8. FreshTimeoutKept'
  <2>1. ASSUME NEW e \in mem, Live(e), SoleReplacement(e), Live(e)', Seen(e)
        PROVE  StillWatched(e)
    <3>1. e # x /\ e \in Entities
      BY <1>1, <1>2, <2>1 DEF Live
    <3>2. entity'[e].id # entity'[x].id /\ entity[e].id # entity[x].id
      BY <1>2, <3>1 DEF StoreInv, IdsInv
    <3>3. \A u \in Threads : e \in due[u] => e \in D[u]
      BY <3>2
    <3>4. \A f \in Entities : entity'[f].bubble = entity[f].bubble
      BY <1>2
    <3>5. Spares(D, x)
      BY DEF Dropped
    <3> QED
      BY <1>1, <2>1, <3>1, <3>2, <3>3, <3>4, <3>5, SparesLive
  <2> QED
    BY <1>4, <2>1, SteadyTimeouts
<1>9. LossExplained
  BY <1>2 DEF LossExplained
<1> QED
  BY <1>4, <1>5, <1>6, <1>7, <1>8, <1>9, SteadyKeeps DEF StoreInv

\* ... when its move begins, as far as the rows and the moves go ...
LEMMA BegunRows ==
  ASSUME IInv, StoreInv, NEW t \in Threads, NEW x \in mem, Begun(t, x), memId' <= memId,
         memId' \in Int
  PROVE  /\ RowsInv' /\ MoveInv' /\ overtaken \subseteq overtaken'
         /\ \A f \in 1..made : f \notin overtaken' /\ entity'[f].type = "Removed"
                                 => f \notin mem' /\ \A r \in db' : r.ent # f
<1>1. /\ x \in 1..made /\ mem \subseteq 1..made /\ 1..made \subseteq Entities
      /\ \A u \in Threads : /\ move[u].at # "none" => move[u].ent \in 1..made
                            /\ move[u].at = "none" => move[u].ent = None
                            /\ move[u].id \in Int
      /\ None \notin 1..made /\ memId \in Int
      /\ \A e \in mem : entity[e].id \in Int
  BY NumberFacts
<1>2. /\ \A f \in 1..made : f # x => entity'[f] = entity[f]
      /\ entity'[x].id = entity[x].id /\ entity'[x].type = "Processed"
      /\ move[t] = NoMove
      /\ move'[t] = [at |-> "typed", ent |-> x, id |-> entity[x].id, row |-> None]
      /\ \A u \in Threads : u # t => move'[u] = move[u]
      /\ mem' = mem /\ db' = db /\ lastRow' = lastRow
      /\ Overtake(entity[x].id, {x})
  BY DEF Begun
<1>3. overtaken \subseteq overtaken'
  BY <1>2, OvertakenGrows
<1>4. move[t].at = "none"
  BY <1>2 DEF NoMove
<1>5. RowsInv'
  <2>1. \A r, s \in db : r.ent = s.ent /\ r.ent \notin overtaken' => r = s
    BY <1>3 DEF StoreInv, RowsInv
  <2>2. ASSUME NEW r \in db, r.ent \in mem, r.ent \notin overtaken'
        PROVE  \E u \in Threads : move'[u].at = "inserted" /\ move'[u].ent = r.ent /\ move'[u].row = r.id
    <3>1. PICK u \in Threads : move[u].at = "inserted" /\ move[u].ent = r.ent /\ move[u].row = r.id
      BY <1>3, <2>2 DEF StoreInv, RowsInv
    <3> QED
      BY <1>2, <1>4, <3>1
  <2> QED
    BY <1>2, <2>1, <2>2 DEF StoreInv, RowsInv
<1>6. ASSUME NEW u \in Threads, move[u].at # "none", move[u].ent = x PROVE x \in overtaken'
  BY <1>2, <1>6, HeldIsOvertaken
<1>7. ASSUME NEW u \in Threads PROVE MovesWell(u)'
  <2>1. CASE u = t
    <3>1. x \notin overtaken' => \A r \in db : r.ent # x
      BY <1>2, RowOfLive
    <3>2. memId' <= entity[x].id /\ entity[x].id < 0
      BY <1>1 DEF StoreInv, IdsInv
    <3>3. \A f \in mem : entity'[f].id = entity[x].id => f = x
      BY <1>1, <1>2 DEF StoreInv, IdsInv
    <3>4. /\ move'[u].at = "typed" /\ move'[u].ent = x /\ move'[u].id = entity[x].id
          /\ move'[u].row = None
      BY <1>2, <2>1
    <3> QED
      BY <1>2, <3>1, <3>2, <3>3, <3>4 DEF MovesWell
  <2>2. CASE u # t
    <3> SUFFICES ASSUME move[u].at # "none" PROVE MovesWell(u)'
      BY <1>2, <2>2 DEF MovesWell
    <3>1. move[u].ent \in 1..made /\ move'[u] = move[u]
      BY <1>1, <1>2, <2>2
    <3>2. MovesWell(u)
      BY DEF StoreInv, MoveInv
    <3>3. /\ entity'[move[u].ent].type # "NotProcessed"
          /\ entity'[move[u].ent].type = "Removed" => move[u].ent \in overtaken'
          /\ entity'[move[u].ent].id = entity[move[u].ent].id
      BY <1>2, <1>3, <3>1, <3>2 DEF MovesWell
    <3>4. \A f \in mem' : entity'[f].id = move[u].id => f = move[u].ent \/ f \in overtaken'
      BY <1>1, <1>2, <1>3, <3>2 DEF MovesWell
    <3>5. move[u].at = "typed" /\ move[u].ent \notin overtaken'
            => \A r \in db : r.ent # move[u].ent
      BY <1>3, <3>2 DEF MovesWell
    <3>6. memId' <= move[u].id /\ move[u].id < 0
      BY <1>1, <3>2 DEF MovesWell
    <3> QED
      BY <1>2, <3>1, <3>2, <3>3, <3>4, <3>5, <3>6 DEF MovesWell
  <2> QED
    BY <2>1, <2>2
<1>8. ASSUME NEW u \in Threads, NEW v \in Threads, u # v, move'[u].at # "none",
             move'[u].ent = move'[v].ent
      PROVE  move'[u].ent \in overtaken'
  <2>1. CASE u = t
    <3>1. move'[v] = move[v] /\ move[v].ent = x
      BY <1>2, <1>8, <2>1
    <3>2. move[v].at # "none"
      BY <1>1, <3>1
    <3> QED
      BY <1>2, <1>6, <2>1, <3>1, <3>2
  <2>2. CASE v = t
    BY <1>2, <1>6, <1>8, <2>2
  <2>3. CASE u # t /\ v # t
    BY <1>2, <1>3, <1>8, <2>3 DEF StoreInv, MoveInv
  <2> QED
    BY <2>1, <2>2, <2>3
<1>9. ASSUME NEW f \in 1..made, f \notin overtaken', entity'[f].type = "Removed"
      PROVE  f \notin mem' /\ \A r \in db' : r.ent # f
  <2>1. f # x
    BY <1>2, <1>9
  <2> QED
    BY <1>2, <1>3, <1>9, <2>1 DEF StoreInv, ClosedIsGone
<1> QED
  BY <1>3, <1>5, <1>7, <1>8, <1>9 DEF MoveInv

\* ... and in a call that does no more ...
LEMMA BegunKeeps ==
  ASSUME IInv, StoreInv, NEW t \in Threads, NEW D, NEW x \in mem, Begun(t, x),
         \A f \in Entities : f # x => entity'[f] = entity[f],
         due' = D, pending' = pending,
         \A u \in Threads : \A e \in due[u] : e \in D[u] \/ entity[e].id = entity[x].id,
         UNCHANGED <<made, memId, replaces, call>>
  PROVE  StoreInv' /\ LossExplained
<1>1. /\ x \in Entities /\ x \in 1..made /\ mem \subseteq 1..made /\ 1..made \subseteq Entities
      /\ memId \in Int
  BY NumberFacts
<1>2. /\ entity'[x].bubble = entity[x].bubble /\ entity'[x].replace = entity[x].replace
      /\ entity'[x].slot = entity[x].slot /\ entity'[x].kind = entity[x].kind
      /\ entity'[x].id = entity[x].id /\ entity'[x].type = "Processed"
      /\ move'[t].ent = x /\ (\A u \in Threads : u # t => move'[u] = move[u])
      /\ mem' = mem /\ db' = db /\ lastRow' = lastRow
  BY DEF Begun
<1>3. /\ RowsInv' /\ MoveInv' /\ overtaken \subseteq overtaken'
      /\ \A f \in 1..made : f \notin overtaken' /\ entity'[f].type = "Removed"
                              => f \notin mem' /\ \A r \in db' : r.ent # f
  <2>1. memId' <= memId /\ memId' \in Int
    BY <1>1
  <2> QED
    BY <2>1, BegunRows
<1>4. Steady
  <2>1. \A u \in Threads : move'[u].ent \in mem \cup {None, move[u].ent}
    BY <1>2
  <2>2. \A f \in Entities :
       /\ entity'[f].bubble = entity[f].bubble /\ entity'[f].replace = entity[f].replace
       /\ entity'[f].slot = entity[f].slot /\ entity'[f].kind = entity[f].kind
       /\ entity'[f].type = "NotProcessed" => entity[f].type = "NotProcessed"
       /\ f \in mem' => entity'[f].id = entity[f].id
       /\ f \notin mem /\ (\A u \in Threads : move[u].ent # f) => entity'[f] = entity[f]
    BY <1>2
  <2> QED
    BY <1>2, <1>3, <2>1, <2>2 DEF Steady
<1>5. ClosedIsGone'
  BY <1>3 DEF ClosedIsGone
<1>6. FreshTimeoutKept'
  <2>1. ASSUME NEW e \in mem, Live(e)', Seen(e) PROVE StillWatched(e)
    <3>1. e # x
      BY <1>2, <2>1 DEF Live
    <3>2. entity[e].id # entity[x].id
      BY <3>1 DEF StoreInv, IdsInv
    <3> QED
      BY <2>1, <3>2 DEF Seen, StillWatched
  <2> QED
    BY <1>4, <2>1, SteadyTimeouts
<1>7. LossExplained
  BY <1>2 DEF LossExplained
<1> QED
  BY <1>3, <1>4, <1>5, <1>6, <1>7, SteadyKeeps DEF StoreInv

\* ... when a row is settled ...
LEMMA RowKeeps ==
  ASSUME IInv, StoreInv, NEW D, NEW r \in db, RowSettled(D, r),
         \A e \in mem : entity[e].id # r.id,
         \A u \in Threads : \A e \in due[u] : e \in D[u] \/ entity[e].id = r.id,
         UNCHANGED <<made, memId, replaces, call>>
  PROVE  StoreInv' /\ LossExplained
<1>1. PICK ty : \/ db' = db \ {r}
                \/ db' = (db \ {r}) \cup {[r EXCEPT !.type = ty]}
  BY DEF RowSettled
<1> DEFINE n == [r EXCEPT !.type = ty]
<1>2. n.id = r.id /\ n.ent = r.ent
  BY DEF IInv, TypeOK, Row
<1>3. /\ \A s \in db' : s = n \/ (s \in db /\ s # r)
      /\ UNCHANGED <<entity, mem, lastRow, move, overtaken>>
  BY <1>1 DEF RowSettled
<1> HIDE DEF n
<1>4. \A s \in db' : \E q \in db : q.id = s.id /\ q.ent = s.ent
  BY <1>2, <1>3
<1>5. Steady
  BY <1>3, <1>4 DEF Steady
<1>6. RowsInv'
  <2>1. \A s \in db' : 0 < s.id /\ s.id <= lastRow
    BY <1>4 DEF StoreInv, RowsInv
  <2>2. \A s, q \in db' : s.id = q.id => s = q
    BY <1>2, <1>3 DEF StoreInv, RowsInv
  <2>3. \A s, q \in db' : s.ent = q.ent /\ s.ent \notin overtaken => s = q
    BY <1>2, <1>3 DEF StoreInv, RowsInv
  <2>4. \A s \in db' : s.ent \in mem /\ s.ent \notin overtaken =>
          \E t \in Threads : move[t].at = "inserted" /\ move[t].ent = s.ent /\ move[t].row = s.id
    BY <1>4 DEF StoreInv, RowsInv
  <2> QED
    BY <1>3, <2>1, <2>2, <2>3, <2>4 DEF RowsInv
<1>7. MoveInv'
  <2>1. \A u \in Threads : MovesWell(u)'
    BY <1>3, <1>4 DEF StoreInv, MoveInv, MovesWell, Steady
  <2> QED
    BY <1>3, <2>1 DEF StoreInv, MoveInv
<1>8. ClosedIsGone'
  BY <1>3, <1>4 DEF StoreInv, ClosedIsGone, Steady
<1>9. FreshTimeoutKept'
  <2>1. ASSUME NEW e \in mem, Live(e), SoleReplacement(e), e \notin overtaken, Seen(e)
        PROVE  StillWatched(e)
    <3>1. r.ent # e
      <4>1. r.ent = e => \E t \in Threads : move[t].at = "inserted" /\ move[t].ent = e
        BY <2>1 DEF StoreInv, RowsInv
      <4>2. \A t \in Threads : move[t].at # "none" => entity[move[t].ent].type # "NotProcessed"
        BY DEF StoreInv, MoveInv, MovesWell
      <4> QED
        BY <2>1, <4>1, <4>2 DEF Live
    <3>2. r.ent \in 1..made
      BY NumberFacts
    <3>3. ~(entity[r.ent].replace /\ entity[e].bubble = entity[r.ent].bubble)
      BY <2>1, <3>1, <3>2 DEF SoleReplacement
    <3>4. entity[e].id # r.id
      OBVIOUS
    <3>5. \A p \in pending : p.ent = e => StillWatched(e)
      BY <3>3, <3>4 DEF RowSettled
    <3>6. \A u \in Threads : e \in due[u] => StillWatched(e)
      BY <3>4 DEF RowSettled, StillWatched
    <3> QED
      BY <2>1, <3>5, <3>6 DEF Seen
  <2> QED
    BY <1>5, <2>1, SteadyTimeouts
<1>10. LossExplained
  BY <1>3 DEF LossExplained
<1> QED
  BY <1>5, <1>6, <1>7, <1>8, <1>9, <1>10, SteadyKeeps DEF StoreInv

\* ... and when nothing is.
LEMMA NothingKeeps ==
  ASSUME IInv, StoreInv, NEW D, NEW i, \A e \in mem : entity[e].id # i, due' = D,
         UNCHANGED <<entity, mem, db, lastRow, move, overtaken, pending>>,
         \A u \in Threads : \A e \in due[u] : e \in D[u] \/ entity[e].id = i,
         UNCHANGED <<made, memId, replaces, call>>
  PROVE  StoreInv' /\ LossExplained
<1>1. Steady
  BY DEF Steady
<1>2. RowsInv' /\ MoveInv' /\ ClosedIsGone' /\ LossExplained
  BY DEF StoreInv, RowsInv, MoveInv, MovesWell, ClosedIsGone, LossExplained
<1>3. FreshTimeoutKept'
  <2>1. \A e \in mem : Seen(e) => StillWatched(e)
    BY DEF Seen, StillWatched
  <2> QED
    BY <1>1, <2>1, SteadyTimeouts
<1> QED
  BY <1>1, <1>2, <1>3, SteadyKeeps DEF StoreInv

\* Settling keeps the invariant, and no notification is lost by it.
LEMMA SettledKeepsStore ==
  ASSUME IInv, StoreInv, NEW t \in Threads, NEW D, NEW i, Settled(t, D, i),
         \A u \in Threads : \A e \in due[u] : e \in D[u] \/ entity[e].id = i,
         UNCHANGED <<made, memId, replaces, call>>
  PROVE  StoreInv' /\ LossExplained
<1>1. ASSUME NEW e \in mem, entity[e].id = i, Dropped(D, e)
      PROVE  StoreInv' /\ LossExplained
  BY <1>1, DroppedKeeps
<1>2. ASSUME NEW e \in mem, entity[e].id = i, Begun(t, e), due' = D, pending' = pending,
             \A f \in Entities : f # e => entity'[f] = entity[f]
      PROVE  StoreInv' /\ LossExplained
  BY <1>2, BegunKeeps
<1>3. ASSUME \A e \in mem : entity[e].id # i, NEW r \in db, r.id = i, RowSettled(D, r)
      PROVE  StoreInv' /\ LossExplained
  BY <1>3, RowKeeps
<1>4. ASSUME \A e \in mem : entity[e].id # i, due' = D,
             UNCHANGED <<entity, mem, db, lastRow, move, overtaken, pending>>
      PROVE  StoreInv' /\ LossExplained
  BY <1>4, NothingKeeps
<1> QED
  BY <1>1, <1>2, <1>3, <1>4 DEF Settled


-----------------------------------------------------------------------------
(* The steps that begin or end no move.                                      *)

\* A step that touches neither the stores nor the entities, and forgets no
\* timeout, keeps the invariant.
LEMMA SameStoreStep ==
  ASSUME IInv, StoreInv, UNCHANGED <<heap, store, replaces>>,
         \/ UNCHANGED call
         \/ stage' = "idle" /\ notifying' = None
         \/ stage' = "announced" /\ notifying' = made,
         \A e \in mem : Live(e) /\ entity[e].kind.timeout > 0 /\ Watched(e)
                          => StillWatched(e) \/ notifying' = e
  PROVE  StoreInv' /\ LossExplained
<1> USE DEF heap, store, moves
<1>1. FreshTimeoutKept'
  BY DEF StoreInv, FreshTimeoutKept, Live, SoleReplacement, Watched, StillWatched
<1>2. IdsInv' /\ RowsInv' /\ SlotInv' /\ ClosedIsGone' /\ LossExplained
  BY DEF StoreInv, IdsInv, RowsInv, SlotInv, ClosedIsGone, Live, LossExplained
<1>3. MoveInv'
  BY DEF StoreInv, MoveInv, MovesWell
<1>4. CallInv'
  BY DEF StoreInv, CallInv, call
<1>5. WaitInv'
  BY DEF StoreInv, WaitInv, Live, call
<1> QED
  BY <1>1, <1>2, <1>3, <1>4, <1>5 DEF StoreInv

\* Looking at the pending timeouts.
LEMMA HandleStoreStep ==
  ASSUME StoreInv, IInv, NEW t \in Threads, NEW P,
         \A p \in pending : \E q \in P : q.ent = p.ent,
         HandlePending(t, P, due), UNCHANGED <<heap, store, replaces, call>>
  PROVE  StoreInv' /\ LossExplained
<1>1. due \in [Threads -> SUBSET Entities]
  BY DEF IInv, TypeOK
<1>2. /\ \A u \in Threads : due[u] \subseteq due'[u]
      /\ \A p \in P : StillWatched(p.ent)
  BY <1>1, HandleKeeps
<1>3. \A e \in mem : Watched(e) => StillWatched(e) \/ notifying' = e
  BY <1>2 DEF Watched, StillWatched, call
<1> QED
  BY <1>3, SameStoreStep

\* What an idle worker has at hand before Notify: nobody is notified, and every
\* entity of the stores was made before.
LEMMA BeforeNotify ==
  ASSUME IInv, StoreInv, stage = "idle", made < MaxEntities
  PROVE  /\ made \in Nat /\ made + 1 \in Entities /\ made + 1 \notin 1..made
         /\ mem \subseteq 1..made /\ 1..made \subseteq Entities
         /\ \A r \in db : r.ent \in 1..made
         /\ \A t \in Threads : /\ move[t].at # "none" => move[t].ent \in 1..made
                               /\ move[t].ent # made + 1
         /\ 1..(made + 1) = (1..made) \cup {made + 1}
         /\ \A e \in mem : Watched(e) => Seen(e)
         /\ \A p \in pending : p.ent \in 1..made
<1>1. /\ made \in Nat /\ mem \subseteq 1..made /\ 1..made \subseteq Entities
      /\ \A r \in db : r.ent \in 1..made
      /\ \A t \in Threads : /\ move[t].at # "none" => move[t].ent \in 1..made
                            /\ move[t].at = "none" => move[t].ent = None
  BY NumberFacts
<1>2. /\ made + 1 \in Entities /\ made + 1 \notin 1..made /\ None # made + 1
      /\ 1..(made + 1) = (1..made) \cup {made + 1}
  BY <1>1, BoundsAssumption DEF Entities, None
<1>3. \A p \in pending : p.ent \in 1..made
  <2>1. \A e \in Entities : e <= made => e \in 1..made
    BY <1>1, BoundsAssumption DEF Entities
  <2> QED
    BY <2>1 DEF IInv, TypeOK, Created, Item
<1>4. notifying = None /\ None \notin mem
  BY <1>1 DEF StoreInv, CallInv, None
<1> QED
  BY <1>1, <1>2, <1>3, <1>4 DEF Watched, Seen

\* Recording a new notification: n is the object it builds, which goes to memory,
\* to the database, or nowhere.
LEMMA RecordStep ==
  ASSUME IInv, StoreInv, stage = "idle", made < MaxEntities,
         NEW n, entity' = [entity EXCEPT ![made + 1] = n],
         n.type # "Removed", n.bubble = replaces + 1, n.slot <= made + 1,
         UNCHANGED <<pending, due, move, overtaken>>, made' = made + 1, replaces' = replaces + 1,
         notifying' = made + 1, stage' = "stored",
         \/ /\ mem' = mem \cup {made + 1} /\ memId' = memId - 1
            /\ UNCHANGED <<db, lastRow>>
            /\ n.id = memId - 1 /\ n.slot = made + 1
         \/ /\ UNCHANGED <<mem, memId>> /\ lastRow' = lastRow + 1
            /\ db' = db \cup {NewRow(made + 1, "Processed")}
         \/ UNCHANGED <<mem, memId, db, lastRow>>
  PROVE  StoreInv' /\ LossExplained
<1> USE BeforeNotify
<1>1. /\ entity'[made + 1] = n
      /\ \A f \in 1..made : entity'[f] = entity[f]
      /\ memId \in Int /\ lastRow \in Nat /\ replaces \in Nat
      /\ \A r \in db : r.id \in Nat
      /\ \A e \in 1..made : /\ entity[e].id \in Int /\ entity[e].slot \in Nat
                            /\ entity[e].bubble \in Nat
  BY DEF IInv, TypeOK, Data, Row
<1>2. IdsInv'
  BY <1>1 DEF StoreInv, IdsInv
<1>3. RowsInv'
  <2>1. CASE UNCHANGED <<db, lastRow>>
    <3>1. \A r \in db : r.ent \in mem' => r.ent \in mem
      <4>1. \A r \in db : r.ent # made + 1
        OBVIOUS
      <4> QED
        BY <4>1
    <3> QED
      BY <2>1, <3>1 DEF StoreInv, RowsInv
  <2>2. CASE /\ UNCHANGED <<mem, memId>> /\ lastRow' = lastRow + 1
             /\ db' = db \cup {NewRow(made + 1, "Processed")}
    <3> DEFINE w == NewRow(made + 1, "Processed")
    <3>1. w.id = lastRow + 1 /\ w.ent = made + 1 /\ db' = db \cup {w}
      BY <2>2 DEF NewRow
    <3> HIDE DEF w
    <3>2. \A r \in db : r.id # w.id /\ r.ent # w.ent
      BY <1>1, <3>1 DEF StoreInv, RowsInv
    <3>3. \A r \in db' : 0 < r.id /\ r.id <= lastRow'
      BY <1>1, <2>2, <3>1 DEF StoreInv, RowsInv
    <3>4. /\ \A r, s \in db' : r.id = s.id => r = s
          /\ \A r, s \in db' : r.ent = s.ent /\ r.ent \notin overtaken => r = s
      BY <3>1, <3>2 DEF StoreInv, RowsInv
    <3>5. w.ent \notin mem'
      BY <2>2, <3>1
    <3>6. \A r \in db' : r.ent \in mem' /\ r.ent \notin overtaken =>
            \E t \in Threads : move[t].at = "inserted" /\ move[t].ent = r.ent /\ move[t].row = r.id
      BY <2>2, <3>1, <3>5 DEF StoreInv, RowsInv
    <3> QED
      BY <3>3, <3>4, <3>6 DEF RowsInv
  <2> QED
    BY <2>1, <2>2
<1>4. SlotInv'
  <2>1. \A e \in mem' : \/ e \in mem /\ entity'[e] = entity[e]
                        \/ e = made + 1 /\ entity'[e] = n /\ n.slot = made + 1
    BY <1>1
  <2>2. \A e \in mem : /\ entity[e].bubble <= replaces /\ entity[e].slot <= e /\ e <= made
                       /\ entity[e].bubble \in Nat /\ entity[e].slot \in Nat /\ e \in Nat
    BY <1>1 DEF StoreInv, CallInv, SlotInv
  <2>3. \A e \in mem : entity[e].bubble # n.bubble /\ entity[e].slot < made + 1
    BY <1>1, <2>2
  <2>4. \A e \in mem' : entity'[e].slot <= e
    BY <2>1, <2>2
  <2>5. \A e, f \in mem' : entity'[e].slot = entity'[f].slot => e = f
    BY <1>1, <2>1, <2>3 DEF StoreInv, SlotInv
  <2>6. ASSUME NEW e \in mem', NEW f \in mem', Live(f)', entity'[e].bubble = entity'[f].bubble
        PROVE  entity'[e].slot <= entity'[f].slot
    <3>1. CASE e \in mem /\ entity'[e] = entity[e] /\ f \in mem /\ entity'[f] = entity[f]
      BY <2>6, <3>1 DEF StoreInv, SlotInv, Live
    <3>2. CASE e = made + 1 /\ f = made + 1
      BY <1>1, <2>1, <3>2
    <3> QED
      BY <2>1, <2>3, <2>6, <3>1, <3>2
  <2> QED
    BY <2>4, <2>5, <2>6 DEF SlotInv
<1>5. CallInv' /\ ClosedIsGone' /\ WaitInv'
  <2>1. CallInv'
    BY <1>1 DEF StoreInv, CallInv
  <2>2. \A r \in db' : r \in db \/ r.ent = made + 1
    BY DEF NewRow
  <2>3. ClosedIsGone'
    BY <1>1, <2>2 DEF StoreInv, ClosedIsGone
  <2> QED
    BY <2>1, <2>3 DEF WaitInv
<1>6. MoveInv'
  <2>1. ASSUME NEW t \in Threads PROVE MovesWell(t)'
    <3> SUFFICES ASSUME move[t].at # "none" PROVE MovesWell(t)'
      BY DEF MovesWell
    <3>1. MovesWell(t) /\ move[t].ent \in 1..made /\ entity'[move[t].ent] = entity[move[t].ent]
          /\ move[t].id \in Int
      BY <1>1, NumberFacts DEF StoreInv, MoveInv
    <3>2. memId <= move[t].id
      BY <3>1 DEF MovesWell
    <3>3. memId' <= move[t].id
      BY <1>1, <3>1, <3>2
    <3>4. \A f \in mem' : \/ f \in mem /\ entity'[f] = entity[f]
                          \/ entity'[f].id = memId - 1
      BY <1>1
    <3>5. \A f \in mem' : entity'[f].id = move[t].id => f = move[t].ent \/ f \in overtaken
      BY <1>1, <3>1, <3>2, <3>4 DEF MovesWell
    <3>6. \A r \in db' : r \in db \/ r.ent # move[t].ent
      BY <3>1 DEF NewRow
    <3> QED
      BY <3>1, <3>3, <3>5, <3>6 DEF MovesWell
  <2> QED
    BY <2>1 DEF StoreInv, MoveInv
<1>7. FreshTimeoutKept'
  <2> SUFFICES ASSUME NEW e \in mem', e \notin overtaken, Live(e)', entity'[e].kind.timeout > 0,
                      SoleReplacement(e)'
               PROVE  StillWatched(e) \/ notifying' = e
    BY DEF FreshTimeoutKept, Watched, StillWatched
  <2>1. CASE e = made + 1
    BY <2>1
  <2>2. CASE e \in mem
    <3>1. Live(e) /\ entity[e].kind.timeout > 0 /\ SoleReplacement(e)
      BY <1>1, <2>2 DEF Live, SoleReplacement
    <3>2. Seen(e)
      BY <2>2, <3>1 DEF StoreInv, FreshTimeoutKept
    <3> QED
      BY <3>2 DEF StillWatched, Seen
  <2> QED
    BY <2>1, <2>2
<1>8. LossExplained
  BY DEF LossExplained
<1> QED
  BY <1>2, <1>3, <1>4, <1>5, <1>6, <1>7, <1>8 DEF StoreInv

\* Notify of a new notification keeps the invariant.
LEMMA NewKeepsStore ==
  ASSUME IInv, StoreInv, NEW k \in Kinds, NEW quiet \in BOOLEAN, NotifyNew(k, quiet)
  PROVE  StoreInv' /\ LossExplained
<1>1. /\ stage = "idle" /\ made < MaxEntities /\ made' = made + 1
      /\ replaces' = replaces + 1 /\ notifying' = made + 1 /\ stage' = "stored"
      /\ UNCHANGED <<pending, due, move, overtaken>>
      /\ AddNewLive(k) \/ AddNewQuiet(k)
  BY DEF NotifyNew, expiry, moves, Idle, Threads
<1>2. CASE AddNewLive(k)
  <2> DEFINE n == Fresh(k, replaces + 1, FALSE, memId - 1, "NotProcessed", made + 1)
  <2>1. /\ n.type # "Removed" /\ n.bubble = replaces + 1 /\ n.slot = made + 1
        /\ n.slot <= made + 1 /\ n.id = memId - 1
    BY <1>1, BeforeNotify DEF Fresh
  <2>2. /\ entity' = [entity EXCEPT ![made + 1] = n]
        /\ mem' = mem \cup {made + 1} /\ memId' = memId - 1
        /\ UNCHANGED <<db, lastRow>>
    BY <1>2 DEF AddNewLive, AddLive
  <2> HIDE DEF n
  <2> QED
    BY <1>1, <2>1, <2>2, RecordStep
<1>3. CASE AddNewQuiet(k)
  <2>1. PICK ok \in DbOutcomes :
       LET saved == ok /\ ~k.bluetooth
       IN /\ entity' = [entity EXCEPT ![made + 1] =
               Fresh(k, replaces + 1, FALSE, IF saved THEN lastRow + 1 ELSE -1,
                     "Processed", 0)]
          /\ db' = IF saved THEN db \cup {NewRow(made + 1, "Processed")} ELSE db
          /\ lastRow' = IF saved THEN lastRow + 1 ELSE lastRow
    BY <1>3 DEF AddNewQuiet
  <2> DEFINE i == IF ok /\ ~k.bluetooth THEN lastRow + 1 ELSE -1
             n == Fresh(k, replaces + 1, FALSE, i, "Processed", 0)
  <2>2. n.type # "Removed" /\ n.bubble = replaces + 1 /\ n.slot <= made + 1
    BY <1>1, BeforeNotify DEF Fresh
  <2>3. /\ entity' = [entity EXCEPT ![made + 1] = n]
        /\ UNCHANGED <<mem, memId>>
        /\ \/ lastRow' = lastRow + 1 /\ db' = db \cup {NewRow(made + 1, "Processed")}
           \/ UNCHANGED <<db, lastRow>>
    BY <1>3, <2>1 DEF AddNewQuiet
  <2> HIDE DEF n
  <2> QED
    BY <1>1, <2>2, <2>3, RecordStep
<1> QED
  BY <1>1, <1>2, <1>3

\* pushPendingEntity puts the timeout where it is watched from then on.
LEMMA PushKeepsStore ==
  ASSUME IInv, StoreInv, PushPending
  PROVE  StoreInv' /\ LossExplained
<1> DEFINE n == entity[notifying].kind.timeout
<1>1. /\ stage' = "idle" /\ notifying' = None /\ due' = due
      /\ UNCHANGED <<heap, store, replaces>>
      /\ \/ n = 0 /\ pending' = pending
         \/ pending' = pending \cup {[left |-> n, ent |-> notifying]}
  BY DEF PushPending
<1>2. ASSUME NEW e \in mem, entity[e].kind.timeout > 0, Watched(e)
      PROVE  StillWatched(e)
  <2>1. CASE notifying = e
    <3>1. pending' = pending \cup {[left |-> n, ent |-> notifying]}
      BY <1>1, <1>2, <2>1
    <3>2. [left |-> n, ent |-> notifying] \in pending'
          /\ [left |-> n, ent |-> notifying].ent = e
      BY <2>1, <3>1
    <3> QED
      BY <3>2 DEF StillWatched
  <2>2. CASE notifying # e
    <3>1. pending \subseteq pending'
      BY <1>1
    <3> QED
      BY <1>1, <1>2, <2>2, <3>1 DEF Watched, StillWatched
  <2> QED
    BY <2>1, <2>2
<1> QED
  BY <1>1, <1>2, SameStoreStep

\* One turn of the loop of onHandingPendingEntities.
LEMMA DueKeepsStore ==
  ASSUME IInv, StoreInv, NEW t \in Threads, HandleDue(t)
  PROVE  StoreInv' /\ LossExplained
<1>1. PICK d \in due[t] :
        \/ /\ entity[d].id = block
           /\ pending' = pending \cup {[left |-> 0, ent |-> d]}
           /\ due' = [due EXCEPT ![t] = @ \ {d}]
           /\ changed' = <<>>
           /\ UNCHANGED <<entity, mem, db, lastRow, moves, lastPoint, starts>>
        \/ Settle(t, [due EXCEPT ![t] = @ \ {d}], entity[d].id, ClosedType("Expired"))
  BY DEF HandleDue
<1> DEFINE D == [due EXCEPT ![t] = @ \ {d}]
<1>2. /\ UNCHANGED <<made, memId, replaces, call>> /\ move[t] = NoMove
      /\ due \in [Threads -> SUBSET Entities] /\ TypeOK
  BY DEF HandleDue, IInv, TypeOK
<1>3. /\ D \in [Threads -> SUBSET Entities]
      /\ \A u \in Threads : \A e \in due[u] : e \in D[u] \/ e = d
  BY <1>2
<1> HIDE DEF D
<1>4. CASE Settle(t, D, entity[d].id, ClosedType("Expired"))
  <2>1. ClosedType("Expired") \in [Types -> {"Processed", "Removed"}]
    BY DEF ClosedType
  <2>2. Settled(t, D, entity[d].id)
    BY <1>2, <1>3, <1>4, <2>1, Settles
  <2>3. \A u \in Threads : \A e \in due[u] : e \in D[u] \/ entity[e].id = entity[d].id
    BY <1>3
  <2> QED
    BY <1>2, <2>2, <2>3, SettledKeepsStore
<1>5. CASE /\ pending' = pending \cup {[left |-> 0, ent |-> d]} /\ due' = D
           /\ UNCHANGED <<entity, mem, db, lastRow, moves>>
  <2>1. [left |-> 0, ent |-> d] \in pending' /\ [left |-> 0, ent |-> d].ent = d
    BY <1>5
  <2>2. \A e \in mem : Watched(e) => StillWatched(e) \/ notifying' = e
    BY <1>2, <1>3, <1>5, <2>1 DEF Watched, StillWatched, call
  <2>3. UNCHANGED <<heap, store, replaces, call>>
    BY <1>2, <1>5 DEF heap, store, moves
  <2> QED
    BY <2>2, <2>3, SameStoreStep
<1> QED
  BY <1>1, <1>4, <1>5 DEF D

\* The pointer entering or leaving a bubble.
LEMMA BlockKeepsStore ==
  ASSUME IInv, StoreInv, NEW i, SetBlockClosedId(i)
  PROVE  StoreInv' /\ LossExplained
<1>1. PICK P : /\ HandlePending("main", P, due)
               /\ \/ P = pending
                  \/ \E p \in pending :
                       P = (pending \ {p}) \cup {[p EXCEPT !.left = BlockItemTimeout]}
  BY DEF SetBlockClosedId
<1>2. \A p \in pending : [p EXCEPT !.left = BlockItemTimeout].ent = p.ent
  BY DEF IInv, TypeOK, Item
<1>3. \A p \in pending : \E q \in P : q.ent = p.ent
  BY <1>1, <1>2
<1>4. UNCHANGED <<heap, store, replaces, call>> /\ "main" \in Threads
  BY DEF SetBlockClosedId, Threads
<1> QED
  BY <1>1, <1>3, <1>4, HandleStoreStep

\* Time passing.
LEMMA TickKeepsStore ==
  ASSUME IInv, StoreInv, Tick
  PROVE  StoreInv' /\ LossExplained
<1>1. /\ pending' = {[p EXCEPT !.left = Less(@)] : p \in pending}
      /\ UNCHANGED <<heap, store, due, replaces, call>>
  BY DEF Tick
<1>2. \A p \in pending : [p EXCEPT !.left = Less(@)].ent = p.ent
  BY DEF IInv, TypeOK, Item
<1>3. \A p \in pending : \E q \in pending' : q.ent = p.ent
  BY <1>1, <1>2
<1>4. \A e \in mem : Watched(e) => StillWatched(e) \/ notifying' = e
  BY <1>1, <1>3 DEF Watched, StillWatched, call
<1> QED
  BY <1>1, <1>4, SameStoreStep

\* A call that settles an id with nothing else under way.
LEMMA CallKeepsStore ==
  ASSUME IInv, StoreInv, NEW t \in Threads, NEW i, Settled(t, due, i),
         UNCHANGED <<made, memId, replaces, call>>
  PROVE  StoreInv' /\ LossExplained
<1>1. \A u \in Threads : \A e \in due[u] : e \in due[u] \/ entity[e].id = i
  OBVIOUS
<1> QED
  BY <1>1, SettledKeepsStore

\* actionInvoked.
LEMMA ActionKeepsStore ==
  ASSUME IInv, StoreInv, NEW i, ActionInvoked(i)
  PROVE  StoreInv' /\ LossExplained
<1>1. /\ AsRemoved \in [Types -> {"Processed", "Removed"}] /\ "main" \in Threads
      /\ due \in [Threads -> SUBSET Entities] /\ TypeOK /\ move["main"] = NoMove
  BY DEF AsRemoved, Threads, IInv, TypeOK, ActionInvoked, Idle
<1>2. Settled("main", due, i)
  BY <1>1, Settles DEF ActionInvoked
<1> QED
  BY <1>1, <1>2, CallKeepsStore DEF ActionInvoked


-----------------------------------------------------------------------------
(* The steps of a move.                                                      *)

\* A step of a move leaves the notifications as they are, but for the stores.
LEMMA MovingSteady ==
  ASSUME IInv, StoreInv, NEW t \in Threads, Insert(t) \/ Take(t)
  PROVE  Steady /\ FreshTimeoutKept' /\ UNCHANGED <<entity, made, memId, overtaken>>
<1>1. /\ UNCHANGED <<entity, made, memId, overtaken, pending, due, replaces, notifying, stage>>
      /\ mem' \subseteq mem
      /\ db' = db \/ db' = db \cup {NewRow(move[t].ent, entity[move[t].ent].type)}
  BY DEF Insert, Take, heap, expiry, call
<1>2. /\ \/ move' = [move EXCEPT ![t].at = "finishing"]
         \/ move' = [move EXCEPT ![t].at = "inserted", ![t].row = lastRow + 1]
      /\ move \in [Threads -> Move]
  BY DEF Insert, Take, IInv, TypeOK
<1>3. \A u \in Threads : move'[u].ent = move[u].ent
  BY <1>2 DEF Move
<1>4. \A r \in db' : r \in db \/ r.ent = move[t].ent
  BY <1>1 DEF NewRow
<1>5. Steady
  BY <1>1, <1>3, <1>4 DEF Steady, call
<1>6. FreshTimeoutKept'
  <2>1. \A e \in mem : Seen(e) => StillWatched(e)
    BY <1>1 DEF Seen, StillWatched
  <2> QED
    BY <1>5, <2>1, SteadyTimeouts
<1> QED
  BY <1>1, <1>5, <1>6

\* What a step of the move of t tells of the moves.
LEMMA MovingMoves ==
  ASSUME IInv, NEW t \in Threads, NEW a, NEW n,
         \/ move' = [move EXCEPT ![t].at = a] /\ n = move[t].row
         \/ move' = [move EXCEPT ![t].at = a, ![t].row = n]
  PROVE  /\ move'[t].at = a /\ move'[t].ent = move[t].ent /\ move'[t].id = move[t].id
         /\ move'[t].row = n
         /\ \A u \in Threads : u # t => move'[u] = move[u]
<1>1. move \in [Threads -> Move] /\ move[t] \in Move
  BY DEF IInv, TypeOK
<1> QED
  BY <1>1 DEF Move

\* The moves go on as they should when the step adds no row ...
LEMMA MovesWithoutRow ==
  ASSUME IInv, StoreInv, NEW t \in Threads, move[t].at # "none",
         move' = [move EXCEPT ![t].at = "finishing"],
         UNCHANGED <<entity, memId, overtaken, db>>, mem' \subseteq mem,
         move[t].row # None => move[t].ent \notin mem'
  PROVE  MoveInv'
<1>1. /\ move'[t].at = "finishing" /\ move'[t].ent = move[t].ent /\ move'[t].id = move[t].id
      /\ move'[t].row = move[t].row
      /\ \A u \in Threads : u # t => move'[u] = move[u]
  BY MovingMoves
<1>2. ASSUME NEW u \in Threads PROVE MovesWell(u)'
  <2>1. MovesWell(u)
    BY DEF StoreInv, MoveInv
  <2>2. CASE u = t
    BY <1>1, <2>1, <2>2 DEF MovesWell
  <2>3. CASE u # t
    BY <1>1, <2>1, <2>3 DEF MovesWell
  <2> QED
    BY <2>2, <2>3
<1>3. \A u \in Threads : move'[u].ent = move[u].ent /\ (move'[u].at # "none" => move[u].at # "none")
  BY <1>1
<1> QED
  BY <1>2, <1>3 DEF StoreInv, MoveInv

\* ... and when it does: the INSERT.
LEMMA MovesWithRow ==
  ASSUME IInv, StoreInv, NEW t \in Threads, move[t].at = "typed",
         move'[t].at = "inserted", move'[t].ent = move[t].ent, move'[t].id = move[t].id,
         move'[t].row = lastRow + 1, \A u \in Threads : u # t => move'[u] = move[u],
         UNCHANGED <<entity, memId, overtaken, mem>>,
         \A r \in db' : r \in db \/ r.ent = move[t].ent
  PROVE  MoveInv'
<1>1. \A u \in Threads : u # t => move'[u] = move[u]
  OBVIOUS
<1>2. lastRow + 1 # None
  BY NumberFacts DEF None
<1>3. ASSUME NEW u \in Threads PROVE MovesWell(u)'
  <2>1. MovesWell(u)
    BY DEF StoreInv, MoveInv
  <2>2. CASE u = t
    BY <1>1, <1>2, <2>1, <2>2 DEF MovesWell
  <2>3. CASE u # t
    <3>1. move[u].at # "none" /\ move[u].ent = move[t].ent => move[u].ent \in overtaken
      BY <2>3 DEF StoreInv, MoveInv
    <3> QED
      BY <1>1, <2>1, <2>3, <3>1 DEF MovesWell
  <2> QED
    BY <2>2, <2>3
<1>4. \A u \in Threads : move'[u].ent = move[u].ent /\ (move'[u].at # "none" => move[u].at # "none")
  BY <1>1
<1> QED
  BY <1>3, <1>4 DEF StoreInv, MoveInv

\* The removal of what has the id of a move takes its notification, and overtaken ones.
LEMMA TakenFromMemory ==
  ASSUME IInv, StoreInv, NEW t \in Threads, move[t].at # "none",
         mem' = mem \ InMemory(move[t].id)
  PROVE  /\ mem' \subseteq mem /\ move[t].ent \notin mem'
         /\ \A f \in mem \ overtaken : f \notin mem' => f = move[t].ent
<1>1. move[t].ent \in mem => entity[move[t].ent].id = move[t].id
  BY HeldId
<1>2. \A f \in mem : entity[f].id = move[t].id => f = move[t].ent \/ f \in overtaken
  BY DEF StoreInv, MoveInv, MovesWell
<1> QED
  BY <1>1, <1>2 DEF InMemory

\* The rows, when none comes: a row of what is in memory is that of a move that has not come
\* to the removal.
LEMMA SameRows ==
  ASSUME IInv, StoreInv, NEW t \in Threads, UNCHANGED <<db, lastRow, overtaken>>,
         mem' \subseteq mem,
         \A u \in Threads : u # t => move'[u] = move[u],
         move[t].at = "inserted" => move[t].ent \notin mem'
  PROVE  RowsInv'
<1>1. ASSUME NEW r \in db, r.ent \in mem', r.ent \notin overtaken
      PROVE  \E u \in Threads : move'[u].at = "inserted" /\ move'[u].ent = r.ent /\ move'[u].row = r.id
  <2>1. PICK u \in Threads : move[u].at = "inserted" /\ move[u].ent = r.ent /\ move[u].row = r.id
    BY <1>1 DEF StoreInv, RowsInv
  <2>2. u # t
    BY <1>1, <2>1
  <2> QED
    BY <2>1, <2>2
<1> QED
  BY <1>1 DEF StoreInv, RowsInv

\* The INSERT keeps the invariant: its row is the first of the notification, which is closed
\* only if that was overtaken.
LEMMA InsertKeepsStore ==
  ASSUME IInv, StoreInv, NEW t \in Threads, Insert(t)
  PROVE  StoreInv' /\ LossExplained
<1>1. Steady /\ FreshTimeoutKept' /\ UNCHANGED <<entity, made, memId, overtaken>>
  BY MovingSteady
<1>2. IdsInv' /\ SlotInv' /\ CallInv' /\ WaitInv'
  BY <1>1, SteadyKeeps
<1>3. /\ move[t].at = "typed" /\ MovesWell(t) /\ move[t].row = None
  BY DEF Insert, StoreInv, MoveInv, MovesWell
<1>4. CASE /\ entity[move[t].ent].kind.bluetooth
           /\ mem' = mem \ InMemory(move[t].id)
           /\ move' = [move EXCEPT ![t].at = "finishing"]
           /\ UNCHANGED <<db, lastRow>>
  <2>1. /\ mem' \subseteq mem /\ move[t].ent \notin mem'
        /\ \A f \in mem \ overtaken : f \notin mem' => f = move[t].ent
    BY <1>3, <1>4, TakenFromMemory
  <2>2. MoveInv'
    BY <1>1, <1>3, <1>4, <2>1, MovesWithoutRow
  <2>3. RowsInv'
    <3>1. \A u \in Threads : u # t => move'[u] = move[u]
      BY <1>4 DEF IInv, TypeOK
    <3> QED
      BY <1>1, <1>3, <1>4, <2>1, <3>1, SameRows
  <2>4. ClosedIsGone'
    BY <1>1, <1>4, <2>1 DEF StoreInv, ClosedIsGone
  <2>5. LossExplained
    BY <1>4, <2>1 DEF LossExplained
  <2> QED
    BY <1>1, <1>2, <2>2, <2>3, <2>4, <2>5 DEF StoreInv
<1>5. CASE /\ db' = db \cup {NewRow(move[t].ent, entity[move[t].ent].type)}
           /\ lastRow' = lastRow + 1
           /\ move' = [move EXCEPT ![t].at = "inserted", ![t].row = lastRow + 1]
           /\ UNCHANGED mem
  <2> DEFINE w == NewRow(move[t].ent, entity[move[t].ent].type)
  <2>1. w.id = lastRow + 1 /\ w.ent = move[t].ent /\ db' = db \cup {w}
    BY <1>5 DEF NewRow
  <2> HIDE DEF w
  <2>0. /\ move'[t].at = "inserted" /\ move'[t].ent = move[t].ent /\ move'[t].id = move[t].id
        /\ move'[t].row = lastRow + 1
        /\ \A u \in Threads : u # t => move'[u] = move[u]
    <3>1. move' = [move EXCEPT ![t].at = "inserted", ![t].row = lastRow + 1]
      BY <1>5
    <3> QED
      BY <3>1, MovingMoves
  <2>2. MoveInv'
    <3>1. \A r \in db' : r \in db \/ r.ent = move[t].ent
      BY <2>1
    <3> QED
      BY <1>1, <1>3, <1>5, <2>0, <3>1, MovesWithRow
  <2>3. /\ lastRow \in Nat /\ \A r \in db : r.id \in Nat /\ r.id <= lastRow /\ 0 < r.id
    BY NumberFacts DEF StoreInv, RowsInv
  <2>4. \A r \in db : r.id # w.id /\ (r.ent = w.ent => w.ent \in overtaken)
    <3>1. \A r \in db : r.id # w.id
      BY <2>1, <2>3
    <3>2. w.ent \notin overtaken => \A r \in db : r.ent # w.ent
      BY <1>3, <2>1 DEF MovesWell
    <3> QED
      BY <3>1, <3>2
  <2>5. RowsInv'
    <3>1. \A r \in db' : 0 < r.id /\ r.id <= lastRow'
      BY <1>5, <2>1, <2>3
    <3>2. /\ \A r, s \in db' : r.id = s.id => r = s
          /\ \A r, s \in db' : r.ent = s.ent /\ r.ent \notin overtaken => r = s
      BY <2>1, <2>4 DEF StoreInv, RowsInv
    <3>3. \A u \in Threads : u # t => move'[u] = move[u]
      BY <2>0
    <3>4. ASSUME NEW r \in db', r.ent \in mem, r.ent \notin overtaken
          PROVE  \E u \in Threads : move'[u].at = "inserted" /\ move'[u].ent = r.ent /\ move'[u].row = r.id
      <4>1. CASE r = w
        BY <2>0, <2>1, <4>1
      <4>2. CASE r \in db
        <5>1. PICK u \in Threads : move[u].at = "inserted" /\ move[u].ent = r.ent /\ move[u].row = r.id
          BY <3>4, <4>2 DEF StoreInv, RowsInv
        <5> QED
          BY <1>3, <3>3, <5>1
      <4> QED
        BY <2>1, <4>1, <4>2
    <3> QED
      BY <1>1, <1>5, <3>1, <3>2, <3>4 DEF RowsInv
  <2>6. ClosedIsGone'
    <3>1. \A r \in db' : r \in db \/ r.ent = move[t].ent
      BY <2>1
    <3>2. entity[move[t].ent].type = "Removed" => move[t].ent \in overtaken
      BY <1>3 DEF MovesWell
    <3> QED
      BY <1>1, <1>5, <3>1, <3>2 DEF StoreInv, ClosedIsGone
  <2>7. LossExplained
    BY <1>5 DEF LossExplained
  <2> QED
    BY <1>1, <1>2, <2>2, <2>5, <2>6, <2>7 DEF StoreInv
<1>6. CASE /\ move' = [move EXCEPT ![t].at = "finishing"]
           /\ UNCHANGED <<mem, db, lastRow>>
  <2>1. MoveInv'
    BY <1>1, <1>3, <1>6, MovesWithoutRow
  <2>2. RowsInv'
    <3>1. \A u \in Threads : u # t => move'[u] = move[u]
      BY <1>6 DEF IInv, TypeOK
    <3> QED
      BY <1>1, <1>3, <1>6, <3>1, SameRows
  <2>3. ClosedIsGone' /\ LossExplained
    BY <1>1, <1>6 DEF StoreInv, ClosedIsGone, LossExplained
  <2> QED
    BY <1>1, <1>2, <2>1, <2>2, <2>3 DEF StoreInv
<1> QED
  BY <1>4, <1>5, <1>6 DEF Insert

\* The removal keeps it: what it takes has its row.
LEMMA TakeKeepsStore ==
  ASSUME IInv, StoreInv, NEW t \in Threads, Take(t)
  PROVE  StoreInv' /\ LossExplained
<1>1. Steady /\ FreshTimeoutKept' /\ UNCHANGED <<entity, made, memId, overtaken>>
  BY MovingSteady
<1>2. IdsInv' /\ SlotInv' /\ CallInv' /\ WaitInv'
  BY <1>1, SteadyKeeps
<1>3. /\ move[t].at = "inserted" /\ MovesWell(t) /\ move[t].row # None
  BY DEF Take, StoreInv, MoveInv, MovesWell
<1>4. /\ mem' = mem \ InMemory(move[t].id) /\ UNCHANGED <<db, lastRow>>
      /\ move' = [move EXCEPT ![t].at = "finishing"]
  BY DEF Take
<1>5. /\ mem' \subseteq mem /\ move[t].ent \notin mem'
      /\ \A f \in mem \ overtaken : f \notin mem' => f = move[t].ent
  BY <1>3, <1>4, TakenFromMemory
<1>6. MoveInv'
  BY <1>1, <1>3, <1>4, <1>5, MovesWithoutRow
<1>7. RowsInv'
  <2>1. \A u \in Threads : u # t => move'[u] = move[u]
    BY <1>4 DEF IInv, TypeOK
  <2> QED
    BY <1>1, <1>4, <1>5, <2>1, SameRows
<1>8. ClosedIsGone'
  BY <1>1, <1>4, <1>5 DEF StoreInv, ClosedIsGone
<1>9. LossExplained
  BY <1>3, <1>5 DEF LossExplained
<1> QED
  BY <1>1, <1>2, <1>6, <1>7, <1>8, <1>9 DEF StoreInv

\* The ids a move leaves: that of its row, if it has one, or what it was.
LEMMA MovedId ==
  ASSUME IInv, StoreInv, NEW t \in Threads, move[t].at = "finishing",
         NEW ent, ent = WithRowId(t)
  PROVE  /\ \A f \in Entities : f \in mem \/ f # move[t].ent => ent[f].id = entity[f].id
         /\ ent[move[t].ent].id = entity[move[t].ent].id \/ ent[move[t].ent].id > 0
         /\ \A f \in mem \ overtaken : f # move[t].ent => entity[f].id # ent[move[t].ent].id
<1> DEFINE x == move[t].ent
<1>1. TypeOK /\ x \in Entities /\ x \in 1..made /\ move[t].row \in Nat /\ move[t].id \in Int
      /\ \A f \in mem : entity[f].id \in Int
  BY NumberFacts DEF IInv
<1>2. /\ \A f \in Entities : f # x => ent[f] = entity[f]
      /\ ent[x].id = IF move[t].row = None THEN entity[x].id ELSE move[t].row
  BY <1>1, RowIdFacts
<1>3. /\ move[t].row # None => x \notin mem
      /\ entity[x].id = move[t].id \/ entity[x].id > 0
      /\ \A f \in mem : entity[f].id = move[t].id => f = x \/ f \in overtaken
  BY DEF StoreInv, MoveInv, MovesWell
<1>4. \A f \in Entities : f \in mem \/ f # x => ent[f].id = entity[f].id
  BY <1>2, <1>3
<1>5. move[t].row # None => move[t].row > 0
  BY <1>1 DEF None
<1>6. \A f \in mem : entity[f].id < 0
  BY DEF StoreInv, IdsInv
<1>7. ent[x].id = entity[x].id \/ ent[x].id > 0
  BY <1>2, <1>5
<1>8. \A f \in mem \ overtaken : f # x => entity[f].id # ent[x].id
  <2>1. ent[x].id = move[t].id \/ ent[x].id > 0
    BY <1>2, <1>3, <1>5
  <2> QED
    BY <1>1, <1>3, <1>6, <2>1
<1> QED
  BY <1>4, <1>7, <1>8

\* The moves that are left go on as they should.
LEMMA OtherMoves ==
  ASSUME IInv, StoreInv, NEW t \in Threads, move' = [move EXCEPT ![t] = NoMove],
         UNCHANGED <<db, overtaken>>, memId' <= memId, memId' \in Int,
         \A f \in 1..made : /\ entity'[f].type = entity[f].type
                            /\ \/ entity'[f].id = entity[f].id \/ entity'[f].id > 0
                               \/ \A u \in Threads : move[u].ent # f,
         \A f \in mem' : \/ f \in mem /\ entity'[f].id = entity[f].id
                         \/ /\ entity'[f].id < memId
                            /\ \A u \in Threads : move[u].ent # f
  PROVE  MoveInv'
<1>1. /\ move'[t] = NoMove /\ move'[t].at = "none" /\ move'[t].ent = None
      /\ \A u \in Threads : u # t => move'[u] = move[u]
  BY DEF IInv, TypeOK, NoMove
<1>2. /\ memId \in Int
      /\ \A u \in Threads : /\ move[u].id \in Int
                            /\ move[u].at # "none" => move[u].ent \in 1..made
      /\ None \notin 1..made /\ mem \subseteq 1..made
      /\ \A e \in 1..made : e \in Entities /\ entity[e].id \in Int
  BY NumberFacts
<1>3. ASSUME NEW u \in Threads PROVE MovesWell(u)'
  <2>1. CASE u = t
    BY <1>1, <2>1 DEF MovesWell
  <2>2. CASE u # t
    <3> SUFFICES ASSUME move[u].at # "none" PROVE MovesWell(u)'
      BY <1>1, <2>2 DEF MovesWell
    <3>1. MovesWell(u) /\ move'[u] = move[u] /\ move[u].ent \in 1..made /\ move[u].id \in Int
      BY <1>1, <1>2, <2>2 DEF StoreInv, MoveInv
    <3>2. memId <= move[u].id /\ memId' <= move[u].id /\ move[u].id < 0
      BY <1>2, <3>1 DEF MovesWell
    <3>3. entity'[move[u].ent].id = move[u].id \/ entity'[move[u].ent].id > 0
      BY <3>1 DEF MovesWell
    <3>4. \A f \in mem' : entity'[f].id = move[u].id => f \in mem /\ entity[f].id = move[u].id
      <4>1. \A f \in mem' : entity'[f].id < memId => entity'[f].id # move[u].id
        BY <1>2, <3>2, <3>1
      <4> QED
        BY <4>1
    <3>5. \A f \in mem' : entity'[f].id = move[u].id => f = move[u].ent \/ f \in overtaken
      BY <3>1, <3>4 DEF MovesWell
    <3>6. move[u].at = "finishing" /\ move[u].row # None => move[u].ent \notin mem'
      BY <3>1 DEF MovesWell
    <3> QED
      BY <3>1, <3>2, <3>3, <3>5, <3>6 DEF MovesWell
  <2> QED
    BY <2>1, <2>2
<1>4. ASSUME NEW u \in Threads, NEW v \in Threads, u # v, move'[u].at # "none",
             move'[u].ent = move'[v].ent
      PROVE  move'[u].ent \in overtaken
  <2>1. u # t /\ v # t
    BY <1>1, <1>2, <1>4
  <2> QED
    BY <1>1, <1>4, <2>1 DEF StoreInv, MoveInv
<1> QED
  BY <1>3, <1>4 DEF MoveInv

\* The end of a move keeps the invariant.
LEMMA FinishKeepsStore ==
  ASSUME IInv, StoreInv, NEW t \in Threads, Finish(t)
  PROVE  StoreInv' /\ LossExplained
<1> DEFINE x == move[t].ent
<1>1. /\ TypeOK /\ x \in Entities /\ x \in 1..made /\ move[t].at = "finishing"
      /\ due \in [Threads -> SUBSET Entities] /\ move \in [Threads -> Move]
      /\ mem \subseteq 1..made /\ 1..made \subseteq Entities
  BY NumberFacts DEF IInv, TypeOK, Finish
<1>2. PICK ent : ent = WithRowId(t)
  OBVIOUS
<1>3. /\ entity' = ent /\ UNCHANGED <<made, mem, memId, db, lastRow, overtaken, replaces, call>>
      /\ RemovePending(t, due, ent, ent[x].id, ent[x].replace, ent[x].bubble)
      /\ move' = [move EXCEPT ![t] = NoMove]
  BY <1>2 DEF Finish, RemovePending, Matching
<1>4. /\ \A f \in Entities : f # x => ent[f] = entity[f]
      /\ \A f \in Entities : /\ ent[f].bubble = entity[f].bubble
                             /\ ent[f].replace = entity[f].replace
                             /\ ent[f].type = entity[f].type
                             /\ ent[f].kind = entity[f].kind
                             /\ ent[f].slot = entity[f].slot
  BY <1>1, <1>2, RowIdFacts
<1>5. /\ \A f \in Entities : f \in mem \/ f # x => ent[f].id = entity[f].id
      /\ ent[x].id = entity[x].id \/ ent[x].id > 0
      /\ \A f \in mem \ overtaken : f # x => entity[f].id # ent[x].id
  BY <1>1, <1>2, MovedId
<1>6. /\ move'[t].ent = None /\ \A u \in Threads : u # t => move'[u] = move[u]
  BY <1>1, <1>3 DEF NoMove
<1>7. Steady
  <2>1. \A f \in Entities : f \notin mem /\ (\A u \in Threads : move[u].ent # f) => ent[f] = entity[f]
    BY <1>4
  <2>2. \A u \in Threads : move'[u].ent \in mem \cup {None, move[u].ent}
    BY <1>6
  <2> QED
    BY <1>3, <1>4, <1>5, <2>1, <2>2 DEF Steady
<1>8. RowsInv'
  BY <1>1, <1>3, <1>6, SameRows
<1>9. MoveInv'
  <2>1. \A f \in 1..made : /\ entity'[f].type = entity[f].type
                           /\ entity'[f].id = entity[f].id \/ entity'[f].id > 0
    BY <1>1, <1>3, <1>4, <1>5
  <2>2. \A f \in mem' : f \in mem /\ entity'[f].id = entity[f].id
    BY <1>1, <1>3, <1>5
  <2>3. memId' <= memId /\ memId' \in Int
    BY <1>3, NumberFacts
  <2> QED
    BY <1>3, <2>1, <2>2, <2>3, OtherMoves
<1>10. ClosedIsGone' /\ LossExplained
  BY <1>1, <1>3, <1>4 DEF StoreInv, ClosedIsGone, LossExplained
<1>11. FreshTimeoutKept'
  <2>1. ASSUME NEW e \in mem, Live(e), SoleReplacement(e), e \notin overtaken, Seen(e)
        PROVE  StillWatched(e)
    <3>1. entity[x].type # "NotProcessed"
      BY <1>1 DEF StoreInv, MoveInv, MovesWell
    <3>2. e # x /\ e \in Entities
      BY <1>1, <2>1, <3>1 DEF Live
    <3>3. entity'[e].id # entity'[x].id
      BY <1>3, <1>5, <2>1, <3>2
    <3>4. Spares(due, x)
      BY <1>1, <1>3, <1>4, RemoveKeeps DEF Spares
    <3>5. \A f \in Entities : entity'[f].bubble = entity[f].bubble
      BY <1>3, <1>4
    <3> QED
      BY <1>1, <2>1, <3>2, <3>3, <3>4, <3>5, SparesLive
  <2> QED
    BY <1>7, <2>1, SteadyTimeouts
<1> QED
  BY <1>7, <1>8, <1>9, <1>10, <1>11, SteadyKeeps DEF StoreInv


-----------------------------------------------------------------------------
(* A replacement.                                                            *)

\* What is known of the last of the bubble b, when nobody is notified.
LEMMA LastFacts ==
  ASSUME IInv, StoreInv, NEW b, NEW old \in LastOfBubble(b)
  PROVE  /\ old \in mem /\ entity[old].bubble = b
         /\ \A f \in mem : f # old /\ Live(f) => entity[f].bubble # b
<1>1. /\ old \in mem /\ entity[old].bubble = b
      /\ \A f \in mem : entity[f].bubble = b => entity[f].slot <= entity[old].slot
  BY DEF LastOfBubble
<1>2. ASSUME NEW f \in mem, Live(f), entity[f].bubble = b PROVE f = old
  <2>1. entity[f].slot <= entity[old].slot /\ entity[old].slot <= entity[f].slot
    BY <1>1, <1>2 DEF StoreInv, SlotInv
  <2>2. entity[f].slot \in Nat /\ entity[old].slot \in Nat
    BY <1>1, NumberFacts
  <2>3. entity[f].slot = entity[old].slot
    BY <2>1, <2>2
  <2> QED
    BY <1>1, <2>3 DEF StoreInv, SlotInv
<1> QED
  BY <1>1, <1>2

\* One that takes the place of the old one keeps the invariant ...
LEMMA InPlaceKeepsStore ==
  ASSUME IInv, StoreInv, stage = "idle", made < MaxEntities,
         NEW k \in Kinds, NEW b \in 1..replaces, NEW old \in LastOfBubble(b),
         ReplaceInPlace(k, b, old), made' = made + 1, notifying' = made + 1,
         UNCHANGED <<memId, db, lastRow, replaces>>
  PROVE  StoreInv' /\ LossExplained
<1> DEFINE d == Fresh(k, b, TRUE, entity[old].id, "NotProcessed", entity[old].slot)
<1>1. /\ d.replace /\ d.bubble = b /\ d.type = "NotProcessed" /\ d.kind = k
      /\ d.id = entity[old].id /\ d.slot = entity[old].slot
  BY DEF Fresh
<1>2. /\ entity' = [entity EXCEPT ![made + 1] = d] /\ k.hidden
      /\ mem' = (mem \ {old}) \cup {made + 1} /\ stage' = "stored" /\ move' = move
      /\ Overtake(entity[old].id, {made + 1}) /\ DropReplaced(made + 1)
  BY DEF ReplaceInPlace
<1> HIDE DEF d
<1>3. /\ made \in Nat /\ made + 1 \in Entities /\ made + 1 \notin 1..made
      /\ mem \subseteq 1..made /\ 1..made \subseteq Entities
      /\ \A r \in db : r.ent \in 1..made
      /\ \A t \in Threads : move[t].at # "none" => move[t].ent \in 1..made
      /\ 1..(made + 1) = (1..made) \cup {made + 1}
      /\ \A e \in mem : Watched(e) => Seen(e)
      /\ \A p \in pending : p.ent \in 1..made
  BY BeforeNotify
<1>4. /\ entity'[made + 1] = d
      /\ \A f \in 1..made : entity'[f] = entity[f]
  BY <1>2, <1>3 DEF IInv, TypeOK
<1>5. /\ old \in mem /\ old \in 1..made /\ entity[old].bubble = b
      /\ \A f \in mem : f # old /\ Live(f) => entity[f].bubble # b
      /\ \A f \in mem : entity[f].bubble = b => entity[f].slot <= entity[old].slot
  BY <1>3, LastFacts DEF LastOfBubble
<1>6. overtaken \subseteq overtaken'
  BY <1>2, OvertakenGrows
<1>7. \A f \in mem' : \/ f \in mem /\ f # old /\ f # made + 1 /\ entity'[f] = entity[f]
                      \/ f = made + 1 /\ entity'[f] = d
  BY <1>2, <1>3, <1>4
<1>8. \A f \in 1..made : f \in mem' => f \in mem
  BY <1>2, <1>3
<1>9. IdsInv'
  <2>1. \A f \in mem' : \/ f \in mem /\ f # old /\ entity'[f].id = entity[f].id
                        \/ f = made + 1 /\ entity'[f].id = entity[old].id
    BY <1>1, <1>7
  <2>2. /\ memId <= 0 /\ (\A e \in mem : memId <= entity[e].id /\ entity[e].id < 0)
        /\ \A e, f \in mem : entity[e].id = entity[f].id => e = f
    BY DEF StoreInv, IdsInv
  <2>3. \A e \in mem' : memId <= entity'[e].id /\ entity'[e].id < 0
    BY <1>5, <2>1, <2>2
  <2>4. \A e, f \in mem' : entity'[e].id = entity'[f].id => e = f
    BY <1>5, <2>1, <2>2
  <2> QED
    BY <2>2, <2>3, <2>4 DEF IdsInv
<1>10. RowsInv'
  <2>1. \A r \in db : r.ent \in mem' /\ r.ent \notin overtaken' => r.ent \in mem /\ r.ent \notin overtaken
    BY <1>3, <1>6, <1>8
  <2> QED
    BY <1>2, <1>6, <2>1 DEF StoreInv, RowsInv
<1>11. SlotInv'
  <2>1. \A e \in mem : /\ entity[e].slot <= e /\ e <= made /\ e \in Nat
                       /\ entity[e].slot \in Nat
    BY <1>3, NumberFacts DEF StoreInv, SlotInv
  <2>2. d.slot <= made + 1
    BY <1>1, <1>3, <1>5, <2>1
  <2>3. \A e \in mem' : entity'[e].slot <= e
    BY <1>7, <2>1, <2>2
  <2>4. \A e, f \in mem' : entity'[e].slot = entity'[f].slot => e = f
    <3>1. \A f \in mem' : \/ f \in mem /\ f # old /\ entity'[f].slot = entity[f].slot
                          \/ f = made + 1 /\ entity'[f].slot = entity[old].slot
      BY <1>1, <1>7
    <3>2. \A e, f \in mem : entity[e].slot = entity[f].slot => e = f
      BY DEF StoreInv, SlotInv
    <3> QED
      BY <1>5, <3>1, <3>2
  <2>5. ASSUME NEW e \in mem', NEW f \in mem', Live(f)', entity'[e].bubble = entity'[f].bubble
        PROVE  entity'[e].slot <= entity'[f].slot
    <3>1. CASE f \in mem /\ f # old /\ entity'[f] = entity[f]
      <4>1. Live(f) /\ entity[f].bubble # b
        BY <1>5, <2>5, <3>1 DEF Live
      <4>2. e \in mem /\ entity'[e] = entity[e]
        BY <1>1, <1>7, <2>5, <3>1, <4>1
      <4> QED
        BY <2>5, <3>1, <4>1, <4>2 DEF StoreInv, SlotInv
    <3>2. CASE f = made + 1 /\ entity'[f] = d
      <4>1. CASE e \in mem /\ entity'[e] = entity[e]
        BY <1>1, <1>5, <2>5, <3>2, <4>1
      <4>2. CASE e = made + 1
        <5>1. entity'[e].slot \in Nat
          BY <1>1, <1>5, <2>1, <3>2, <4>2
        <5> QED
          BY <3>2, <4>2, <5>1
      <4> QED
        BY <1>7, <4>1, <4>2
    <3> QED
      BY <1>7, <3>1, <3>2
  <2> QED
    BY <2>3, <2>4, <2>5 DEF SlotInv
<1>12. CallInv' /\ WaitInv' /\ ClosedIsGone'
  <2>1. CallInv'
    BY <1>1, <1>2, <1>3, <1>4 DEF StoreInv, CallInv
  <2>2. ClosedIsGone'
    BY <1>1, <1>3, <1>4, <1>6, <1>8 DEF StoreInv, ClosedIsGone
  <2> QED
    BY <1>2, <2>1, <2>2 DEF WaitInv
<1>13. MoveInv'
  <2>1. ASSUME NEW u \in Threads PROVE MovesWell(u)'
    <3> SUFFICES ASSUME move[u].at # "none" PROVE MovesWell(u)'
      BY <1>2 DEF MovesWell
    <3>1. MovesWell(u) /\ move[u].ent \in 1..made /\ entity'[move[u].ent] = entity[move[u].ent]
      BY <1>3, <1>4 DEF StoreInv, MoveInv
    <3>2. entity[old].id = move[u].id => made + 1 \in overtaken'
      BY <1>2 DEF Overtake, Moving
    <3>3. \A f \in mem' : entity'[f].id = move[u].id => f = move[u].ent \/ f \in overtaken'
      BY <1>1, <1>6, <1>7, <3>1, <3>2 DEF MovesWell
    <3>4. move[u].ent \in mem' => move[u].ent \in mem
      BY <1>8, <3>1
    <3> QED
      BY <1>2, <1>6, <3>1, <3>3, <3>4 DEF MovesWell
  <2> QED
    BY <1>2, <1>6, <2>1 DEF StoreInv, MoveInv
<1>14. FreshTimeoutKept'
  <2> SUFFICES ASSUME NEW e \in mem', e \notin overtaken', Live(e)', entity'[e].kind.timeout > 0,
                      SoleReplacement(e)'
               PROVE  StillWatched(e) \/ notifying' = e
    BY DEF FreshTimeoutKept, Watched, StillWatched
  <2>1. CASE e = made + 1
    BY <2>1
  <2>2. CASE e \in mem /\ e # old /\ e # made + 1 /\ entity'[e] = entity[e]
    <3>1. entity[e].bubble # b
      BY <1>1, <1>3, <1>4, <2>2 DEF SoleReplacement
    <3>2. Live(e) /\ SoleReplacement(e) /\ e \notin overtaken
      BY <1>3, <1>4, <1>6, <2>2 DEF Live, SoleReplacement
    <3>3. Seen(e)
      BY <1>3, <2>2, <3>2 DEF StoreInv, FreshTimeoutKept
    <3>4. PICK ent : ent = entity'
      OBVIOUS
    <3>5. PICK whole : /\ whole = TRUE
                       /\ RemovePending("worker", due, ent, ent[made + 1].id, whole,
                                        ent[made + 1].bubble)
      BY <1>2, <3>4 DEF DropReplaced, RemovePending, Matching
    <3>6. /\ \A u \in Threads : due[u] \subseteq due'[u]
          /\ \A p \in pending : \/ ent[p.ent].id = ent[made + 1].id
                                \/ whole /\ ent[p.ent].bubble = ent[made + 1].bubble
                                \/ StillWatched(p.ent)
      <4>1. "worker" \in Threads /\ due \in [Threads -> SUBSET Entities]
        BY DEF Threads, IInv, TypeOK
      <4>2. RemovePending("worker", due, ent, ent[made + 1].id, whole, ent[made + 1].bubble)
        BY <3>5
      <4> QED
        BY <4>1, <4>2, RemoveKeeps
    <3>7. ent[e].id # ent[made + 1].id /\ ent[e].bubble # ent[made + 1].bubble
      BY <1>1, <1>4, <1>5, <2>2, <3>1, <3>4 DEF StoreInv, IdsInv
    <3> QED
      BY <3>3, <3>6, <3>7 DEF Seen, StillWatched
  <2> QED
    BY <1>7, <2>1, <2>2
<1>15. LossExplained
  <2>1. made + 1 \in mem' /\ made + 1 \notin mem
    BY <1>2, <1>3
  <2>2. entity'[made + 1].kind.hidden /\ entity'[made + 1].bubble = entity[old].bubble
    BY <1>1, <1>2, <1>4, <1>5
  <2>3. \A e \in mem : e \notin mem' => e = old
    BY <1>2
  <2> QED
    BY <2>1, <2>2, <2>3 DEF LossExplained
<1> QED
  BY <1>9, <1>10, <1>11, <1>12, <1>13, <1>14, <1>15 DEF StoreInv

\* ... and so does one that waits for the old one to move ...
LEMMA ByMovingKeepsStore ==
  ASSUME IInv, StoreInv, stage = "idle", made < MaxEntities, move["worker"] = NoMove,
         NEW k \in Kinds, NEW b \in 1..replaces, NEW old \in LastOfBubble(b),
         ReplaceByMoving(k, b, old), made' = made + 1, notifying' = made + 1,
         UNCHANGED <<memId, db, lastRow, replaces>>
  PROVE  StoreInv' /\ LossExplained
<1> DEFINE d == Fresh(k, b, TRUE, None, "NotProcessed", made + 1)
<1>1. d.replace /\ d.bubble = b /\ d.type = "NotProcessed" /\ d.slot = made + 1
  BY DEF Fresh
<1>2. /\ entity' = [[entity EXCEPT ![made + 1] = d] EXCEPT ![old].type = "Processed"]
      /\ move' = [move EXCEPT !["worker"] =
                    [at |-> "typed", ent |-> old, id |-> entity[old].id, row |-> None]]
      /\ mem' = mem /\ stage' = "replacing" /\ UNCHANGED <<pending, due>>
      /\ Overtake(entity[old].id, {old})
  BY DEF ReplaceByMoving, BeginMove, expiry
<1> HIDE DEF d
<1>3. /\ made \in Nat /\ made + 1 \in Entities /\ made + 1 \notin 1..made
      /\ mem \subseteq 1..made /\ 1..made \subseteq Entities
      /\ \A r \in db : r.ent \in 1..made
      /\ \A t \in Threads : move[t].ent # made + 1
      /\ 1..(made + 1) = (1..made) \cup {made + 1}
      /\ \A e \in mem : Watched(e) => Seen(e)
      /\ "worker" \in Threads /\ move \in [Threads -> Move]
      /\ entity \in [Entities -> Data] /\ memId \in Int
  BY BeforeNotify DEF Threads, IInv, TypeOK
<1>4. /\ old \in mem /\ old \in 1..made /\ old # made + 1 /\ entity[old].bubble = b
      /\ \A f \in mem : f # old /\ Live(f) => entity[f].bubble # b
  BY <1>3, LastFacts
<1>5. /\ entity'[made + 1] = d
      /\ \A f \in 1..made : f # old => entity'[f] = entity[f]
      /\ entity'[old] = [entity[old] EXCEPT !.type = "Processed"]
  <2>1. entity' = [entity EXCEPT ![made + 1] = d,
                                 ![old] = [entity[old] EXCEPT !.type = "Processed"]]
    BY <1>2, <1>3, <1>4
  <2> QED
    BY <1>3, <1>4, <2>1
<1>6. /\ entity'[old].bubble = entity[old].bubble /\ entity'[old].replace = entity[old].replace
      /\ entity'[old].slot = entity[old].slot /\ entity'[old].kind = entity[old].kind
      /\ entity'[old].id = entity[old].id /\ entity'[old].type = "Processed"
  BY <1>3, <1>4, <1>5 DEF Data
<1>7. /\ move'["worker"] = [at |-> "typed", ent |-> old, id |-> entity[old].id, row |-> None]
      /\ \A u \in Threads : u # "worker" => move'[u] = move[u]
  BY <1>2, <1>3
<1>8. Begun("worker", old)
  BY <1>2, <1>5, <1>6, <1>7 DEF Begun
<1>9. /\ RowsInv' /\ MoveInv' /\ overtaken \subseteq overtaken'
      /\ \A f \in 1..made : f \notin overtaken' /\ entity'[f].type = "Removed"
                              => f \notin mem' /\ \A r \in db' : r.ent # f
  <2>1. memId' <= memId /\ memId' \in Int
    BY <1>3
  <2> QED
    BY <1>3, <1>4, <1>8, <2>1, BegunRows
<1>10. \A e \in mem : /\ entity'[e].id = entity[e].id /\ entity'[e].slot = entity[e].slot
                      /\ entity'[e].bubble = entity[e].bubble /\ entity'[e].kind = entity[e].kind
                      /\ Live(e)' => Live(e) /\ e # old
  <2> SUFFICES ASSUME NEW e \in mem
               PROVE  /\ entity'[e].id = entity[e].id /\ entity'[e].slot = entity[e].slot
                      /\ entity'[e].bubble = entity[e].bubble /\ entity'[e].kind = entity[e].kind
                      /\ Live(e)' => Live(e) /\ e # old
    OBVIOUS
  <2>1. CASE e = old
    BY <1>6, <2>1 DEF Live
  <2>2. CASE e # old
    <3>1. entity'[e] = entity[e]
      BY <1>3, <1>5, <2>2
    <3> QED
      BY <2>2, <3>1 DEF Live
  <2> QED
    BY <2>1, <2>2
<1>11. IdsInv'
  <2>1. mem' = mem /\ memId' = memId /\ \A e \in mem : entity'[e].id = entity[e].id
    BY <1>2, <1>10
  <2> QED
    BY <2>1 DEF StoreInv, IdsInv
<1>12. SlotInv'
  <2>1. /\ mem' = mem
        /\ \A e \in mem : /\ entity'[e].slot = entity[e].slot
                          /\ entity'[e].bubble = entity[e].bubble /\ (Live(e)' => Live(e))
    BY <1>2, <1>10
  <2> QED
    BY <2>1 DEF StoreInv, SlotInv
<1>13. CallInv'
  <2>1. \A f \in 1..made : entity'[f].bubble = entity[f].bubble
    BY <1>5, <1>6
  <2>2. entity'[made + 1].bubble <= replaces
    BY <1>1, <1>5
  <2> QED
    BY <1>2, <1>3, <2>1, <2>2 DEF StoreInv, CallInv
<1>14. WaitInv'
  <2>1. notifying' \notin mem' /\ (\A r \in db' : r.ent # notifying')
    BY <1>2, <1>3
  <2>2. \A t \in Threads : move'[t].ent # notifying'
    BY <1>3, <1>4, <1>7
  <2>3. /\ entity'[notifying'].type = "NotProcessed" /\ entity'[notifying'].slot = notifying'
        /\ entity'[notifying'].replace /\ entity'[notifying'].bubble = b
    BY <1>1, <1>5
  <2>4. \A e \in mem' : Live(e)' => entity'[e].bubble # b
    BY <1>2, <1>4, <1>10
  <2> QED
    BY <2>1, <2>2, <2>3, <2>4 DEF WaitInv
<1>15. ClosedIsGone'
  <2>1. entity'[made + 1].type # "Removed"
    BY <1>1, <1>5
  <2> QED
    BY <1>3, <1>9, <2>1 DEF ClosedIsGone
<1>16. FreshTimeoutKept'
  <2> SUFFICES ASSUME NEW e \in mem', e \notin overtaken', Live(e)', entity'[e].kind.timeout > 0,
                      SoleReplacement(e)'
               PROVE  StillWatched(e)
    BY DEF FreshTimeoutKept, Watched, StillWatched
  <2>1. e \in mem /\ Live(e) /\ e \notin overtaken /\ entity[e].kind.timeout > 0
    BY <1>2, <1>9, <1>10
  <2>2. SoleReplacement(e)
    <3>1. \A f \in 1..made : entity'[f].bubble = entity[f].bubble /\ entity'[f].replace = entity[f].replace
      BY <1>5, <1>6
    <3> QED
      BY <1>3, <2>1, <3>1 DEF SoleReplacement
  <2>3. Seen(e)
    BY <1>3, <2>1, <2>2 DEF StoreInv, FreshTimeoutKept
  <2> QED
    BY <1>2, <2>3 DEF Seen, StillWatched
<1>17. LossExplained
  BY <1>2 DEF LossExplained
<1> QED
  BY <1>9, <1>11, <1>12, <1>13, <1>14, <1>15, <1>16, <1>17 DEF StoreInv

LEMMA ReplaceKeepsStore ==
  ASSUME IInv, StoreInv, NEW k \in Kinds, NEW b \in 1..replaces, NotifyReplace(k, b)
  PROVE  StoreInv' /\ LossExplained
<1>1. /\ stage = "idle" /\ made < MaxEntities /\ made' = made + 1 /\ move["worker"] = NoMove
      /\ notifying' = made + 1 /\ UNCHANGED <<memId, db, lastRow, replaces>>
  BY DEF NotifyReplace, Idle
<1>2. PICK old \in LastOfBubble(b) :
        ReplaceInPlace(k, b, old) \/ ReplaceByMoving(k, b, old)
  BY DEF NotifyReplace
<1> QED
  BY <1>1, <1>2, InPlaceKeepsStore, ByMovingKeepsStore

\* ... and its coming into memory when that is done.
LEMMA AddReplacementKeepsStore ==
  ASSUME IInv, StoreInv, AddReplacement
  PROVE  StoreInv' /\ LossExplained
<1> DEFINE x == move["worker"].ent
           n == notifying
<1>1. /\ stage = "replacing" /\ move["worker"].at = "finishing" /\ "worker" \in Threads
      /\ UNCHANGED <<made, db, lastRow, overtaken, replaces, notifying>> /\ stage' = "stored"
      /\ mem' = mem \cup {n} /\ memId' = memId - 1
      /\ move' = [move EXCEPT !["worker"] = NoMove]
  BY DEF AddReplacement, AddLive, Threads
<1>2. /\ TypeOK /\ x \in Entities /\ x \in 1..made /\ memId \in Int /\ made \in Nat
      /\ due \in [Threads -> SUBSET Entities] /\ move \in [Threads -> Move]
      /\ mem \subseteq 1..made /\ 1..made \subseteq Entities
      /\ \A e \in mem : entity[e].id \in Int /\ entity[e].slot \in Nat
      /\ n \in Entities /\ n = made /\ n # None
  BY <1>1, NumberFacts DEF IInv, TypeOK, Created, StoreInv, CallInv
<1>3. /\ n \notin mem /\ (\A r \in db : r.ent # n)
      /\ \A t \in Threads : move[t].ent # n
      /\ entity[n].type = "NotProcessed" /\ entity[n].slot = n /\ entity[n].replace
      /\ \A e \in mem : Live(e) => entity[e].bubble # entity[n].bubble
  BY <1>1 DEF StoreInv, WaitInv
<1>4. x # n
  BY <1>1, <1>3
<1>5. PICK mid : mid = WithRowId("worker")
  OBVIOUS
<1>6. /\ mid \in [Entities -> Data]
      /\ \A f \in Entities : f # x => mid[f] = entity[f]
      /\ \A f \in Entities : /\ mid[f].bubble = entity[f].bubble
                             /\ mid[f].replace = entity[f].replace
                             /\ mid[f].type = entity[f].type
                             /\ mid[f].kind = entity[f].kind
                             /\ mid[f].slot = entity[f].slot
  BY <1>1, <1>2, <1>5, RowIdFacts
<1>7. /\ \A f \in Entities : f \in mem \/ f # x => mid[f].id = entity[f].id
      /\ mid[x].id = entity[x].id \/ mid[x].id > 0
  BY <1>1, <1>5, MovedId
<1>8. /\ \A f \in Entities : f # n => entity'[f] = mid[f]
      /\ entity'[n].id = memId - 1 /\ entity'[n].bubble = mid[n].bubble
      /\ entity'[n].replace = mid[n].replace /\ entity'[n].type = mid[n].type
      /\ entity'[n].kind = mid[n].kind /\ entity'[n].slot = mid[n].slot
  <2>1. entity' = [mid EXCEPT ![n] = [@ EXCEPT !.id = memId - 1]]
    BY <1>5 DEF AddReplacement
  <2> QED
    BY <1>2, <1>6, <2>1 DEF Data
<1>9. /\ \A f \in Entities : /\ entity'[f].bubble = entity[f].bubble
                             /\ entity'[f].replace = entity[f].replace
                             /\ entity'[f].type = entity[f].type
                             /\ entity'[f].kind = entity[f].kind
                             /\ entity'[f].slot = entity[f].slot
      /\ \A f \in mem : entity'[f].id = entity[f].id
  BY <1>2, <1>3, <1>6, <1>7, <1>8
<1>10. \A f \in mem' : \/ f \in mem /\ f # n /\ f \in Entities /\ entity'[f].id = entity[f].id
                       \/ f = n /\ entity'[f].id = memId - 1
  BY <1>1, <1>2, <1>3, <1>8, <1>9
<1> HIDE DEF x, n
<1>11. IdsInv'
  <2>1. /\ memId <= 0 /\ \A e \in mem : memId <= entity[e].id /\ entity[e].id < 0
        /\ \A e, f \in mem : entity[e].id = entity[f].id => e = f
    BY DEF StoreInv, IdsInv
  <2>2. /\ memId \in Int /\ memId' = memId - 1
        /\ \A e \in mem : entity[e].id \in Int
    BY <1>1, <1>2
  <2>3. \A e \in mem' : memId' <= entity'[e].id /\ entity'[e].id < 0
    <3> SUFFICES ASSUME NEW e \in mem' PROVE memId' <= entity'[e].id /\ entity'[e].id < 0
      OBVIOUS
    <3>1. CASE e \in mem /\ entity'[e].id = entity[e].id
      BY <2>1, <2>2, <3>1
    <3>2. CASE entity'[e].id = memId - 1
      BY <2>1, <2>2, <3>2
    <3> QED
      BY <1>10, <3>1, <3>2
  <2>4. \A e, f \in mem' : entity'[e].id = entity'[f].id => e = f
    <3>1. \A e \in mem : entity[e].id # memId - 1
      BY <2>1, <2>2
    <3> QED
      BY <1>10, <2>1, <3>1
  <2>5. memId' <= 0
    BY <2>1, <2>2
  <2> QED
    BY <2>3, <2>4, <2>5 DEF IdsInv
<1>12. RowsInv'
  <2>1. \A u \in Threads : move[u].at = "inserted" => move'[u] = move[u]
    BY <1>1, <1>2
  <2>2. \A r \in db : r.ent \in mem' => r.ent \in mem
    BY <1>1, <1>3
  <2> QED
    BY <1>1, <2>1, <2>2 DEF StoreInv, RowsInv
<1>13. SlotInv'
  <2>1. \A e \in mem : /\ entity[e].slot <= e /\ e <= made /\ e \in Nat
                       /\ entity[e].slot \in Nat /\ e # n
    BY <1>2, <1>3 DEF StoreInv, SlotInv
  <2>2. \A e \in mem : entity[e].slot < n
    <3> SUFFICES ASSUME NEW e \in mem PROVE entity[e].slot < n
      OBVIOUS
    <3>1. n \in Nat /\ e <= n /\ e # n /\ e \in Nat /\ entity[e].slot <= e /\ entity[e].slot \in Nat
      BY <1>2, <2>1
    <3> QED
      BY <3>1
  <2>3. \A e \in mem' : e \in Entities /\ entity'[e].slot = entity[e].slot
                        /\ entity'[e].bubble = entity[e].bubble
    <3>1. \A e \in mem' : e \in Entities
      BY <1>2, <1>10
    <3> QED
      BY <1>9, <3>1
  <2>4. \A e \in mem' : entity'[e].slot <= e
    <3> SUFFICES ASSUME NEW e \in mem' PROVE entity'[e].slot <= e
      OBVIOUS
    <3>1. entity'[e].slot = entity[e].slot
      BY <2>3
    <3>2. CASE e = n
      <4>1. entity[e].slot = e /\ e \in Nat
        BY <1>2, <1>3, <3>2
      <4> QED
        BY <3>1, <4>1
    <3>3. CASE e \in mem
      BY <2>1, <3>1, <3>3
    <3> QED
      BY <1>10, <3>2, <3>3
  <2>5. \A e, f \in mem' : entity'[e].slot = entity'[f].slot => e = f
    <3>1. \A f \in mem' : f \in mem \/ f = n
      BY <1>10
    <3>2. \A f \in mem : entity[f].slot # entity[n].slot
      <4>1. n \in Nat /\ entity[n].slot = n
        BY <1>2, <1>3
      <4> QED
        BY <2>1, <2>2, <4>1
    <3>3. \A e, f \in mem : entity[e].slot = entity[f].slot => e = f
      BY DEF StoreInv, SlotInv
    <3>4. \A f \in mem' : entity'[f].slot = entity[f].slot
      BY <2>3
    <3> QED
      BY <3>1, <3>2, <3>3, <3>4
  <2>6. ASSUME NEW e \in mem', NEW f \in mem', Live(f)', entity'[e].bubble = entity'[f].bubble
        PROVE  entity'[e].slot <= entity'[f].slot
    <3>1. CASE f = n
      BY <1>2, <1>3, <1>10, <2>1, <2>2, <2>3, <3>1
    <3>2. CASE f \in mem
      <4>1. Live(f) /\ entity[f].bubble # entity[n].bubble
        BY <1>2, <1>3, <1>9, <2>6, <3>2 DEF Live
      <4>2. e \in mem
        BY <1>10, <2>3, <2>6, <4>1
      <4> QED
        BY <2>3, <2>6, <3>2, <4>1, <4>2 DEF StoreInv, SlotInv
    <3> QED
      BY <1>10, <3>1, <3>2
  <2> QED
    BY <2>4, <2>5, <2>6 DEF SlotInv
<1>14. CallInv' /\ WaitInv'
  <2>1. \A e \in 1..made : entity'[e].bubble = entity[e].bubble
    BY <1>2, <1>9
  <2> QED
    BY <1>1, <1>2, <2>1 DEF StoreInv, CallInv, WaitInv, n
<1>15. ClosedIsGone'
  <2>1. \A e \in 1..made : entity'[e].type = "Removed" => e # n
    BY <1>3, <1>9, <1>2
  <2> QED
    BY <1>1, <1>2, <1>9, <2>1 DEF StoreInv, ClosedIsGone
<1>16. MoveInv'
  <2>1. \A f \in 1..made : /\ entity'[f].type = entity[f].type
                           /\ \/ entity'[f].id = entity[f].id \/ entity'[f].id > 0
                              \/ \A u \in Threads : move[u].ent # f
    <3>1. \A f \in 1..made : f # n => entity'[f].id = entity[f].id \/ entity'[f].id > 0
      BY <1>2, <1>4, <1>7, <1>8
    <3> QED
      BY <1>2, <1>3, <1>9, <3>1
  <2>2. \A f \in mem' : \/ f \in mem /\ entity'[f].id = entity[f].id
                        \/ /\ entity'[f].id < memId
                           /\ \A u \in Threads : move[u].ent # f
    BY <1>2, <1>3, <1>10
  <2>3. memId' <= memId /\ memId' \in Int
    BY <1>1, <1>2
  <2> QED
    BY <1>1, <2>1, <2>2, <2>3, OtherMoves
<1>17. FreshTimeoutKept'
  <2> SUFFICES ASSUME NEW e \in mem', e \notin overtaken, Live(e)', entity'[e].kind.timeout > 0,
                      SoleReplacement(e)'
               PROVE  StillWatched(e) \/ notifying' = e
    BY <1>1 DEF FreshTimeoutKept, Watched, StillWatched
  <2>1. CASE e = n
    BY <1>1, <2>1 DEF n
  <2>2. CASE e \in mem /\ e # n /\ e \in Entities /\ entity'[e].id = entity[e].id
    <3>1. Live(e) /\ entity[e].kind.timeout > 0
      BY <1>9, <2>2 DEF Live
    <3>2. SoleReplacement(e)
      BY <1>1, <1>2, <1>9, <2>2 DEF SoleReplacement
    <3>3. entity[e].bubble # entity[n].bubble
      BY <1>3, <2>2, <3>1
    <3>4. Seen(e)
      BY <1>1, <2>2, <3>1, <3>2 DEF StoreInv, FreshTimeoutKept, Watched, Seen, n
    <3>5. PICK ent : ent = entity'
      OBVIOUS
    <3>6. PICK whole : /\ whole = TRUE
                       /\ RemovePending("worker", due, ent, ent[n].id, whole, ent[n].bubble)
      BY <3>5 DEF AddReplacement, DropReplaced, RemovePending, Matching, n
    <3>7. /\ \A u \in Threads : due[u] \subseteq due'[u]
          /\ \A p \in pending : \/ ent[p.ent].id = ent[n].id
                                \/ whole /\ ent[p.ent].bubble = ent[n].bubble
                                \/ StillWatched(p.ent)
      <4>1. "worker" \in Threads /\ due \in [Threads -> SUBSET Entities]
        BY <1>1, <1>2
      <4>2. RemovePending("worker", due, ent, ent[n].id, whole, ent[n].bubble)
        BY <3>6
      <4> QED
        BY <4>1, <4>2, RemoveKeeps
    <3>8. ent[e].id # ent[n].id /\ ent[e].bubble # ent[n].bubble
      <4>1. memId <= entity[e].id /\ entity[e].id \in Int
        BY <1>2, <2>2 DEF StoreInv, IdsInv
      <4>2. ent[e].id = entity[e].id /\ ent[n].id = memId - 1
        BY <1>8, <2>2, <3>5
      <4>3. ent[e].bubble = entity[e].bubble /\ ent[n].bubble = entity[n].bubble
        BY <1>2, <1>9, <2>2, <3>5
      <4> QED
        BY <1>2, <3>3, <4>1, <4>2, <4>3
    <3> QED
      BY <3>4, <3>7, <3>8 DEF Seen, StillWatched
  <2> QED
    BY <1>10, <2>1, <2>2
<1>18. LossExplained
  BY <1>1 DEF LossExplained
<1> QED
  BY <1>11, <1>12, <1>13, <1>14, <1>15, <1>16, <1>17, <1>18 DEF StoreInv


-----------------------------------------------------------------------------
(* Every step keeps the invariant, and explains what it takes out of memory. *)

\* An empty store agrees with everything.
LEMMA InitStoreInv == Init => StoreInv
<1> SUFFICES ASSUME Init PROVE StoreInv
  OBVIOUS
<1>1. IdsInv /\ RowsInv /\ SlotInv /\ CallInv /\ ClosedIsGone /\ FreshTimeoutKept
  BY DEF Init, IdsInv, RowsInv, SlotInv, CallInv, ClosedIsGone, FreshTimeoutKept
<1>2. MoveInv /\ WaitInv
  BY DEF Init, MoveInv, MovesWell, WaitInv, NoMove
<1> QED
  BY <1>1, <1>2 DEF StoreInv

\* The D-Bus calls.
LEMMA ClientKeepsStore ==
  ASSUME IInv, StoreInv, Client
  PROVE  StoreInv' /\ LossExplained
<1>1. ASSUME NEW b, CloseNotification(b)
      PROVE  StoreInv' /\ LossExplained
  <2>1. PICK e \in LastOfBubble(b) : SettleLive("worker", due, e, "Removed")
    BY <1>1 DEF CloseNotification
  <2>2. /\ e \in mem /\ "Removed" \in {"Processed", "Removed"} /\ "worker" \in Threads
        /\ due \in [Threads -> SUBSET Entities] /\ TypeOK /\ move["worker"] = NoMove
    BY <1>1 DEF LastOfBubble, Threads, IInv, TypeOK, CloseNotification, Idle
  <2>3. \A f \in 1..made : f \in Entities
    BY NumberFacts
  <2>4. \/ Dropped(due, e)
        \/ /\ Begun("worker", e) /\ due' = due /\ changed' = <<>> /\ pending' = pending
           /\ \A f \in Entities : f # e => entity'[f] = entity[f]
    BY <2>1, <2>2, <2>3, LiveSettles
  <2>5. Settled("worker", due, entity[e].id)
    BY <2>2, <2>4 DEF Settled
  <2>6. UNCHANGED <<made, memId, replaces, call>>
    BY <1>1 DEF CloseNotification
  <2> QED
    BY <2>2, <2>5, <2>6, CallKeepsStore
<1> QED
  BY <1>1, NewKeepsStore, ReplaceKeepsStore DEF Client

\* What the worker goes on with, and time.
LEMMA InternalKeepsStore ==
  ASSUME IInv, StoreInv, Internal
  PROVE  StoreInv' /\ LossExplained
<1>1. CASE Announce
  <2>1. /\ UNCHANGED <<heap, store, replaces>>
        /\ UNCHANGED <<pending, due, notifying>> /\ stage' = "announced" /\ stage = "stored"
    BY <1>1 DEF Announce, expiry
  <2>2. \A e \in mem : Watched(e) => StillWatched(e) \/ notifying' = e
    BY <2>1 DEF Watched, StillWatched
  <2>3. notifying' = made
    BY <2>1 DEF StoreInv, CallInv
  <2> QED
    BY <2>1, <2>2, <2>3, SameStoreStep
<1>2. CASE TimerFires
  <2>1. /\ HandlePending("worker", pending, due) /\ "worker" \in Threads
        /\ UNCHANGED <<heap, store, replaces, call>>
    BY <1>2 DEF TimerFires, Threads
  <2>2. \A p \in pending : \E q \in pending : q.ent = p.ent
    OBVIOUS
  <2> QED
    BY <2>1, <2>2, HandleStoreStep
<1>3. CASE StartTimer
  <2>1. UNCHANGED <<heap, store, replaces, pending, due, call>>
    BY <1>3 DEF StartTimer
  <2>2. \A e \in mem : Watched(e) => StillWatched(e) \/ notifying' = e
    BY <2>1 DEF Watched, StillWatched, call
  <2> QED
    BY <2>1, <2>2, SameStoreStep
<1> QED
  BY <1>1, <1>2, <1>3, PushKeepsStore, AddReplacementKeepsStore, InsertKeepsStore, TakeKeepsStore,
     FinishKeepsStore, DueKeepsStore, TickKeepsStore DEF Internal

\* The bubbles.
LEMMA BubblesKeepStore ==
  ASSUME IInv, StoreInv, Bubbles
  PROVE  StoreInv' /\ LossExplained
<1>1. ASSUME NEW i, NEW reason, NotificationClosed(i, reason)
      PROVE  StoreInv' /\ LossExplained
  <2>1. /\ ClosedType(reason) \in [Types -> {"Processed", "Removed"}]
        /\ "main" \in Threads /\ due \in [Threads -> SUBSET Entities] /\ TypeOK
        /\ move["main"] = NoMove
    BY <1>1 DEF ClosedType, Threads, IInv, TypeOK, NotificationClosed, Idle
  <2>2. Settled("main", due, i)
    BY <1>1, <2>1, Settles DEF NotificationClosed
  <2> QED
    BY <1>1, <2>1, <2>2, CallKeepsStore DEF NotificationClosed
<1> QED
  BY <1>1, ActionKeepsStore, BlockKeepsStore DEF Bubbles

\* The notification center, which removes rows only: the ids it knows are positive.
LEMMA CenterKeepsStore ==
  ASSUME IInv, StoreInv, Center
  PROVE  StoreInv' /\ LossExplained
<1>1. ASSUME NEW R, db' = db \ R,
             UNCHANGED <<mem, memId, lastRow, moves, heap, expiry, replaces, call>>
      PROVE  StoreInv' /\ LossExplained
  <2>1. /\ UNCHANGED <<mem, memId, lastRow, move, overtaken, made, entity, pending, due,
                       replaces, notifying, stage>>
        /\ db' \subseteq db
    BY <1>1 DEF moves, heap, expiry, call
  <2>2. Steady
    BY <2>1 DEF Steady, call
  <2>3. FreshTimeoutKept'
    <3>1. \A e \in mem : Seen(e) => StillWatched(e)
      BY <2>1 DEF Seen, StillWatched
    <3> QED
      BY <2>2, <3>1, SteadyTimeouts
  <2>4. RowsInv' /\ ClosedIsGone' /\ LossExplained
    BY <2>1 DEF StoreInv, RowsInv, ClosedIsGone, LossExplained
  <2>5. MoveInv'
    <3>1. ASSUME NEW t \in Threads PROVE MovesWell(t)'
      <4>1. MovesWell(t)
        BY DEF StoreInv, MoveInv
      <4> QED
        BY <2>1, <4>1 DEF MovesWell
    <3> QED
      BY <2>1, <3>1 DEF StoreInv, MoveInv
  <2> QED
    BY <2>2, <2>3, <2>4, <2>5, SteadyKeeps DEF StoreInv
<1>2. ASSUME NEW i \in RowIds, RemoveNotification(i)
      PROVE  StoreInv' /\ LossExplained
  <2>1. PICK r \in db : r.id = i
    BY DEF RowIds
  <2>2. i > 0 /\ i \in Int
    BY <2>1, NumberFacts DEF StoreInv, RowsInv
  <2>3. InMemory(i) = {}
    <3>1. \A e \in mem : entity[e].id < 0 /\ entity[e].id \in Int
      BY DEF StoreInv, IdsInv, IInv, TypeOK, Data
    <3> QED
      BY <2>2, <3>1 DEF InMemory
  <2> QED
    BY <1>1, <1>2, <2>3 DEF RemoveNotification
<1>3. ASSUME NEW R, RemoveRows(R)
      PROVE  StoreInv' /\ LossExplained
  BY <1>1, <1>3 DEF RemoveRows
<1> QED
  BY <1>2, <1>3, ActionKeepsStore DEF Center, RemoveByApp, RemoveAll, RemoveExpired

\* Every step keeps the stores in agreement.
LEMMA NextStoreInv ==
  ASSUME IInv, StoreInv, [Next]_vars
  PROVE  StoreInv' /\ (LossExplained \/ UNCHANGED vars)
<1>1. CASE UNCHANGED vars
  <2>1. UNCHANGED <<heap, store, replaces, call, pending, due>>
    BY <1>1 DEF vars, expiry
  <2>2. \A e \in mem : Watched(e) => StillWatched(e) \/ notifying' = e
    BY <2>1 DEF Watched, StillWatched, call
  <2> QED
    BY <2>1, <2>2, SameStoreStep
<1> QED
  BY <1>1, ClientKeepsStore, InternalKeepsStore, BubblesKeepStore, CenterKeepsStore DEF Next

-----------------------------------------------------------------------------
(* What holds of every notification in every behaviour.                      *)

\* The ids of the two stores never meet, the live entity of a bubble is the last
\* of it in m_entities, a move has the id of what it takes, and whoever is live and
\* wants to expire is watched.
THEOREM SpecStoreInv == Spec => []StoreInv
<1>1. IInv /\ StoreInv /\ [Next]_vars => StoreInv'
  BY NextStoreInv
<1> QED
  BY <1>1, InitStoreInv, SpecIInv, PTL DEF Spec

\* Of a notification that no call took hold of while the other thread moved it:
\* expiry, calls on the two threads and a failing INSERT leave it in one store, once,
\* but between the INSERT and the removal of its own move; and what was closed while
\* it was live is in none. No two rows, and no two live ones, share an id.
THEOREM StoresAgree == Spec => []StoreSound
<1>1. StoreInv => StoreSound
  BY DEF StoreInv, IdsInv, RowsInv, StoreSound, StoredOnce
<1> QED
  BY <1>1, SpecStoreInv, PTL

\* Of two live notifications of a bubble neither is before the other.
LEMMA BubbleOfOne == IInv /\ StoreInv => OneLivePerBubble
<1>1. ASSUME IInv, StoreInv, NEW e \in mem, NEW f \in mem, Live(e), Live(f),
             entity[e].bubble = entity[f].bubble
      PROVE  e = f
  <2>1. entity[e].slot <= entity[f].slot /\ entity[f].slot <= entity[e].slot
    BY <1>1 DEF StoreInv, SlotInv
  <2>2. entity[e].slot \in Nat /\ entity[f].slot \in Nat
    BY <1>1 DEF IInv, TypeOK, Data
  <2>3. entity[e].slot = entity[f].slot
    BY <2>1, <2>2
  <2> QED
    BY <1>1, <2>3 DEF StoreInv, SlotInv
<1> QED
  BY <1>1 DEF OneLivePerBubble

\* A bubble id names one live notification, also after a replacement whose INSERT
\* of the old one failed and left that in memory.
THEOREM BubbleNamesOne == Spec => []OneLivePerBubble
  BY BubbleOfOne, SpecIInv, SpecStoreInv, PTL

\* A live notification with a timeout whose bubble no other replacement has used, and
\* that no call took hold of while the other thread moved it, stays in the pending hash,
\* in a due list or with the Notify call, whatever is removed or hovered meanwhile.
THEOREM TimeoutWatched == Spec => []FreshTimeoutKept
<1>1. StoreInv => FreshTimeoutKept
  BY DEF StoreInv
<1> QED
  BY <1>1, SpecStoreInv, PTL

\* No step takes a live notification out of memory but with a row or for a reason; in
\* particular no INSERT that fails does, and no move takes another than its own, but one
\* that took the place of that meanwhile.
THEOREM NoneLost == Spec => NothingLost
<1>1. IInv /\ StoreInv /\ [Next]_vars => [LossExplained]_vars
  BY NextStoreInv
<1>2. Spec => [][LossExplained]_vars
  BY <1>1, SpecIInv, SpecStoreInv, PTL DEF Spec
<1> QED
  BY <1>2 DEF NothingLost, LossExplained

-----------------------------------------------------------------------------
(* The panel of banners, under any server, with any number of notifications   *)
(* and any setting of bubbleCount.                                            *)

\* Removing a row of a list of banners leaves a list of banners, one shorter.
LEMMA WithoutType ==
  ASSUME NEW s \in Seq(Entities), NEW i \in 1..Len(s)
  PROVE  /\ Panel!Without(s, i) \in Seq(Entities)
         /\ Len(Panel!Without(s, i)) = Len(s) - 1
<1>1. Len(s) \in Nat /\ Len(s) - 1 \in Nat
  OBVIOUS
<1>2. \A j \in 1..(Len(s) - 1) : s[j] \in Entities /\ s[j + 1] \in Entities
  BY <1>1
<1>3. Panel!Without(s, i) \in [1..(Len(s) - 1) -> Entities]
  BY <1>1, <1>2 DEF Panel!Without
<1> QED
  BY <1>1, <1>3

\* The notifications of a list of banners.
Of(s) == {s[i] : i \in 1..Len(s)}

\* Removing a row takes at most its banner away.
LEMMA WithoutKeeps ==
  ASSUME NEW s \in Seq(Entities), NEW i \in 1..Len(s)
  PROVE  /\ Of(Panel!Without(s, i)) \subseteq Of(s)
         /\ Of(s) \subseteq Of(Panel!Without(s, i)) \cup {s[i]}
<1>1. Len(s) \in Nat /\ i \in Nat /\ Len(s) >= 1
  OBVIOUS
<1>2. PICK w : w = Panel!Without(s, i)
  OBVIOUS
<1>3. Len(w) = Len(s) - 1
  BY <1>2, WithoutType
<1>4. \A j \in 1..(Len(s) - 1) : w[j] = IF j < i THEN s[j] ELSE s[j + 1]
  BY <1>2 DEF Panel!Without
<1>5. Of(w) \subseteq Of(s)
  BY <1>1, <1>3, <1>4 DEF Of
<1>6. ASSUME NEW j \in 1..Len(s), j # i PROVE s[j] \in Of(w)
  <2>1. CASE j < i
    <3>1. j \in 1..(Len(s) - 1) /\ w[j] = s[j]
      BY <1>1, <1>4, <2>1
    <3> QED
      BY <1>3, <3>1 DEF Of
  <2>2. CASE j > i
    <3>1. j - 1 \in 1..(Len(s) - 1) /\ w[j - 1] = s[j]
      BY <1>1, <1>4, <2>2
    <3> QED
      BY <1>3, <3>1 DEF Of
  <2> QED
    BY <1>1, <1>6, <2>1, <2>2
<1> QED
  BY <1>2, <1>5, <1>6 DEF Of

\* The inductive invariant: the types and what the window's visibility and the
\* two timers have to do with the list and the queue.
PanelInv == Panel!TypeOK /\ Panel!WaitingServed /\ Panel!VisibleFits

\* A change of the list keeps the window in step with it.
LEMMA CountChangedFits ==
  ASSUME Panel!TypeOK, Panel!VisibleFits, NEW new \in Seq(Entities), Panel!CountChanged(new),
         UNCHANGED enabled
  PROVE  /\ bubbles' \in Seq(Entities) /\ visible' \in BOOLEAN /\ hiding' \in Nat
         /\ Panel!VisibleFits'
<1>1. CASE new = <<>>
  <2>1. bubbles' = <<>> /\ hiding' = hiding + 1 /\ visible' = visible
    BY <1>1 DEF Panel!CountChanged
  <2> QED
    BY <2>1, <1>1 DEF Panel!TypeOK, Panel!VisibleFits
<1>2. CASE new # <<>>
  <2>1. bubbles' = new /\ hiding' = hiding /\ visible' = enabled
    BY <1>2 DEF Panel!CountChanged
  <2> QED
    BY <2>1, <1>2 DEF Panel!TypeOK, Panel!VisibleFits
<1> QED
  BY <1>1, <1>2

\* insertBubble puts a list of banners into the window, and it is not empty.
LEMMA InsertFits ==
  ASSUME Panel!TypeOK, Panel!VisibleFits, NEW e \in Entities, Panel!InsertBubble(e),
         UNCHANGED enabled
  PROVE  /\ bubbles' \in Seq(Entities) /\ visible' \in BOOLEAN /\ hiding' \in Nat
         /\ Panel!VisibleFits'
<1> DEFINE rest == IF Len(bubbles) >= maxKeep
                     THEN Panel!Without(bubbles, Len(bubbles)) ELSE bubbles
<1>1. rest \in Seq(Entities)
  <2>1. CASE bubbles = <<>>
    <3>1. Len(bubbles) = 0
      BY <2>1
    <3>2. Panel!Without(bubbles, Len(bubbles))
            = [j \in 1..(-1) |-> IF j < 0 THEN bubbles[j] ELSE bubbles[j + 1]]
      BY <3>1 DEF Panel!Without
    <3>3. 1..(-1) = {}
      OBVIOUS
    <3> QED
      BY <3>2, <3>3, <2>1 DEF Panel!TypeOK
  <2>2. CASE bubbles # <<>>
    <3>1. Len(bubbles) \in 1..Len(bubbles)
      BY <2>2 DEF Panel!TypeOK
    <3> QED
      BY <3>1, WithoutType DEF Panel!TypeOK
  <2> QED
    BY <2>1, <2>2
<1>2. <<e>> \o rest \in Seq(Entities)
  BY <1>1
<1>3. Panel!CountChanged(<<e>> \o rest)
  BY DEF Panel!InsertBubble
<1> QED
  BY <1>2, <1>3, CountChangedFits

\* The panel starts within the invariant.
LEMMA InitPanelInv == Panel!Init => PanelInv
<1> SUFFICES ASSUME Panel!Init PROVE PanelInv
  OBVIOUS
<1>1. /\ bubbles = <<>> /\ waiting = <<>> /\ busy = FALSE
      /\ enabled = TRUE /\ visible = FALSE /\ hiding = 0
  BY DEF Panel!Init
<1>2. maxKeep \in Nat
  BY PanelAssumption DEF Panel!Init
<1>3. bubbles \in Seq(Entities) /\ waiting \in Seq(Entities)
  BY <1>1
<1>4. Panel!TypeOK
  BY <1>1, <1>2, <1>3 DEF Panel!TypeOK
<1>5. Panel!WaitingServed /\ Panel!VisibleFits
  BY <1>1 DEF Panel!WaitingServed, Panel!VisibleFits
<1> QED
  BY <1>4, <1>5 DEF PanelInv

\* Every step keeps the invariant.
LEMMA StepPanelInv == PanelInv /\ [Panel!Next]_(Panel!vars) => PanelInv'
<1> SUFFICES ASSUME PanelInv, [Panel!Next]_(Panel!vars) PROVE PanelInv'
  OBVIOUS
<1> USE DEF PanelInv
<1>1. ASSUME NEW e \in Entities, NEW i \in 0..Len(bubbles), Panel!AddBubble(e, i)
      PROVE  PanelInv'
  <2>1. CASE i # 0
    <3>1. /\ bubbles' = [bubbles EXCEPT ![i] = e]
          /\ UNCHANGED <<waiting, busy, visible, hiding, maxKeep, enabled>>
      BY <1>1, <2>1 DEF Panel!AddBubble
    <3>2. i \in 1..Len(bubbles)
      BY <2>1 DEF Panel!TypeOK
    <3>3. bubbles' \in Seq(Entities) /\ Len(bubbles') = Len(bubbles)
      BY <3>1, <3>2 DEF Panel!TypeOK
    <3>4. bubbles' # <<>> /\ bubbles # <<>>
      BY <3>2, <3>3 DEF Panel!TypeOK
    <3> QED
      BY <3>1, <3>3, <3>4 DEF Panel!TypeOK, Panel!WaitingServed, Panel!VisibleFits
  <2>2. CASE i = 0 /\ busy
    <3>1. /\ waiting' = Append(waiting, e)
          /\ UNCHANGED <<bubbles, busy, visible, hiding, maxKeep, enabled>>
      BY <1>1, <2>2 DEF Panel!AddBubble, Panel!Push
    <3> QED
      BY <3>1, <2>2 DEF Panel!TypeOK, Panel!WaitingServed, Panel!VisibleFits
  <2>3. CASE i = 0 /\ ~busy
    <3>1. /\ Panel!InsertBubble(e) /\ busy' = TRUE
          /\ UNCHANGED <<waiting, maxKeep, enabled>>
      BY <1>1, <2>3 DEF Panel!AddBubble, Panel!Push
    <3>2. /\ bubbles' \in Seq(Entities) /\ visible' \in BOOLEAN /\ hiding' \in Nat
          /\ Panel!VisibleFits'
      BY <3>1, InsertFits
    <3> QED
      BY <3>1, <3>2 DEF Panel!TypeOK, Panel!WaitingServed
  <2> QED
    BY <2>1, <2>2, <2>3
<1>2. CASE Panel!ProcessPending
  <2>1. CASE waiting = <<>>
    <3>1. /\ busy' = FALSE
          /\ UNCHANGED <<bubbles, waiting, visible, hiding, maxKeep, enabled>>
      BY <1>2, <2>1 DEF Panel!ProcessPending
    <3> QED
      BY <3>1, <2>1 DEF Panel!TypeOK, Panel!WaitingServed, Panel!VisibleFits
  <2>2. CASE waiting # <<>>
    <3>1. /\ Panel!InsertBubble(Head(waiting)) /\ waiting' = Tail(waiting) /\ busy
          /\ UNCHANGED <<busy, maxKeep, enabled>>
      BY <1>2, <2>2 DEF Panel!ProcessPending
    <3>2. Head(waiting) \in Entities /\ Tail(waiting) \in Seq(Entities)
      BY <2>2 DEF Panel!TypeOK
    <3>3. /\ bubbles' \in Seq(Entities) /\ visible' \in BOOLEAN /\ hiding' \in Nat
          /\ Panel!VisibleFits'
      BY <3>1, <3>2, InsertFits
    <3> QED
      BY <3>1, <3>2, <3>3 DEF Panel!TypeOK, Panel!WaitingServed
  <2> QED
    BY <2>1, <2>2
<1>3. ASSUME NEW i \in 0..Len(bubbles), Panel!RemoveRow(i)
      PROVE  PanelInv'
  <2>1. UNCHANGED <<waiting, busy, maxKeep, enabled>>
    BY <1>3 DEF Panel!RemoveRow
  <2>2. CASE i = 0
    <3>1. UNCHANGED <<bubbles, visible, hiding>>
      BY <1>3, <2>2 DEF Panel!RemoveRow
    <3> QED
      BY <2>1, <3>1 DEF Panel!TypeOK, Panel!WaitingServed, Panel!VisibleFits
  <2>3. CASE i # 0
    <3>1. Panel!CountChanged(Panel!Without(bubbles, i))
      BY <1>3, <2>3 DEF Panel!RemoveRow
    <3>2. Panel!Without(bubbles, i) \in Seq(Entities)
      BY <2>3, WithoutType DEF Panel!TypeOK
    <3>3. /\ bubbles' \in Seq(Entities) /\ visible' \in BOOLEAN /\ hiding' \in Nat
          /\ Panel!VisibleFits'
      BY <2>1, <3>1, <3>2, CountChangedFits
    <3> QED
      BY <2>1, <3>3 DEF Panel!TypeOK, Panel!WaitingServed
  <2> QED
    BY <2>2, <2>3
<1>4. ASSUME NEW i \in 1..Len(bubbles), NEW j \in 0..(Len(bubbles) - 1),
             Panel!CloseRow(i, j)
      PROVE  PanelInv'
  <2> DEFINE rest == Panel!Without(bubbles, i)
             last == IF j = 0 THEN rest ELSE Panel!Without(rest, j)
  <2>1. Panel!CountChanged(last) /\ UNCHANGED <<waiting, busy, maxKeep, enabled>>
    BY <1>4 DEF Panel!CloseRow
  <2>2. rest \in Seq(Entities) /\ Len(rest) = Len(bubbles) - 1
    BY WithoutType DEF Panel!TypeOK
  <2>3. last \in Seq(Entities)
    <3>1. CASE j = 0
      BY <3>1, <2>2
    <3>2. CASE j # 0
      <4> HIDE DEF rest
      <4>1. j \in 1..Len(rest)
        BY <3>2, <2>2
      <4>2. Panel!Without(rest, j) \in Seq(Entities)
        BY <4>1, <2>2, WithoutType
      <4> QED
        BY <4>2, <3>2
    <3> QED
      BY <3>1, <3>2
  <2> HIDE DEF last
  <2>4. /\ bubbles' \in Seq(Entities) /\ visible' \in BOOLEAN /\ hiding' \in Nat
        /\ Panel!VisibleFits'
    BY <2>1, <2>3, CountChangedFits
  <2> QED
    BY <2>1, <2>4 DEF Panel!TypeOK, Panel!WaitingServed
<1>5. CASE Panel!HideLater
  <2>1. /\ hiding' = hiding - 1 /\ hiding > 0
        /\ UNCHANGED <<bubbles, waiting, busy, maxKeep, enabled>>
    BY <1>5 DEF Panel!HideLater, Panel!rows
  <2>2. hiding' \in Nat
    BY <2>1 DEF Panel!TypeOK
  <2>3. visible' = (visible /\ bubbles # <<>>)
    BY <1>5 DEF Panel!HideLater
  <2>4. visible' \in BOOLEAN
    BY <2>3
  <2>5. Panel!VisibleFits'
    BY <2>1, <2>3, Zenon DEF Panel!VisibleFits
  <2>6. Panel!TypeOK'
    BY <2>1, <2>2, <2>4 DEF Panel!TypeOK
  <2> QED
    BY <2>1, <2>5, <2>6 DEF Panel!WaitingServed
<1>6. ASSUME NEW on \in BOOLEAN, Panel!SetEnabled(on)
      PROVE  PanelInv'
  BY <1>6 DEF Panel!SetEnabled, Panel!rows, Panel!TypeOK, Panel!WaitingServed, Panel!VisibleFits
<1>7. ASSUME NEW n \in BubbleCounts, Panel!UpdateBubbleCount(n)
      PROVE  PanelInv'
  <2>1. maxKeep' \in Nat
    BY <1>7, PanelAssumption DEF Panel!UpdateBubbleCount
  <2> QED
    BY <2>1, <1>7
       DEF Panel!UpdateBubbleCount, Panel!rows, Panel!TypeOK, Panel!WaitingServed,
           Panel!VisibleFits
<1>8. CASE UNCHANGED Panel!vars
  BY <1>8 DEF Panel!vars, Panel!rows, Panel!TypeOK, Panel!WaitingServed, Panel!VisibleFits
<1> QED
  BY <1>1, <1>2, <1>3, <1>4, <1>5, <1>6, <1>7, <1>8 DEF Panel!Next

-----------------------------------------------------------------------------
(* Which banners a step of the panel brings and which it takes away.         *)

\* Putting a banner in front of a list that has room takes none away.
LEMMA InsertRows ==
  ASSUME PanelInv, NEW e \in Entities, Panel!InsertBubble(e)
  PROVE  /\ Panel!Shown' \subseteq Panel!Shown \cup {e} /\ e \in Panel!Shown'
         /\ Len(bubbles) < maxKeep => Panel!Shown \subseteq Panel!Shown'
         /\ Len(bubbles') <= Len(bubbles) + 1
<1>1. /\ bubbles \in Seq(Entities) /\ maxKeep \in Nat /\ Len(bubbles) \in Nat
  BY DEF PanelInv, Panel!TypeOK
<1>2. PICK rest : /\ rest = IF Len(bubbles) >= maxKeep
                              THEN Panel!Without(bubbles, Len(bubbles)) ELSE bubbles
                  /\ bubbles' = <<e>> \o rest
  BY DEF Panel!InsertBubble, Panel!CountChanged
<1>3. rest \in Seq(Entities) /\ Of(rest) \subseteq Of(bubbles) /\ Len(rest) <= Len(bubbles)
  <2>1. CASE rest = bubbles
    BY <1>1, <2>1
  <2>2. CASE rest = Panel!Without(bubbles, Len(bubbles)) /\ bubbles # <<>>
    <3>1. Len(bubbles) \in 1..Len(bubbles)
      BY <1>1, <2>2
    <3>2. /\ rest \in Seq(Entities) /\ Of(rest) \subseteq Of(bubbles)
          /\ Len(rest) = Len(bubbles) - 1
      BY <1>1, <2>2, <3>1, WithoutType, WithoutKeeps
    <3> QED
      BY <1>1, <3>2
  <2>3. CASE rest = Panel!Without(bubbles, Len(bubbles)) /\ bubbles = <<>>
    <3>1. 1..(-1) = {} /\ Len(bubbles) = 0
      BY <2>3
    <3>2. rest = <<>>
      BY <2>3, <3>1 DEF Panel!Without
    <3>3. rest = bubbles
      BY <2>3, <3>2
    <3> QED
      BY <1>1, <3>3
  <2> QED
    BY <1>2, <2>1, <2>2, <2>3
<1>4. /\ bubbles'[1] = e /\ Len(bubbles') = Len(rest) + 1
      /\ \A j \in 2..(Len(rest) + 1) : bubbles'[j] = rest[j - 1]
      /\ Len(rest) \in Nat
  BY <1>2, <1>3
<1>5. Of(bubbles') = {e} \cup Of(rest)
  <2>1. \A j \in 1..Len(bubbles') : bubbles'[j] \in {e} \cup Of(rest)
    BY <1>4 DEF Of
  <2>2. e \in Of(bubbles')
    BY <1>4 DEF Of
  <2>3. ASSUME NEW j \in 1..Len(rest) PROVE rest[j] \in Of(bubbles')
    <3>1. j + 1 \in 1..Len(bubbles') /\ bubbles'[j + 1] = rest[j]
      BY <1>4
    <3> QED
      BY <3>1 DEF Of
  <2> QED
    BY <2>1, <2>2, <2>3 DEF Of
<1>6. Panel!Shown = Of(bubbles) /\ Panel!Shown' = Of(bubbles')
  BY DEF Panel!Shown, Of
<1>7. Len(bubbles) < maxKeep => rest = bubbles
  BY <1>1, <1>2
<1> QED
  BY <1>1, <1>3, <1>4, <1>5, <1>6, <1>7

\* addBubble of what replaces no row.
LEMMA PushRows ==
  ASSUME PanelInv, NEW e \in Entities, Panel!AddBubble(e, 0)
  PROVE  /\ Panel!Shown' \subseteq Panel!Shown \cup {e}
         /\ Panel!Queued' \subseteq Panel!Queued \cup {e}
         /\ Panel!Queued \subseteq Panel!Queued' /\ e \in Panel!Shown' \cup Panel!Queued'
         /\ Len(bubbles) < maxKeep => Panel!Shown \subseteq Panel!Shown'
         /\ Len(bubbles') + Len(waiting') <= Len(bubbles) + Len(waiting) + 1
         /\ maxKeep' = maxKeep
<1>1. Panel!Push(e) /\ maxKeep' = maxKeep
  BY DEF Panel!AddBubble
<1>2. /\ waiting \in Seq(Entities) /\ Len(bubbles) \in Nat /\ Len(waiting) \in Nat
      /\ bubbles \in Seq(Entities)
  BY DEF PanelInv, Panel!TypeOK
<1>3. CASE busy
  <2>1. waiting' = Append(waiting, e) /\ bubbles' = bubbles
    BY <1>1, <1>3 DEF Panel!Push
  <2>2. /\ Len(waiting') = Len(waiting) + 1 /\ waiting'[Len(waiting) + 1] = e
        /\ \A j \in 1..Len(waiting) : waiting'[j] = waiting[j]
    BY <1>2, <2>1
  <2>3. Panel!Queued' = Panel!Queued \cup {e}
    <3>1. 1..Len(waiting') = 1..Len(waiting) \cup {Len(waiting) + 1}
      BY <1>2, <2>2
    <3> QED
      BY <2>2, <3>1 DEF Panel!Queued
  <2> QED
    BY <1>1, <1>2, <2>1, <2>2, <2>3 DEF Panel!Shown
<1>4. CASE ~busy
  <2>1. Panel!InsertBubble(e) /\ waiting' = waiting
    BY <1>1, <1>4 DEF Panel!Push
  <2>2. /\ Panel!Shown' \subseteq Panel!Shown \cup {e} /\ e \in Panel!Shown'
        /\ Len(bubbles) < maxKeep => Panel!Shown \subseteq Panel!Shown'
        /\ Len(bubbles') <= Len(bubbles) + 1
    BY <2>1, InsertRows
  <2>3. Panel!Queued' = Panel!Queued
    BY <2>1 DEF Panel!Queued
  <2>4. bubbles' \in Seq(Entities)
    BY <2>1, InsertFits DEF PanelInv, Panel!AddBubble
  <2>5. Len(bubbles') \in Nat
    BY <2>4
  <2> QED
    BY <1>1, <1>2, <2>1, <2>2, <2>3, <2>5
<1> QED
  BY <1>3, <1>4

\* addBubble of what replaces row n.
LEMMA ReplaceRows ==
  ASSUME PanelInv, NEW e \in Entities, NEW n \in 1..Len(bubbles), Panel!AddBubble(e, n)
  PROVE  /\ Panel!Shown' \subseteq Panel!Shown \cup {e} /\ waiting' = waiting
         /\ e \in Panel!Shown' /\ Panel!Shown \subseteq Panel!Shown' \cup {bubbles[n]}
         /\ Len(bubbles') = Len(bubbles) /\ maxKeep' = maxKeep
<1>1. bubbles \in Seq(Entities) /\ Len(bubbles) \in Nat /\ n # 0
  BY DEF PanelInv, Panel!TypeOK
<1>2. /\ bubbles' = [bubbles EXCEPT ![n] = e] /\ waiting' = waiting /\ maxKeep' = maxKeep
  BY <1>1 DEF Panel!AddBubble
<1>3. /\ Len(bubbles') = Len(bubbles) /\ bubbles'[n] = e
      /\ \A j \in 1..Len(bubbles) : j # n => bubbles'[j] = bubbles[j]
  BY <1>1, <1>2
<1> QED
  BY <1>2, <1>3 DEF Panel!Shown

\* The timer of the queue.
LEMMA PendingRows ==
  ASSUME PanelInv, Panel!ProcessPending
  PROVE  /\ Panel!Shown' \subseteq Panel!Shown \cup Panel!Queued
         /\ Panel!Queued' \subseteq Panel!Queued
         /\ Len(bubbles) < maxKeep \/ waiting = <<>>
              => Panel!Shown \cup Panel!Queued \subseteq Panel!Shown' \cup Panel!Queued'
         /\ Len(bubbles') + Len(waiting') <= Len(bubbles) + Len(waiting)
         /\ maxKeep' = maxKeep
<1>1. /\ waiting \in Seq(Entities) /\ Len(bubbles) \in Nat /\ Len(waiting) \in Nat
      /\ bubbles \in Seq(Entities) /\ maxKeep' = maxKeep
  BY DEF PanelInv, Panel!TypeOK, Panel!ProcessPending
<1>2. CASE waiting = <<>>
  <2>1. UNCHANGED <<bubbles, waiting>>
    BY <1>2 DEF Panel!ProcessPending
  <2> QED
    BY <1>1, <2>1 DEF Panel!Shown, Panel!Queued
<1>3. CASE waiting # <<>>
  <2>1. Panel!InsertBubble(Head(waiting)) /\ waiting' = Tail(waiting) /\ UNCHANGED enabled
    BY <1>3 DEF Panel!ProcessPending
  <2>2. /\ Head(waiting) \in Entities /\ Head(waiting) = waiting[1]
        /\ Len(waiting') = Len(waiting) - 1 /\ Len(waiting) >= 1
        /\ \A j \in 1..(Len(waiting) - 1) : waiting'[j] = waiting[j + 1]
    BY <1>1, <1>3, <2>1
  <2>3. PICK e \in Entities : e = Head(waiting)
    BY <2>2
  <2>4. /\ Panel!Shown' \subseteq Panel!Shown \cup {e} /\ e \in Panel!Shown'
        /\ Len(bubbles) < maxKeep => Panel!Shown \subseteq Panel!Shown'
        /\ Len(bubbles') <= Len(bubbles) + 1
    BY <2>1, <2>3, InsertRows
  <2>5. bubbles' \in Seq(Entities)
    BY <2>1, <2>3, InsertFits DEF PanelInv
  <2>6. Len(bubbles') \in Nat
    BY <2>5
  <2>7. e \in Panel!Queued
    BY <1>1, <2>2, <2>3 DEF Panel!Queued
  <2>8. Panel!Queued' \subseteq Panel!Queued
    <3>1. ASSUME NEW j \in 1..(Len(waiting) - 1) PROVE waiting'[j] \in Panel!Queued
      <4>1. j + 1 \in 1..Len(waiting)
        BY <1>1
      <4> QED
        BY <2>2, <4>1 DEF Panel!Queued
    <3> QED
      BY <2>2, <3>1 DEF Panel!Queued
  <2>9. Panel!Queued \subseteq Panel!Queued' \cup {e}
    <3>1. ASSUME NEW j \in 1..Len(waiting), j # 1 PROVE waiting[j] \in Panel!Queued'
      <4>1. j - 1 \in 1..(Len(waiting) - 1) /\ waiting'[j - 1] = waiting[j]
        BY <1>1, <2>2, <3>1
      <4> QED
        BY <2>2, <4>1 DEF Panel!Queued
    <3> QED
      BY <2>2, <2>3, <3>1 DEF Panel!Queued
  <2>10. Len(bubbles') + Len(waiting') <= Len(bubbles) + Len(waiting)
    BY <1>1, <2>2, <2>4, <2>6
  <2> QED
    BY <1>1, <1>3, <2>4, <2>7, <2>8, <2>9, <2>10
<1> QED
  BY <1>2, <1>3

\* remove(i).
LEMMA RemoveKeepsRows ==
  ASSUME PanelInv, NEW i \in 0..Len(bubbles), Panel!RemoveRow(i)
  PROVE  /\ Panel!Shown' \subseteq Panel!Shown /\ waiting' = waiting /\ maxKeep' = maxKeep
         /\ i = 0 => bubbles' = bubbles
         /\ i # 0 => Panel!Shown \subseteq Panel!Shown' \cup {bubbles[i]}
         /\ Len(bubbles') <= Len(bubbles)
<1>1. /\ bubbles \in Seq(Entities) /\ Len(bubbles) \in Nat
      /\ waiting' = waiting /\ maxKeep' = maxKeep
  BY DEF PanelInv, Panel!TypeOK, Panel!RemoveRow
<1>0. Panel!Shown = Of(bubbles) /\ Panel!Shown' = Of(bubbles')
  BY DEF Panel!Shown, Of
<1>2. CASE i = 0
  <2>1. bubbles' = bubbles
    BY <1>2 DEF Panel!RemoveRow
  <2> QED
    BY <1>1, <1>2, <2>1 DEF Panel!Shown
<1>3. CASE i # 0
  <2>1. bubbles' = Panel!Without(bubbles, i) /\ i \in 1..Len(bubbles)
    BY <1>1, <1>3 DEF Panel!RemoveRow, Panel!CountChanged
  <2>2. /\ Of(bubbles') \subseteq Of(bubbles) /\ Len(bubbles') = Len(bubbles) - 1
        /\ Of(bubbles) \subseteq Of(bubbles') \cup {bubbles[i]}
    BY <1>1, <2>1, WithoutType, WithoutKeeps
  <2> QED
    BY <1>0, <1>1, <1>3, <2>2
<1> QED
  BY <1>2, <1>3

\* The user closes row i, and what that announces removes row j of the rest.
LEMMA CloseRows ==
  ASSUME PanelInv, NEW i \in 1..Len(bubbles), NEW j \in 0..(Len(bubbles) - 1),
         Panel!CloseRow(i, j)
  PROVE  /\ Panel!Shown' \subseteq Panel!Shown /\ waiting' = waiting /\ maxKeep' = maxKeep
         /\ j = 0 => Panel!Shown \subseteq Panel!Shown' \cup {bubbles[i]}
         /\ j # 0 => Panel!Shown \subseteq Panel!Shown'
                                     \cup {bubbles[i], Panel!Without(bubbles, i)[j]}
         /\ Len(bubbles') <= Len(bubbles)
<1>1. /\ bubbles \in Seq(Entities) /\ Len(bubbles) \in Nat
      /\ waiting' = waiting /\ maxKeep' = maxKeep
  BY DEF PanelInv, Panel!TypeOK, Panel!CloseRow
<1>0. Panel!Shown = Of(bubbles) /\ Panel!Shown' = Of(bubbles')
  BY DEF Panel!Shown, Of
<1>2. PICK rest : rest = Panel!Without(bubbles, i)
  OBVIOUS
<1>3. /\ rest \in Seq(Entities) /\ Len(rest) = Len(bubbles) - 1
      /\ Of(rest) \subseteq Of(bubbles)
      /\ Of(bubbles) \subseteq Of(rest) \cup {bubbles[i]}
  BY <1>1, <1>2, WithoutType, WithoutKeeps
<1>4. bubbles' = IF j = 0 THEN rest ELSE Panel!Without(rest, j)
  BY <1>2 DEF Panel!CloseRow, Panel!CountChanged
<1>5. CASE j = 0
  BY <1>0, <1>1, <1>3, <1>4, <1>5
<1>6. CASE j # 0
  <2>1. j \in 1..Len(rest)
    BY <1>1, <1>3, <1>6
  <2>2. /\ Of(bubbles') \subseteq Of(rest) /\ Len(bubbles') = Len(rest) - 1
        /\ Of(rest) \subseteq Of(bubbles') \cup {rest[j]}
    BY <1>3, <1>4, <1>6, <2>1, WithoutType, WithoutKeeps
  <2> QED
    BY <1>0, <1>1, <1>2, <1>3, <1>6, <2>2
<1> QED
  BY <1>5, <1>6

-----------------------------------------------------------------------------
\* The inductive invariant holds in every behaviour of the panel.
THEOREM SpecPanelInv == Panel!Spec => []PanelInv
  BY InitPanelInv, StepPanelInv, PTL DEF Panel!Spec

\* Whatever the server announces and the user does, a banner in the queue has a
\* timer that will show it.
THEOREM QueueServed == Panel!Spec => []WaitingServed
  BY SpecPanelInv, PTL DEF PanelInv, WaitingServed

\* Whatever the server announces and the user does, the window shows exactly
\* when the center is closed and there is a banner, up to the hiding that is
\* under way.
THEOREM WindowFits == Panel!Spec => []VisibleFits
  BY SpecPanelInv, PTL DEF PanelInv, VisibleFits

-----------------------------------------------------------------------------
(* The system.                                                                *)

\* The inductive invariant: that of the server and that of the panel.
SystemInv == IInv /\ PanelInv

-----------------------------------------------------------------------------
\* The row an announcement closes is a row of the list, or 0.
LEMMA ClosesRange ==
  ASSUME NEW ent, NEW s, NEW ch, Len(s) \in Nat
  PROVE  Closes(ent, s, ch) \in 0..Len(s)
<1> DEFINE hit == IF ch = <<>> \/ Head(ch).type = "NotProcessed" THEN {}
                  ELSE RowOf(ent, s, Head(ch).id)
<1>1. hit \subseteq 1..Len(s)
  BY DEF RowOf
<1>2. Closes(ent, s, ch) = IF hit = {} THEN 0 ELSE CHOOSE n \in hit : TRUE
  BY DEF Closes
<1> HIDE DEF hit
<1>3. CASE hit = {}
  BY <1>2, <1>3
<1>4. CASE hit # {}
  <2>1. (CHOOSE n \in hit : TRUE) \in hit
    BY <1>4
  <2>2. Closes(ent, s, ch) \in hit
    BY <1>2, <1>4, <2>1
  <2>3. 1..Len(s) \subseteq 0..Len(s)
    OBVIOUS
  <2> QED
    BY <1>1, <2>2, <2>3, Zenon
<1> QED
  BY <1>3, <1>4

\* What the store answers is a notification.
LEMMA FetchedEntities ==
  ASSUME IInv, NEW i
  PROVE  Fetched(i) \subseteq Entities
  BY DEF IInv, TypeOK, Fetched, InMemory, InDb, Row

\* A list without one of its rows is one shorter.
LEMMA RestLength ==
  ASSUME PanelInv, NEW n \in 1..Len(bubbles)
  PROVE  Len(Panel!Without(bubbles, n)) = Len(bubbles) - 1
<1>1. bubbles \in Seq(Entities)
  BY DEF PanelInv, Panel!TypeOK
<1>2. Len(bubbles) - 1 \in Nat
  BY <1>1
<1> QED
  BY <1>2 DEF Panel!Without

\* A call of the main thread that is announced to the panel is one of its steps.
LEMMA DirectIsPanelStep ==
  ASSUME PanelInv, Direct
  PROVE  Panel!Next
<1>1. Len(bubbles) \in Nat
  BY DEF PanelInv, Panel!TypeOK
<1>2. PICK ent : ent = entity'
  OBVIOUS
<1>3. PICK ch : ch = changed'
  OBVIOUS
<1>4. Closes(ent, bubbles, ch) \in 0..Len(bubbles)
  BY <1>1, ClosesRange
<1>5. Closes(entity', bubbles, changed') \in 0..Len(bubbles)
  BY <1>2, <1>3, <1>4
<1> QED
  BY <1>5 DEF Direct, Panel!Next

\* So is the closing of a row by the user.
LEMMA OnRowIsPanelStep ==
  ASSUME PanelInv, NEW n \in 1..Len(bubbles), OnRow(n)
  PROVE  Panel!Next
<1>1. PICK rest : rest = Panel!Without(bubbles, n)
  OBVIOUS
<1>2. Len(rest) = Len(bubbles) - 1 /\ Len(rest) \in Nat
  <2>1. Len(bubbles) \in Nat
    BY DEF PanelInv, Panel!TypeOK
  <2> QED
    BY <2>1, <1>1, RestLength
<1>3. PICK ent : ent = entity'
  OBVIOUS
<1>4. PICK ch : ch = changed'
  OBVIOUS
<1>5. Closes(ent, rest, ch) \in 0..Len(rest)
  BY <1>2, ClosesRange
<1>6. Closes(entity', Panel!Without(bubbles, n), changed') \in 0..(Len(bubbles) - 1)
  BY <1>1, <1>2, <1>3, <1>4, <1>5
<1> QED
  BY <1>6 DEF OnRow, Panel!Next

\* So is the delivery of an announcement.
LEMMA DeliverIsPanelStep ==
  ASSUME SystemInv, Deliver
  PROVE  [Panel!Next]_(Panel!vars)
<1>1. Panel!Roomy
  BY DEF Deliver
<1>2. Len(bubbles) \in Nat
  BY DEF SystemInv, PanelInv, Panel!TypeOK
<1> DEFINE i == Head(events).id
<1>3. CASE Head(events).type # "NotProcessed"
  <2>1. Panel!RemoveRow(Closes(entity, bubbles, events))
    BY <1>3 DEF Deliver
  <2>2. Closes(entity, bubbles, events) \in 0..Len(bubbles)
    BY <1>2, ClosesRange
  <2> QED
    BY <1>1, <2>1, <2>2 DEF Panel!Next
<1>4. CASE Head(events).type = "NotProcessed" /\ Fetched(i) = {}
  <2>1. UNCHANGED banners
    BY <1>4 DEF Deliver
  <2> QED
    BY <2>1 DEF banners, Panel!vars, Panel!rows
<1>5. CASE Head(events).type = "NotProcessed" /\ Fetched(i) # {}
  <2>1. PICK e \in Fetched(i) :
           \/ ReplaceIndex(entity, e) = {} /\ Panel!AddBubble(e, 0)
           \/ \E n \in ReplaceIndex(entity, e) : Panel!AddBubble(e, n)
    BY <1>5 DEF Deliver
  <2>2. e \in Entities
    BY FetchedEntities DEF SystemInv
  <2>3. ReplaceIndex(entity, e) \subseteq 0..Len(bubbles) /\ 0 \in 0..Len(bubbles)
    BY <1>2 DEF ReplaceIndex
  <2>4. \E n \in 0..Len(bubbles) : Panel!AddBubble(e, n)
    BY <2>1, <2>3
  <2> QED
    BY <1>1, <2>2, <2>4 DEF Panel!Next
<1> QED
  BY <1>3, <1>4, <1>5

\* Every step of the system is a step of the panel or leaves it alone.
LEMMA SystemStepIsPanelStep ==
  ASSUME SystemInv, [SystemNext]_all
  PROVE  [Panel!Next]_(Panel!vars)
<1>1. ASSUME UNCHANGED banners
      PROVE  UNCHANGED Panel!vars
  BY <1>1 DEF banners, Panel!vars, Panel!rows
<1>2. CASE WorkerStep \/ SetHoveredId \/ UNCHANGED all
  BY <1>1, <1>2 DEF WorkerStep, SetHoveredId, all
<1>3. CASE Deliver
  BY <1>3, DeliverIsPanelStep
<1>4. CASE Direct
  BY <1>4, DirectIsPanelStep DEF SystemInv
<1>5. ASSUME NEW n \in 1..Len(bubbles), OnRow(n)
      PROVE  Panel!Next
  BY <1>5, OnRowIsPanelStep DEF SystemInv
<1>6. CASE PanelStep
  BY <1>6 DEF PanelStep, Panel!Next
<1>7. CASE (Insert("main") \/ Take("main")) /\ UNCHANGED <<banners, events>>
  BY <1>1, <1>7
<1> QED
  BY <1>2, <1>3, <1>4, <1>5, <1>6, <1>7 DEF SystemNext, MainStep, Close, InvokeAction

-----------------------------------------------------------------------------
\* Every step of the system keeps the invariant of the server.
LEMMA SystemStepIInv ==
  ASSUME SystemInv, [SystemNext]_all
  PROVE  IInv'
<1> USE DEF SystemInv
<1>1. CASE UNCHANGED vars
  BY <1>1, NextIInv
<1>2. CASE WorkerStep
  <2>1. "worker" \in Threads
    BY DEF Threads
  <2>2. Client \/ Internal
    BY <1>2, <2>1 DEF WorkerStep, Internal
  <2> QED
    BY <2>2, ClientStep, InternalStep
<1>3. CASE Insert("main") \/ Take("main") \/ Finish("main") \/ HandleDue("main")
  <2>1. Internal
    BY <1>3 DEF Internal, Threads
  <2> QED
    BY <2>1, InternalStep
<1>4. CASE SetHoveredId
  <2>1. PICK i \in {entity[e].id : e \in Panel!Shown} \cup {None} : SetBlockClosedId(i)
    BY <1>4 DEF SetHoveredId
  <2>2. Panel!Shown \subseteq Entities
    <3>1. bubbles \in Seq(Entities)
      BY DEF PanelInv, Panel!TypeOK
    <3> QED
      BY <3>1 DEF Panel!Shown
  <2>3. \A e \in Entities : entity[e].id \in Int
    BY DEF IInv, TypeOK, Data
  <2>4. i \in Int
    BY <2>1, <2>2, <2>3 DEF None
  <2> QED
    BY <2>1, <2>4, SetBlockStep
<1>5. ASSUME NEW n \in 1..Len(bubbles), NEW reason \in {"Closed", "Dismissed"},
             Close(n, reason)
      PROVE  IInv'
  <2>1. ClosedType(reason) \in [Types -> Types]
    BY DEF ClosedType, Types
  <2>2. NotificationClosed(entity[bubbles[n]].id, reason)
    BY <1>5 DEF Close
  <2> QED
    BY <2>1, <2>2, SettleCallStep DEF NotificationClosed
<1>6. ASSUME NEW n \in 1..Len(bubbles), InvokeAction(n)
      PROVE  IInv'
  BY <1>6, ActionInvokedStep DEF InvokeAction
<1>7. CASE Center
  BY <1>7, CenterStep
<1> QED
  BY <1>1, <1>2, <1>3, <1>4, <1>5, <1>6, <1>7
     DEF SystemNext, MainStep, Deliver, PanelStep, all

\* The invariant holds at the start.
LEMMA SystemInitInv == SystemInit => SystemInv
<1> SUFFICES ASSUME SystemInit PROVE SystemInv
  OBVIOUS
<1>1. Panel!Init
  BY DEF SystemInit, Panel!Init, Panel!Init
<1>2. PanelInv
  BY <1>1, InitPanelInv, PanelAssumption
<1> QED
  BY <1>2, InitIInv DEF SystemInit, SystemInv

\* Every step keeps it.
LEMMA SystemStepInv == SystemInv /\ [SystemNext]_all => SystemInv'
<1> SUFFICES ASSUME SystemInv, [SystemNext]_all PROVE SystemInv'
  OBVIOUS
<1>1. [Panel!Next]_(Panel!vars)
  BY SystemStepIsPanelStep
<1>2. PanelInv'
  BY <1>1, StepPanelInv, PanelAssumption DEF SystemInv
<1> QED
  BY <1>2, SystemStepIInv DEF SystemInv

\* The invariants of the two components hold together.
THEOREM SystemSafe == SystemSpec => []SystemInv
  BY SystemInitInv, SystemStepInv, PTL DEF SystemSpec

\* No timeout is forgotten in the system either, although its banners call the
\* server for notifications that are long closed.
THEOREM SystemForgetsNoTimeout == SystemSpec => []TimeoutArmed
<1>1. SystemInv => TimeoutArmed
  BY DEF SystemInv, IInv, TimerInv, TimeoutArmed
<1> QED
  BY <1>1, SystemSafe, PTL

-----------------------------------------------------------------------------
\* The arrival of a notification with the id i is in the event queue.
Arriving(i) ==
  \E n \in 1..Len(events) : events[n].id = i /\ events[n].type = "NotProcessed"

\* f was live with the id of e, and the worker is not moving it.
TwinOf(e, f) ==
  /\ f \notin mem /\ f # e /\ entity[f].slot # 0 /\ entity[f].id = entity[e].id
  /\ move["worker"].ent # f

\* e has taken the id of one that was announced before it (a hidden replacement).
Twin(e) ==
  /\ entity[e].kind.hidden /\ \A t \in Threads : move[t].ent # e
  /\ \E f \in 1..made : TwinOf(e, f)

\* What is live or arrives has a negative id, given out already; the arrivals
\* do not lead to a notification before it is announced, unless by its twin's id.
ArrivalInv ==
  /\ \A e \in 1..made : entity[e].type = "NotProcessed" =>
        \/ e = notifying /\ stage = "replacing"
        \/ memId <= entity[e].id /\ entity[e].id < 0
  /\ \A e \in mem : entity[e].slot # 0
  /\ \A n \in 1..Len(events) : events[n].type = "NotProcessed" =>
        memId <= events[n].id /\ events[n].id < 0
  /\ stage = "stored" /\ notifying \in mem =>
        Twin(notifying) \/ ~Arriving(entity[notifying].id)

\* The banners are for notifications that were announced, or whose id was.
BannerInv ==
  \A e \in Panel!Shown \cup Panel!Queued :
    /\ e \in 1..made /\ entity[e].slot # 0
    /\ e = notifying => stage # "replacing"
    /\ e = notifying /\ stage = "stored" =>
         Twin(e) /\ \E f \in 1..made : TwinOf(e, f) /\ move["main"].ent # f

\* A move that saved its notification, or cannot fail to, has taken what has its id.
Cleared ==
  \A t \in Threads :
    move[t].at = "finishing" /\ (move[t].row # None \/ FALSE \notin DbOutcomes) =>
      \A f \in mem : entity[f].id # move[t].id

\* What is in memory is live or moves, if no INSERT fails.
HeldInv ==
  FALSE \notin DbOutcomes =>
    \A e \in mem : entity[e].type = "NotProcessed" \/ \E t \in Threads : move[t].ent = e

\* What the arrivals, the names and the store promise together.
LinkInv ==
  StoreInv /\ events \in Seq(Ann) /\ ArrivalInv /\ BannerInv /\ Cleared /\ HeldInv

-----------------------------------------------------------------------------
(* What a step of the server does, as far as the banners can tell.            *)

\* The move of t is left alone, ends, begins, or goes on.
MoveGoes(t) ==
  \/ move'[t] = move[t]
  \/ move'[t] = NoMove /\ move[t].at = "finishing" /\ (t = "worker" => stage # "replacing")
  \/ /\ move[t].at = "none" /\ move'[t].at = "typed" /\ move'[t].ent \in mem
     /\ ~entity[move'[t].ent].kind.hidden
  \/ /\ move[t].at = "typed" /\ move'[t].at = "inserted"
     /\ move'[t].ent = move[t].ent /\ move'[t].id = move[t].id
  \/ /\ move[t].at # "none" /\ move'[t].at = "finishing"
     /\ move'[t].ent = move[t].ent /\ move'[t].id = move[t].id
     /\ mem' = mem \ InMemory(move[t].id) \/ (move'[t].row = None /\ FALSE \in DbOutcomes)

\* What a step does to e that neither creates nor announces it: nothing, it leaves memory or
\* begins to, or it gets the id of its row.
Aged(e) ==
  /\ entity'[e].slot = entity[e].slot /\ entity'[e].kind = entity[e].kind
  /\ entity'[e].bubble = entity[e].bubble
  /\ \/ entity'[e].id = entity[e].id /\ entity'[e].type = entity[e].type
     \/ /\ e \in mem /\ entity'[e].id = entity[e].id /\ entity'[e].type # "NotProcessed"
        /\ e \in mem' => \E t \in Threads : move'[t].ent = e
     \/ /\ e \notin mem /\ entity'[e].type = entity[e].type /\ entity'[e].id > 0
        /\ \E t \in Threads : move[t].at = "finishing" /\ move[t].row # None /\ move[t].ent = e

\* A step that creates nothing.
Moved ==
  /\ UNCHANGED <<made, memId>> /\ mem' \subseteq mem
  /\ \A e \in 1..made : Aged(e)
  /\ \A t \in Threads : MoveGoes(t)

\* What it announces is no arrival, and is about none that stays.
Told ==
  \/ changed' = <<>>
  \/ \E c \in Ann : /\ changed' = <<c>> /\ c.type # "NotProcessed" /\ memId <= c.id
                    /\ FALSE \notin DbOutcomes => \A f \in mem' : entity'[f].id # c.id

\* The ids of the stores.
LEMMA StoreIds ==
  ASSUME IInv, StoreInv
  PROVE  /\ memId \in Int /\ memId <= 0 /\ lastRow + 1 > 0
         /\ \A f \in mem : entity[f].id \in Int /\ memId <= entity[f].id /\ entity[f].id < 0
         /\ \A r \in db : r.id \in Int /\ r.id > 0 /\ memId <= r.id
         /\ \A e, f \in mem : entity[e].id = entity[f].id => e = f
<1>1. /\ lastRow \in Nat /\ memId \in Int /\ mem \subseteq Entities
      /\ \A r \in db : r.id \in Nat
      /\ \A e \in Entities : entity[e].id \in Int
  BY NumberFacts
<1>2. /\ memId <= 0 /\ \A r \in db : 0 < r.id
      /\ \A f \in mem : memId <= entity[f].id /\ entity[f].id < 0
      /\ \A e, f \in mem : entity[e].id = entity[f].id => e = f
  BY DEF StoreInv, IdsInv, RowsInv
<1> QED
  BY <1>1, <1>2

\* Settling an id is such a step; nothing that is live keeps that id.
LEMMA SettledMoves ==
  ASSUME IInv, StoreInv, NEW t \in Threads, NEW D, NEW i, Settled(t, D, i),
         move'[t] = move[t] \/ ~entity[move'[t].ent].kind.hidden, UNCHANGED <<made, memId>>
  PROVE  /\ Moved /\ Told
         /\ \A f \in mem : entity[f].id = i => f \notin mem' \/ entity'[f].type # "NotProcessed"
<1>1. /\ mem \subseteq 1..made /\ 1..made \subseteq Entities
      /\ memId \in Int /\ memId <= 0
      /\ \A f \in mem : entity[f].id \in Int /\ memId <= entity[f].id /\ entity[f].id < 0
      /\ \A r \in db : r.id \in Int /\ r.id > 0 /\ memId <= r.id
      /\ \A e, f \in mem : entity[e].id = entity[f].id => e = f
  BY NumberFacts, StoreIds
<1>2. ASSUME NEW x \in mem, entity[x].id = i, Dropped(D, x)
      PROVE  /\ Moved /\ Told
             /\ \A f \in mem : entity[f].id = i => f \notin mem'
  <2>1. /\ \A f \in Entities : f # x => entity'[f] = entity[f]
        /\ entity'[x].slot = entity[x].slot /\ entity'[x].kind = entity[x].kind
        /\ entity'[x].bubble = entity[x].bubble
        /\ entity'[x].id = entity[x].id /\ entity'[x].type \in {"Processed", "Removed"}
        /\ changed' = <<[id |-> entity'[x].id, type |-> entity'[x].type]>>
        /\ mem' = mem \ {x} /\ move' = move
    BY <1>2 DEF Dropped
  <2>2. \A e \in 1..made : Aged(e)
    BY <1>1, <2>1 DEF Aged
  <2>3. Moved
    BY <2>1, <2>2 DEF Moved, MoveGoes
  <2>4. Told
    <3>1. PICK c : c = [id |-> entity'[x].id, type |-> entity'[x].type]
      OBVIOUS
    <3>2. c \in Ann /\ c.id = entity[x].id /\ c.type # "NotProcessed" /\ changed' = <<c>>
      BY <1>1, <2>1, <3>1 DEF Ann, Types
    <3>3. \A f \in mem' : entity'[f].id # c.id
      BY <1>1, <2>1, <3>2
    <3> QED
      BY <1>1, <3>2, <3>3 DEF Told
  <2> QED
    BY <1>1, <1>2, <2>1, <2>3, <2>4
<1>3. ASSUME NEW x \in mem, entity[x].id = i, Begun(t, x), changed' = <<>>
      PROVE  /\ Moved /\ Told
             /\ \A f \in mem : entity[f].id = i => entity'[f].type # "NotProcessed"
  <2>1. /\ \A f \in 1..made : f # x => entity'[f] = entity[f]
        /\ entity'[x].slot = entity[x].slot /\ entity'[x].kind = entity[x].kind
        /\ entity'[x].bubble = entity[x].bubble
        /\ entity'[x].id = entity[x].id /\ entity'[x].type = "Processed"
        /\ move[t] = NoMove
        /\ move'[t] = [at |-> "typed", ent |-> x, id |-> entity[x].id, row |-> None]
        /\ \A u \in Threads : u # t => move'[u] = move[u]
        /\ mem' = mem
    BY <1>3 DEF Begun
  <2>2. move'[t].ent = x /\ move'[t].at = "typed" /\ move[t].at = "none"
    BY <2>1 DEF NoMove
  <2>3. \A e \in 1..made : Aged(e)
    BY <1>1, <2>1, <2>2 DEF Aged
  <2>4. \A u \in Threads : MoveGoes(u)
    <3>1. MoveGoes(t)
      BY <2>2 DEF MoveGoes
    <3> QED
      BY <2>1, <3>1 DEF MoveGoes
  <2> QED
    BY <1>1, <1>3, <2>1, <2>3, <2>4 DEF Moved, Told
<1>4. ASSUME \A e \in mem : entity[e].id # i, NEW r \in db, RowSettled(D, r)
      PROVE  Moved /\ Told
  <2>1. UNCHANGED <<entity, mem, move>>
    BY <1>4 DEF RowSettled
  <2>2. PICK ty \in {"Processed", "Removed"} : changed' = <<[id |-> r.id, type |-> ty]>>
    BY <1>4 DEF RowSettled
  <2>3. Told
    <3>1. PICK c : c = [id |-> r.id, type |-> ty]
      OBVIOUS
    <3>2. c \in Ann /\ c.id = r.id /\ c.type # "NotProcessed" /\ changed' = <<c>>
      BY <1>1, <2>2, <3>1 DEF Ann, Types
    <3>3. c.id \in Int /\ c.id > 0 /\ memId <= c.id
      BY <1>1, <3>2
    <3>4. \A f \in mem : entity[f].id # c.id
      BY <1>1, <3>3
    <3> QED
      BY <2>1, <3>2, <3>3, <3>4 DEF Told
  <2>4. Moved
    BY <2>1 DEF Moved, MoveGoes, Aged
  <2> QED
    BY <2>3, <2>4
<1>5. CASE /\ \A e \in mem : entity[e].id # i
           /\ changed' = <<>> /\ UNCHANGED <<entity, mem, move>>
  BY <1>5 DEF Moved, Told, MoveGoes, Aged
<1> QED
  BY <1>2, <1>3, <1>4, <1>5 DEF Settled

\* What a call begins to move is shown in the center.
LEMMA SettleShows ==
  ASSUME IInv, NEW t \in Threads, NEW D, NEW i, NEW next, Settle(t, D, i, next)
  PROVE  move'[t] = move[t] \/ ~entity[move'[t].ent].kind.hidden
<1>1. move \in [Threads -> Move]
  BY DEF IInv, TypeOK
<1>2. ASSUME NEW e, NEW ty, SettleLive(t, D, e, ty)
      PROVE  move'[t] = move[t] \/ ~entity[move'[t].ent].kind.hidden
  <2>1. CASE entity[e].kind.hidden
    <3>1. \A show \in Shown(entity[e].kind) : show = FALSE
      BY <2>1 DEF Shown
    <3>2. PICK show \in Shown(entity[e].kind) :
            \/ Drop(t, D, e, ty)
            \/ show
      BY <1>2 DEF SettleLive
    <3> QED
      BY <3>1, <3>2 DEF Drop
  <2>2. CASE ~entity[e].kind.hidden
    <3>1. UNCHANGED move \/ BeginMove(t, e, ty, entity)
      BY <1>2 DEF SettleLive, Drop
    <3>2. CASE BeginMove(t, e, ty, entity)
      <4>1. move'[t].ent = e
        BY <1>1, <3>2 DEF BeginMove
      <4> QED
        BY <2>2, <4>1
    <3> QED
      BY <3>1, <3>2
  <2> QED
    BY <2>1, <2>2
<1>3. ASSUME NEW r, NEW ty, SettleRow(t, D, r, ty)
      PROVE  move'[t] = move[t]
  BY <1>3 DEF SettleRow, moves
<1> QED
  BY <1>2, <1>3 DEF Settle, moves

-----------------------------------------------------------------------------
(* Every step of the server is such a step or one of a Notify call.           *)

\* The call under way, if any, does not come to be announced or stored.
SameCall == UNCHANGED call \/ (stage = "announced" /\ stage' = "idle")

\* A step that leaves the store alone and tells nothing.
LEMMA SilentMoves ==
  ASSUME UNCHANGED <<made, entity, memId, move>>, mem' \subseteq mem, changed' = <<>>
  PROVE  Moved /\ Told
BY DEF Moved, Told, Aged, MoveGoes

\* A call of the thread t that settles an id.
LEMMA SettleMoves ==
  ASSUME IInv, StoreInv, NEW t \in Threads, move[t] = NoMove,
         NEW D \in [Threads -> SUBSET Entities], NEW i,
         NEW next \in [Types -> {"Processed", "Removed"}], Settle(t, D, i, next),
         UNCHANGED <<made, memId>>
  PROVE  /\ Moved /\ Told
         /\ \A f \in mem : entity[f].id = i => f \notin mem' \/ entity'[f].type # "NotProcessed"
<1>1. Settled(t, D, i)
  BY Settles
<1>2. move'[t] = move[t] \/ ~entity[move'[t].ent].kind.hidden
  BY SettleShows
<1> QED
  BY <1>1, <1>2, SettledMoves

\* The loop over what is due, on either thread.
LEMMA DueMoves ==
  ASSUME IInv, StoreInv, NEW t \in Threads, HandleDue(t)
  PROVE  Moved /\ Told /\ UNCHANGED call
<1>1. PICK d \in due[t] :
        \/ UNCHANGED <<entity, mem, move>> /\ changed' = <<>>
        \/ Settle(t, [due EXCEPT ![t] = @ \ {d}], entity[d].id, ClosedType("Expired"))
  BY DEF HandleDue, moves
<1>2. UNCHANGED <<made, memId, call>> /\ move[t] = NoMove
  BY DEF HandleDue
<1>3. CASE UNCHANGED <<entity, mem, move>> /\ changed' = <<>>
  BY <1>2, <1>3, SilentMoves
<1>4. CASE Settle(t, [due EXCEPT ![t] = @ \ {d}], entity[d].id, ClosedType("Expired"))
  <2>1. PICK D : D = [due EXCEPT ![t] = @ \ {d}]
    OBVIOUS
  <2>2. D \in [Threads -> SUBSET Entities]
    BY <2>1 DEF IInv, TypeOK
  <2>3. ClosedType("Expired") \in [Types -> {"Processed", "Removed"}]
    BY DEF ClosedType, Types
  <2> QED
    BY <1>2, <1>4, <2>1, <2>2, <2>3, SettleMoves
<1> QED
  BY <1>1, <1>3, <1>4

\* A call for one id moves it away.
LEMMA CallMoves ==
  ASSUME IInv, StoreInv, NEW i,
         ActionInvoked(i) \/ \E reason : NotificationClosed(i, reason)
  PROVE  /\ Moved /\ Told /\ UNCHANGED call
         /\ \A f \in mem : entity[f].id = i => f \notin mem' \/ entity'[f].type # "NotProcessed"
<1>1. PICK next \in [Types -> {"Processed", "Removed"}] : Settle("main", due, i, next)
  <2>1. AsRemoved \in [Types -> {"Processed", "Removed"}]
    BY DEF AsRemoved
  <2>2. \A reason : ClosedType(reason) \in [Types -> {"Processed", "Removed"}]
    BY DEF ClosedType
  <2> QED
    BY <2>1, <2>2 DEF ActionInvoked, NotificationClosed
<1>2. UNCHANGED <<made, memId, call>> /\ move["main"] = NoMove
  BY DEF ActionInvoked, NotificationClosed, Idle
<1>3. "main" \in Threads /\ due \in [Threads -> SUBSET Entities]
  BY DEF Threads, IInv, TypeOK
<1> QED
  BY <1>1, <1>2, <1>3, SettleMoves

\* What the center does moves at most rows.
LEMMA CenterMoves ==
  ASSUME IInv, StoreInv, Center
  PROVE  Moved /\ Told /\ UNCHANGED call
<1>1. ASSUME NEW i, RemoveNotification(i)
      PROVE  Moved /\ Told /\ UNCHANGED call
  <2>1. UNCHANGED <<heap, memId, move, call>> /\ mem' \subseteq mem /\ changed' = <<>>
    BY <1>1 DEF RemoveNotification, moves
  <2> QED
    BY <2>1, SilentMoves DEF heap
<1>2. ASSUME NEW R, RemoveRows(R)
      PROVE  Moved /\ Told /\ UNCHANGED call
  <2>1. UNCHANGED <<heap, mem, memId, move, call>> /\ changed' = <<>>
    BY <1>2 DEF RemoveRows, moves
  <2> QED
    BY <2>1, SilentMoves DEF heap
<1> QED
  BY <1>1, <1>2, CallMoves DEF Center, RemoveByApp, RemoveAll, RemoveExpired

\* The INSERT and the removal of a move.
LEMMA GoingMoves ==
  ASSUME IInv, StoreInv, NEW t \in Threads, Insert(t) \/ Take(t)
  PROVE  Moved /\ Told /\ UNCHANGED call
<1>1. /\ UNCHANGED <<made, entity, memId, call>> /\ mem' \subseteq mem /\ changed' = <<>>
  BY DEF Insert, Take, heap
<1>2. MoveGoes(t) /\ \A u \in Threads : u # t => move'[u] = move[u]
  <2>1. CASE /\ move[t].at = "typed"
             /\ move' = [move EXCEPT ![t].at = "inserted", ![t].row = lastRow + 1]
    <3>1. move'[t].at = "inserted" /\ move'[t].ent = move[t].ent /\ move'[t].id = move[t].id
          /\ \A u \in Threads : u # t => move'[u] = move[u]
      BY <2>1, MovingMoves
    <3> QED
      BY <2>1, <3>1 DEF MoveGoes
  <2>2. CASE /\ move[t].at # "none" /\ move' = [move EXCEPT ![t].at = "finishing"]
             /\ mem' = mem \ InMemory(move[t].id) \/ (move[t].row = None /\ FALSE \in DbOutcomes)
    <3>1. /\ move'[t].at = "finishing" /\ move'[t].ent = move[t].ent /\ move'[t].id = move[t].id
          /\ move'[t].row = move[t].row
          /\ \A u \in Threads : u # t => move'[u] = move[u]
      BY <2>2, MovingMoves
    <3> QED
      BY <2>2, <3>1 DEF MoveGoes
  <2>3. move[t].at = "typed" => move[t].row = None
    BY DEF StoreInv, MoveInv, MovesWell
  <2> QED
    BY <2>1, <2>2, <2>3 DEF Insert, Take
<1> QED
  BY <1>1, <1>2 DEF Moved, Told, Aged, MoveGoes

\* The end of a move.
LEMMA FinishMoves ==
  ASSUME IInv, StoreInv, Cleared, NEW t \in Threads, Finish(t)
  PROVE  Moved /\ Told /\ UNCHANGED call
<1> DEFINE x == move[t].ent
<1>1. /\ move[t].at = "finishing" /\ (t = "worker" => stage # "replacing")
      /\ UNCHANGED <<made, mem, memId, call>> /\ move' = [move EXCEPT ![t] = NoMove]
  BY DEF Finish
<1>2. PICK ent : ent = WithRowId(t)
  OBVIOUS
<1>3. /\ entity' = ent /\ changed' = <<[id |-> ent[x].id, type |-> ent[x].type]>>
  BY <1>2 DEF Finish
<1>4. /\ TypeOK /\ x \in Entities /\ x \in 1..made /\ 1..made \subseteq Entities
      /\ mem \subseteq 1..made
      /\ move[t].row \in Nat /\ move[t].id \in Int /\ move \in [Threads -> Move]
  BY <1>1, NumberFacts DEF IInv, TypeOK
<1>5. /\ ent \in [Entities -> Data]
      /\ \A f \in Entities : f # x => ent[f] = entity[f]
      /\ ent[x].id = IF move[t].row = None THEN entity[x].id ELSE move[t].row
      /\ \A f \in Entities : /\ ent[f].bubble = entity[f].bubble
                             /\ ent[f].type = entity[f].type
                             /\ ent[f].kind = entity[f].kind
                             /\ ent[f].slot = entity[f].slot
  BY <1>2, <1>4, RowIdFacts
<1>6. /\ entity[x].type # "NotProcessed" /\ memId <= move[t].id
      /\ entity[x].id = move[t].id \/ entity[x].id > 0
      /\ move[t].row # None => x \notin mem
  BY <1>1 DEF StoreInv, MoveInv, MovesWell
<1>7. move[t].row # None => move[t].row > 0
  BY <1>4 DEF None
<1>8. /\ \A f \in mem : entity[f].id \in Int /\ entity[f].id < 0
      /\ memId \in Int /\ memId <= 0 /\ ent[x].id \in Int /\ entity[x].id \in Int
  BY <1>4, <1>5, StoreIds DEF TypeOK, Data
<1>9. ent[x].id = move[t].id \/ ent[x].id > 0
  BY <1>5, <1>6, <1>7
<1> HIDE DEF x
<1>10. ASSUME NEW e \in 1..made PROVE Aged(e)
  <2>1. CASE e # x \/ move[t].row = None
    BY <1>3, <1>4, <1>5, <2>1 DEF Aged
  <2>2. CASE e = x /\ move[t].row # None
    <3>1. e \notin mem /\ entity'[e].id > 0
      BY <1>3, <1>5, <1>6, <1>7, <2>2
    <3> QED
      BY <1>1, <1>3, <1>4, <1>5, <2>2, <3>1 DEF Aged, x
  <2> QED
    BY <2>1, <2>2
<1>11. \A u \in Threads : MoveGoes(u)
  <2>1. move'[t] = NoMove /\ \A u \in Threads : u # t => move'[u] = move[u]
    BY <1>1, <1>4
  <2> QED
    BY <1>1, <2>1 DEF MoveGoes
<1>12. Told
  <2>1. PICK c : c = [id |-> ent[x].id, type |-> ent[x].type]
    OBVIOUS
  <2>2. c \in Ann /\ c.id = ent[x].id /\ c.type # "NotProcessed" /\ changed' = <<c>>
    BY <1>3, <1>4, <1>5, <1>6, <2>1 DEF Ann, Data
  <2>3. memId <= c.id
    BY <1>6, <1>8, <1>9, <2>2
  <2>4. ASSUME FALSE \notin DbOutcomes, NEW f \in mem PROVE entity[f].id # c.id
    <3>1. entity[f].id # move[t].id
      BY <1>1, <2>4 DEF Cleared
    <3> QED
      BY <1>8, <1>9, <2>2, <3>1
  <2>5. \A f \in mem : ent[f].id = entity[f].id
    BY <1>2, <1>1, <1>4, MovedId
  <2> QED
    BY <1>1, <1>3, <2>2, <2>3, <2>4, <2>5 DEF Told
<1> QED
  BY <1>1, <1>10, <1>11, <1>12 DEF Moved

\* Nothing is lost by the database and nothing is kept out of it: every row that
\* is wanted is written.
Reliable == FALSE \notin DbOutcomes /\ \A k \in Kinds : ~k.bluetooth

\* A Notify creates one: quiet, with the next negative id, or in the place of one
\* that leaves memory.
Arrived ==
  /\ stage = "idle" /\ made < MaxEntities /\ made' = made + 1
  /\ notifying' = made + 1 /\ stage' = "stored" /\ changed' = <<>>
  /\ move' = move /\ \A e \in 1..made : entity'[e] = entity[e]
  /\ \/ /\ mem' = mem /\ memId' = memId /\ entity'[made + 1].type # "NotProcessed"
        /\ Reliable => entity'[made + 1].id > 0
     \/ /\ mem' = mem \cup {made + 1} /\ memId' = memId - 1
        /\ entity'[made + 1].type = "NotProcessed" /\ entity'[made + 1].id = memId - 1
        /\ entity'[made + 1].slot = made + 1 /\ entity'[made + 1].bubble = replaces + 1
     \/ /\ memId' = memId /\ entity'[made + 1].type = "NotProcessed"
        /\ entity'[made + 1].kind.hidden
        /\ \E old \in mem : /\ mem' = (mem \ {old}) \cup {made + 1}
                            /\ move["worker"] = NoMove
                            /\ entity'[made + 1].id = entity[old].id
                            /\ entity'[made + 1].slot = entity[old].slot
                            /\ entity'[made + 1].bubble = entity[old].bubble

\* Or it creates one that waits for the move of the last of its bubble ...
Begins ==
  /\ stage = "idle" /\ made < MaxEntities /\ made' = made + 1
  /\ notifying' = made + 1 /\ stage' = "replacing" /\ changed' = <<>>
  /\ UNCHANGED <<mem, memId>>
  /\ entity'[made + 1].type = "NotProcessed" /\ entity'[made + 1].slot = made + 1
  /\ entity'[made + 1].id = None
  /\ \E old \in mem :
       /\ \A e \in 1..made : e # old => entity'[e] = entity[e]
       /\ entity'[old].slot = entity[old].slot /\ entity'[old].kind = entity[old].kind
       /\ entity'[old].bubble = entity[old].bubble /\ entity'[old].id = entity[old].id
       /\ entity'[old].type = "Processed"
       /\ entity'[made + 1].bubble = entity[old].bubble
       /\ move["worker"] = NoMove /\ move'["worker"].at = "typed"
       /\ move'["worker"].ent = old /\ move'["main"] = move["main"]

\* ... and joins the live ones at the end of that.
Joins ==
  /\ stage = "replacing" /\ stage' = "stored" /\ changed' = <<>>
  /\ UNCHANGED <<made, notifying>>
  /\ mem' = mem \cup {notifying} /\ memId' = memId - 1
  /\ move["worker"].at = "finishing" /\ move'["worker"] = NoMove
  /\ move'["main"] = move["main"]
  /\ \A e \in 1..made : e # notifying => Aged(e)
  /\ entity'[notifying].id = memId - 1 /\ entity'[notifying].slot = notifying
  /\ entity'[notifying].type = "NotProcessed"
  /\ entity'[notifying].bubble = entity[notifying].bubble

\* Notify of a new notification ...
LEMMA NewArrives ==
  ASSUME IInv, StoreInv, NEW k \in Kinds, NEW quiet \in BOOLEAN, NotifyNew(k, quiet)
  PROVE  Arrived
<1>1. /\ stage = "idle" /\ made < MaxEntities /\ made' = made + 1
      /\ notifying' = made + 1 /\ stage' = "stored" /\ changed' = <<>> /\ move' = move
      /\ AddNewLive(k) \/ AddNewQuiet(k)
  BY DEF NotifyNew, Idle, moves
<1>2. /\ made + 1 \in Entities /\ made + 1 \notin 1..made /\ 1..made \subseteq Entities
      /\ lastRow \in Nat /\ entity \in [Entities -> Data]
  BY <1>1, BeforeNotify DEF IInv, TypeOK
<1>3. CASE AddNewLive(k)
  <2> DEFINE n == Fresh(k, replaces + 1, FALSE, memId - 1, "NotProcessed", made + 1)
  <2>1. /\ n.type = "NotProcessed" /\ n.id = memId - 1 /\ n.slot = made + 1
        /\ n.bubble = replaces + 1
    BY DEF Fresh
  <2>2. entity' = [entity EXCEPT ![made + 1] = n]
    BY <1>3 DEF AddNewLive
  <2>3. mem' = mem \cup {made + 1} /\ memId' = memId - 1
    BY <1>3 DEF AddNewLive, AddLive
  <2> HIDE DEF n
  <2>4. entity'[made + 1] = n /\ \A e \in 1..made : entity'[e] = entity[e]
    BY <1>2, <2>2
  <2> QED
    BY <1>1, <2>1, <2>3, <2>4 DEF Arrived
<1>4. CASE AddNewQuiet(k)
  <2>1. PICK ok \in DbOutcomes :
          entity' = [entity EXCEPT ![made + 1] =
            Fresh(k, replaces + 1, FALSE,
                  IF ok /\ ~k.bluetooth THEN lastRow + 1 ELSE -1, "Processed", 0)]
    BY <1>4 DEF AddNewQuiet
  <2> DEFINE i == IF ok /\ ~k.bluetooth THEN lastRow + 1 ELSE -1
             n == Fresh(k, replaces + 1, FALSE, i, "Processed", 0)
  <2>2. n.type = "Processed" /\ n.id = i
    BY DEF Fresh
  <2>3. Reliable => i > 0
    <3>1. Reliable => ok = TRUE /\ ~k.bluetooth
      BY ChoicesAssumption DEF Reliable
    <3>2. lastRow + 1 > 0
      BY <1>2
    <3> QED
      BY <3>1, <3>2
  <2>4. entity' = [entity EXCEPT ![made + 1] = n]
    BY <2>1
  <2>5. mem' = mem /\ memId' = memId
    BY <1>4 DEF AddNewQuiet
  <2> HIDE DEF n, i
  <2>6. entity'[made + 1] = n /\ \A e \in 1..made : entity'[e] = entity[e]
    BY <1>2, <2>4
  <2> QED
    BY <1>1, <2>2, <2>3, <2>5, <2>6 DEF Arrived
<1> QED
  BY <1>1, <1>3, <1>4

\* ... and of a replacement.
LEMMA ReplacementArrives ==
  ASSUME IInv, StoreInv, NEW k \in Kinds, NEW b \in 1..replaces, NotifyReplace(k, b)
  PROVE  Arrived \/ Begins
<1>1. /\ stage = "idle" /\ made < MaxEntities /\ made' = made + 1
      /\ notifying' = made + 1 /\ changed' = <<>> /\ memId' = memId
      /\ move["worker"] = NoMove
  BY DEF NotifyReplace, Idle
<1>2. PICK old \in LastOfBubble(b) :
        ReplaceInPlace(k, b, old) \/ ReplaceByMoving(k, b, old)
  BY DEF NotifyReplace
<1>3. old \in mem /\ entity[old].bubble = b
  BY DEF LastOfBubble
<1>4. /\ made + 1 \in Entities /\ made + 1 \notin 1..made /\ 1..made \subseteq Entities
      /\ mem \subseteq 1..made /\ entity \in [Entities -> Data]
      /\ move \in [Threads -> Move]
  BY <1>1, BeforeNotify DEF IInv, TypeOK
<1>5. CASE ReplaceInPlace(k, b, old)
  <2> DEFINE n == Fresh(k, b, TRUE, entity[old].id, "NotProcessed", entity[old].slot)
  <2>1. /\ n.type = "NotProcessed" /\ n.id = entity[old].id /\ n.slot = entity[old].slot
        /\ n.bubble = b /\ n.kind = k
    BY DEF Fresh
  <2>2. /\ entity' = [entity EXCEPT ![made + 1] = n] /\ k.hidden
        /\ mem' = (mem \ {old}) \cup {made + 1} /\ stage' = "stored" /\ move' = move
    BY <1>5 DEF ReplaceInPlace
  <2> HIDE DEF n
  <2>3. entity'[made + 1] = n /\ \A e \in 1..made : entity'[e] = entity[e]
    BY <1>4, <2>2
  <2> QED
    BY <1>1, <1>3, <2>1, <2>2, <2>3 DEF Arrived
<1>6. CASE ReplaceByMoving(k, b, old)
  <2> DEFINE n == Fresh(k, b, TRUE, None, "NotProcessed", made + 1)
             m == [at |-> "typed", ent |-> old, id |-> entity[old].id, row |-> None]
  <2>1. /\ n.type = "NotProcessed" /\ n.id = None /\ n.slot = made + 1 /\ n.bubble = b
        /\ m.at = "typed" /\ m.ent = old
    BY DEF Fresh
  <2>2. /\ entity' = [[entity EXCEPT ![made + 1] = n] EXCEPT ![old].type = "Processed"]
        /\ move' = [move EXCEPT !["worker"] = m]
        /\ mem' = mem /\ stage' = "replacing"
    BY <1>6 DEF ReplaceByMoving, BeginMove
  <2> HIDE DEF n, m
  <2>3. old \in 1..made /\ old # made + 1 /\ old \in Entities
    BY <1>3, <1>4
  <2>4. /\ entity'[made + 1] = n /\ \A e \in 1..made : e # old => entity'[e] = entity[e]
        /\ entity'[old] = [entity[old] EXCEPT !.type = "Processed"]
    <3>1. PICK mid : mid = [entity EXCEPT ![made + 1] = n]
      OBVIOUS
    <3>2. /\ mid[made + 1] = n /\ \A e \in 1..made : mid[e] = entity[e]
          /\ DOMAIN mid = Entities
      BY <1>4, <3>1
    <3>3. entity' = [mid EXCEPT ![old] = [@ EXCEPT !.type = "Processed"]]
      BY <2>2, <3>1
    <3> QED
      BY <1>4, <2>3, <3>2, <3>3
  <2>5. /\ entity'[old].slot = entity[old].slot /\ entity'[old].kind = entity[old].kind
        /\ entity'[old].bubble = entity[old].bubble /\ entity'[old].id = entity[old].id
        /\ entity'[old].type = "Processed"
    BY <1>4, <2>3, <2>4 DEF Data
  <2>6. move'["worker"] = m /\ move'["main"] = move["main"]
    BY <1>4, <2>2 DEF Threads
  <2> QED
    BY <1>1, <1>3, <2>1, <2>2, <2>4, <2>5, <2>6 DEF Begins
<1> QED
  BY <1>2, <1>5, <1>6

\* The replacement whose old one has moved.
LEMMA ReplacementJoins ==
  ASSUME IInv, StoreInv, AddReplacement
  PROVE  Joins
<1> DEFINE x == move["worker"].ent
<1>1. /\ stage = "replacing" /\ move["worker"].at = "finishing" /\ "worker" \in Threads
      /\ UNCHANGED <<made, notifying>> /\ stage' = "stored" /\ changed' = <<>>
      /\ mem' = mem \cup {notifying} /\ memId' = memId - 1
      /\ move' = [move EXCEPT !["worker"] = NoMove]
  BY DEF AddReplacement, AddLive, Threads
<1>2. PICK ent : ent = WithRowId("worker")
  OBVIOUS
<1>3. entity' = [ent EXCEPT ![notifying] = [@ EXCEPT !.id = memId - 1]]
  BY <1>2 DEF AddReplacement
<1>4. /\ TypeOK /\ x \in Entities /\ x \in 1..made /\ 1..made \subseteq Entities
      /\ move["worker"].row \in Nat /\ move \in [Threads -> Move] /\ memId \in Int
      /\ notifying \in Entities
  BY <1>1, NumberFacts DEF IInv, TypeOK, Created
<1>5. /\ x # notifying /\ entity[notifying].type = "NotProcessed"
      /\ entity[notifying].slot = notifying
  BY <1>1 DEF StoreInv, WaitInv
<1>6. /\ ent \in [Entities -> Data]
      /\ \A f \in Entities : f # x => ent[f] = entity[f]
      /\ ent[x].id = IF move["worker"].row = None THEN entity[x].id ELSE move["worker"].row
      /\ \A f \in Entities : /\ ent[f].bubble = entity[f].bubble
                             /\ ent[f].type = entity[f].type
                             /\ ent[f].kind = entity[f].kind
                             /\ ent[f].slot = entity[f].slot
  BY <1>1, <1>2, <1>4, RowIdFacts
<1>7. move["worker"].row # None => x \notin mem /\ move["worker"].row > 0
  BY <1>1, <1>4 DEF StoreInv, MoveInv, MovesWell, None
<1>8. /\ \A f \in Entities : f # notifying => entity'[f] = ent[f]
      /\ entity'[notifying].id = memId - 1
      /\ entity'[notifying].type = entity[notifying].type
      /\ entity'[notifying].slot = entity[notifying].slot
      /\ entity'[notifying].bubble = entity[notifying].bubble
  BY <1>3, <1>4, <1>6 DEF Data
<1> HIDE DEF x
<1>9. ASSUME NEW e \in 1..made, e # notifying PROVE Aged(e)
  <2>1. CASE e # x \/ move["worker"].row = None
    BY <1>4, <1>6, <1>8, <1>9, <2>1 DEF Aged
  <2>2. CASE e = x /\ move["worker"].row # None
    <3>1. e \notin mem /\ entity'[e].id > 0
      BY <1>4, <1>6, <1>7, <1>8, <1>9, <2>2
    <3> QED
      BY <1>1, <1>4, <1>6, <1>8, <1>9, <2>2, <3>1 DEF Aged, x
  <2> QED
    BY <2>1, <2>2
<1>10. move'["worker"] = NoMove /\ move'["main"] = move["main"]
  BY <1>1, <1>4 DEF Threads
<1> QED
  BY <1>1, <1>5, <1>8, <1>9, <1>10 DEF Joins

\* The worker queues what it tells: an announcement, what a Notify brings, or the rest.
LEMMA WorkerMoves ==
  ASSUME IInv, StoreInv, Cleared, WorkerStep
  PROVE  Announce \/ Arrived \/ Begins \/ Joins \/ (Moved /\ Told /\ SameCall)
<1> USE DEF Threads
<1>1. CASE Client
  <2>1. ASSUME NEW b \in 1..replaces, CloseNotification(b)
        PROVE  Moved /\ Told /\ SameCall
    <3>1. PICK e \in LastOfBubble(b) : SettleLive("worker", due, e, "Removed")
      BY <2>1 DEF CloseNotification
    <3>2. /\ e \in mem /\ "Removed" \in {"Processed", "Removed"} /\ "worker" \in Threads
          /\ due \in [Threads -> SUBSET Entities] /\ TypeOK /\ move["worker"] = NoMove
          /\ \A f \in 1..made : f \in Entities
      BY <2>1, NumberFacts DEF LastOfBubble, IInv, TypeOK, CloseNotification, Idle
    <3>3. Settle("worker", due, entity[e].id, AsRemoved)
      <4>1. AsRemoved[entity[e].type] = "Removed" /\ e \in InMemory(entity[e].id)
        BY <3>2 DEF AsRemoved, InMemory, TypeOK, Data
      <4> QED
        BY <3>1, <4>1 DEF Settle
    <3>4. AsRemoved \in [Types -> {"Processed", "Removed"}]
      BY DEF AsRemoved
    <3>5. UNCHANGED <<made, memId, call>>
      BY <2>1 DEF CloseNotification
    <3> QED
      BY <3>2, <3>3, <3>4, <3>5, SettleMoves DEF SameCall
  <2> QED
    BY <1>1, <2>1, NewArrives, ReplacementArrives DEF Client
<1>2. CASE PushPending
  <2>1. /\ stage = "announced" /\ stage' = "idle" /\ UNCHANGED <<heap, store>>
        /\ changed' = <<>>
    BY <1>2 DEF PushPending
  <2> QED
    BY <2>1, SilentMoves DEF SameCall, heap, store, moves
<1>3. CASE TimerFires \/ StartTimer \/ Tick
  <2>1. UNCHANGED <<heap, store, call>> /\ changed' = <<>>
    BY <1>3 DEF TimerFires, StartTimer, Tick
  <2> QED
    BY <2>1, SilentMoves DEF SameCall, heap, store, moves
<1>4. CASE Insert("worker") \/ Take("worker")
  BY <1>4, GoingMoves DEF SameCall
<1>5. CASE Finish("worker")
  BY <1>5, FinishMoves DEF SameCall
<1>6. CASE HandleDue("worker")
  BY <1>6, DueMoves DEF SameCall
<1>7. CASE AddReplacement
  BY <1>7, ReplacementJoins
<1> QED
  BY <1>1, <1>2, <1>3, <1>4, <1>5, <1>6, <1>7 DEF WorkerStep


-----------------------------------------------------------------------------
(* Names stay good.                                                           *)

\* What a queue of announcements still says of arrivals after the step, it said
\* before.
NoNews ==
  \A n \in 1..Len(events') : events'[n].type = "NotProcessed" =>
     \E m \in 1..Len(events) : events[m] = events'[n]

\* Steps that queue what they tell, that take one from the queue and that leave
\* it bring no arrival.
LEMMA QueuedNoNews ==
  ASSUME events \in Seq(Ann), Told, Queue
  PROVE  events' \in Seq(Ann) /\ NoNews
<1>1. CASE changed' = <<>>
  <2>1. events' = events
    BY <1>1 DEF Queue
  <2> QED
    BY <2>1 DEF NoNews
<1>2. ASSUME NEW c \in Ann, changed' = <<c>>, c.type # "NotProcessed"
      PROVE  events' \in Seq(Ann) /\ NoNews
  <2>1. events' = Append(events, c)
    BY <1>2 DEF Queue
  <2>2. /\ events' \in Seq(Ann) /\ Len(events) \in Nat /\ Len(events') = Len(events) + 1
        /\ \A n \in 1..Len(events) : events'[n] = events[n]
        /\ events'[Len(events) + 1] = c
    BY <2>1
  <2>3. \A n \in 1..Len(events') : n \in 1..Len(events) \/ n = Len(events) + 1
    BY <2>2
  <2> QED
    BY <1>2, <2>2, <2>3 DEF NoNews
<1> QED
  BY <1>1, <1>2 DEF Told

\* Neither does taking one from the queue,
LEMMA TakenNoNews ==
  ASSUME events \in Seq(Ann), events # <<>>, events' = Tail(events)
  PROVE  events' \in Seq(Ann) /\ NoNews
<1>1. /\ events' \in Seq(Ann) /\ Len(events) \in Nat /\ Len(events') = Len(events) - 1
      /\ \A n \in 1..(Len(events) - 1) : events'[n] = events[n + 1]
  OBVIOUS
<1>2. ASSUME NEW n \in 1..Len(events')
      PROVE  \E m \in 1..Len(events) : events[m] = events'[n]
  <2>1. n + 1 \in 1..Len(events) /\ events'[n] = events[n + 1]
    BY <1>1
  <2> QED
    BY <2>1
<1> QED
  BY <1>1, <1>2 DEF NoNews

\* nor leaving it alone.
LEMMA SameNoNews ==
  ASSUME events \in Seq(Ann), UNCHANGED events
  PROVE  events' \in Seq(Ann) /\ NoNews
BY DEF NoNews

\* The numbers the created notifications have.
LEMMA MadeFacts ==
  ASSUME IInv, StoreInv
  PROVE  /\ made \in Nat /\ mem \subseteq 1..made /\ 1..made \subseteq Entities
         /\ memId \in Int /\ memId <= 0 /\ notifying \in 0..made /\ None \notin 1..made
         /\ stage # "idle" => notifying \in 1..made
         /\ \A e \in 1..made : entity[e].id \in Int /\ entity[e].slot \in Nat
         /\ \A e \in mem : memId <= entity[e].id /\ entity[e].id < 0
         /\ \A t \in Threads :
              /\ move[t].id \in Int /\ (move[t].at = "none" => move[t].ent = None)
              /\ move[t].at # "none" => memId <= move[t].id /\ move[t].id < 0
<1>1. /\ made \in Nat /\ mem \subseteq 1..made /\ 1..made \subseteq Entities
      /\ memId \in Int /\ None \notin 1..made
      /\ \A e \in Entities : entity[e].id \in Int /\ entity[e].slot \in Nat
      /\ \A t \in Threads : /\ move[t].id \in Int
                            /\ move[t].at = "none" => move[t].ent = None
  BY NumberFacts
<1>2. /\ notifying \in Entities \cup {None} /\ notifying <= made
      /\ stage # "idle" => notifying # None
  BY DEF IInv, TypeOK, Created
<1>3. notifying \in 0..made /\ (stage # "idle" => notifying \in 1..made)
  BY <1>1, <1>2, BoundsAssumption DEF Entities, None
<1>4. \A t \in Threads : move[t].at # "none" => memId <= move[t].id /\ move[t].id < 0
  BY DEF StoreInv, MoveInv, MovesWell
<1> QED
  BY <1>1, <1>3, <1>4, StoreIds

\* Who ages stays what it was; who is still live, or in memory, keeps its id.
LEMMA AgedFacts ==
  ASSUME IInv, StoreInv, NEW e \in 1..made, Aged(e)
  PROVE  /\ entity'[e].slot = entity[e].slot /\ entity'[e].kind = entity[e].kind
         /\ entity'[e].bubble = entity[e].bubble
         /\ entity'[e].type = "NotProcessed" =>
              entity[e].type = "NotProcessed" /\ entity'[e].id = entity[e].id
         /\ e \in mem => entity'[e].id = entity[e].id
         /\ entity'[e].id = entity[e].id
              \/ /\ entity'[e].id > 0 /\ entity'[e].type # "NotProcessed"
                 /\ \E t \in Threads : /\ move[t].at = "finishing" /\ move[t].row # None
                                       /\ move[t].ent = e
<1>1. \A t \in Threads : move[t].at = "finishing" /\ move[t].ent = e
                           => entity[e].type # "NotProcessed"
  BY DEF StoreInv, MoveInv, MovesWell
<1> QED
  BY <1>1 DEF Aged

\* The call under way is the same one, unless it ends.
LEMMA CallStays ==
  ASSUME SameCall
  PROVE  /\ stage' \in {"stored", "replacing"} => stage' = stage /\ notifying' = notifying
         /\ stage = "replacing" => stage' = stage /\ notifying' = notifying
BY DEF SameCall, call

\* A twin stays one while nothing arrives.
LEMMA TwinStays ==
  ASSUME IInv, StoreInv, Cleared, Moved, NEW e \in 1..made, NEW f \in 1..made,
         entity[e].kind.hidden, \A t \in Threads : move[t].ent # e, TwinOf(e, f),
         e \in mem \/ move["main"].ent # f
  PROVE  /\ entity'[e].kind.hidden /\ (\A t \in Threads : move'[t].ent # e)
         /\ TwinOf(e, f)' /\ (move["main"].ent # f => move'["main"].ent # f)
<1>1. /\ f \notin mem /\ f # e /\ entity[f].slot # 0 /\ entity[f].id = entity[e].id
      /\ move["worker"].ent # f
  BY DEF TwinOf
<1>2. Aged(e) /\ Aged(f) /\ mem' \subseteq mem /\ \A t \in Threads : MoveGoes(t)
  BY DEF Moved
<1>3. /\ None \notin 1..made
      /\ \A t \in Threads : move[t].at = "none" => move[t].ent = None
  BY MadeFacts
<1>4. entity'[e].id = entity[e].id
  BY <1>2, AgedFacts
<1>5. entity'[f].id = entity[f].id
  <2> SUFFICES ASSUME entity'[f].id # entity[f].id PROVE FALSE
    OBVIOUS
  <2>1. PICK t \in Threads : /\ move[t].at = "finishing" /\ move[t].row # None
                             /\ move[t].ent = f
    BY <1>2, AgedFacts
  <2>2. t = "main" /\ e \in mem
    BY <1>1, <2>1 DEF Threads
  <2>3. entity[f].id = move[t].id \/ entity[f].id > 0
    BY <2>1 DEF StoreInv, MoveInv, MovesWell
  <2>4. entity[e].id < 0 /\ entity[e].id \in Int
    BY <2>2, MadeFacts
  <2>5. entity[e].id # move[t].id
    BY <2>1, <2>2 DEF Cleared
  <2> QED
    BY <1>1, <2>3, <2>4, <2>5
<1>6. ASSUME NEW t \in Threads
      PROVE  move'[t].ent # e /\ (move[t].ent # f => move'[t].ent # f)
  <2>1. MoveGoes(t) /\ move[t].ent # e
    BY <1>2
  <2>2. CASE move'[t].ent = move[t].ent
    BY <2>1, <2>2
  <2>3. CASE move'[t] = NoMove
    BY <1>3, <2>3 DEF NoMove
  <2>4. CASE move'[t].ent \in mem /\ ~entity[move'[t].ent].kind.hidden
    BY <1>1, <2>4
  <2> QED
    BY <2>1, <2>2, <2>3, <2>4 DEF MoveGoes
<1>7. entity'[e].kind = entity[e].kind /\ entity'[f].slot = entity[f].slot
  BY <1>2 DEF Aged
<1>8. "worker" \in Threads /\ "main" \in Threads
  BY DEF Threads
<1> QED
  BY <1>1, <1>2, <1>4, <1>5, <1>6, <1>7, <1>8 DEF TwinOf

\* Steps that create nothing and announce no arrival keep the names good.
LEMMA MovedKeepsArrivals ==
  ASSUME IInv, StoreInv, events \in Seq(Ann), ArrivalInv, Cleared, Moved, NoNews, SameCall
  PROVE  ArrivalInv'
<1>1. /\ mem \subseteq 1..made /\ made' = made /\ memId' = memId /\ mem' \subseteq mem
      /\ stage = "stored" => notifying \in 1..made
  BY MadeFacts DEF Moved
<1>2. ASSUME NEW e \in 1..made, entity'[e].type = "NotProcessed"
      PROVE  \/ e = notifying' /\ stage' = "replacing"
             \/ memId <= entity'[e].id /\ entity'[e].id < 0
  <2>1. entity[e].type = "NotProcessed" /\ entity'[e].id = entity[e].id
    BY <1>2, AgedFacts DEF Moved
  <2> QED
    BY <2>1, CallStays DEF ArrivalInv
<1>3. \A e \in mem' : entity'[e].slot # 0
  <2>1. \A e \in 1..made : entity'[e].slot = entity[e].slot
    BY DEF Moved, Aged
  <2> QED
    BY <1>1, <2>1 DEF ArrivalInv
<1>4. \A n \in 1..Len(events') : events'[n].type = "NotProcessed" =>
        memId <= events'[n].id /\ events'[n].id < 0
  BY DEF NoNews, ArrivalInv
<1>5. ASSUME stage' = "stored", notifying' \in mem', Arriving(entity[notifying].id)'
      PROVE  Twin(notifying)'
  <2>1. notifying' = notifying /\ stage = "stored" /\ notifying \in mem
        /\ notifying \in mem' /\ notifying \in 1..made
    BY <1>1, <1>5, CallStays
  <2>2. PICK e \in 1..made : e = notifying
    BY <2>1
  <2>3. entity'[e].id = entity[e].id
    BY <2>1, <2>2, AgedFacts DEF Moved
  <2>4. Arriving(entity[notifying].id)
    BY <1>5, <2>1, <2>2, <2>3 DEF Arriving, NoNews
  <2>5. Twin(e)
    BY <2>1, <2>2, <2>4 DEF ArrivalInv
  <2>6. /\ entity[e].kind.hidden /\ \A t \in Threads : move[t].ent # e
        /\ \E f \in 1..made : TwinOf(e, f)
    BY <2>5 DEF Twin
  <2>7. PICK f \in 1..made : TwinOf(e, f)
    BY <2>6
  <2>8. /\ entity'[e].kind.hidden /\ (\A t \in Threads : move'[t].ent # e) /\ TwinOf(e, f)'
    BY <2>1, <2>2, <2>6, <2>7, TwinStays
  <2>9. Twin(e)'
    BY <1>1, <2>8 DEF Twin
  <2> QED
    BY <2>1, <2>2, <2>9
<1> QED
  BY <1>1, <1>2, <1>3, <1>4, <1>5 DEF ArrivalInv

\* Nor do banners get another notification.
LEMMA MovedKeepsBanners ==
  ASSUME IInv, StoreInv, BannerInv, Cleared, Moved, SameCall,
         Panel!Shown' \cup Panel!Queued' \subseteq Panel!Shown \cup Panel!Queued
  PROVE  BannerInv'
<1>1. made' = made /\ \A e \in 1..made : entity'[e].slot = entity[e].slot
  BY DEF Moved, Aged
<1>2. ASSUME NEW e \in Panel!Shown' \cup Panel!Queued'
      PROVE  /\ e \in 1..made /\ entity'[e].slot # 0
             /\ e = notifying' => stage' # "replacing"
             /\ e = notifying' /\ stage' = "stored" =>
                  Twin(e)' /\ \E f \in 1..made : TwinOf(e, f)' /\ move'["main"].ent # f
  <2>1. /\ e \in 1..made /\ entity[e].slot # 0
        /\ e = notifying => stage # "replacing"
        /\ e = notifying /\ stage = "stored" =>
             Twin(e) /\ \E f \in 1..made : TwinOf(e, f) /\ move["main"].ent # f
    BY <1>2 DEF BannerInv
  <2>2. ASSUME e = notifying', stage' = "stored"
        PROVE  Twin(e)' /\ \E f \in 1..made : TwinOf(e, f)' /\ move'["main"].ent # f
    <3>1. e = notifying /\ stage = "stored"
      BY <2>2, CallStays
    <3>2. PICK f \in 1..made : TwinOf(e, f) /\ move["main"].ent # f
      BY <2>1, <3>1
    <3>3. entity[e].kind.hidden /\ \A t \in Threads : move[t].ent # e
      BY <2>1, <3>1 DEF Twin
    <3>4. /\ entity'[e].kind.hidden /\ (\A t \in Threads : move'[t].ent # e)
          /\ TwinOf(e, f)' /\ move'["main"].ent # f
      BY <2>1, <3>2, <3>3, TwinStays
    <3>5. Twin(e)'
      BY <1>1, <3>4 DEF Twin
    <3> QED
      BY <3>4, <3>5
  <2> QED
    BY <1>1, <2>1, <2>2, CallStays
<1> QED
  BY <1>1, <1>2 DEF BannerInv

\* What saved its notification has still taken all with its id, ...
LEMMA MovedKeepsCleared ==
  ASSUME IInv, StoreInv, Cleared, Moved
  PROVE  Cleared'
<1>1. /\ mem \subseteq 1..made /\ mem' \subseteq mem
      /\ \A t \in Threads : MoveGoes(t)
  BY MadeFacts DEF Moved
<1>2. \A f \in mem' : f \in mem /\ entity'[f].id = entity[f].id
  BY <1>1, AgedFacts DEF Moved
<1>3. ASSUME NEW t \in Threads, move'[t].at = "finishing",
             move'[t].row # None \/ FALSE \notin DbOutcomes, NEW f \in mem'
      PROVE  entity'[f].id # move'[t].id
  <2>1. CASE move'[t] = move[t]
    BY <1>2, <1>3, <2>1 DEF Cleared
  <2>2. CASE mem' = mem \ InMemory(move[t].id) /\ move'[t].id = move[t].id
    BY <1>2, <2>2 DEF InMemory
  <2>3. MoveGoes(t)
    BY <1>1
  <2>4. NoMove.at = "none"
    BY DEF NoMove
  <2>5. ~(move'[t].row = None /\ FALSE \in DbOutcomes)
    BY <1>3
  <2> QED
    BY <1>3, <2>1, <2>2, <2>3, <2>4, <2>5 DEF MoveGoes
<1> QED
  BY <1>3 DEF Cleared

\* ... and what is in memory still is live or moves.
LEMMA MovedKeepsHeld ==
  ASSUME IInv, StoreInv, Cleared, HeldInv, Moved
  PROVE  HeldInv'
<1> SUFFICES ASSUME FALSE \notin DbOutcomes, NEW e \in mem'
             PROVE  entity'[e].type = "NotProcessed" \/ \E t \in Threads : move'[t].ent = e
  BY DEF HeldInv
<1>1. e \in mem /\ e \in 1..made /\ Aged(e) /\ None \notin 1..made
  BY MadeFacts DEF Moved
<1>2. CASE entity[e].type = "NotProcessed"
  BY <1>1, <1>2 DEF Aged
<1>3. ASSUME NEW t \in Threads, move[t].ent = e PROVE move'[t].ent = e
  <2>1. move[t].at # "none"
    BY <1>1, <1>3, MadeFacts
  <2>2. MoveGoes(t)
    BY DEF Moved
  <2>3. move[t].at # "finishing"
    <3> SUFFICES ASSUME move[t].at = "finishing" PROVE FALSE
      OBVIOUS
    <3>1. entity[e].id = move[t].id
      BY <1>1, <1>3, <2>1, HeldId
    <3> QED
      BY <1>1, <3>1 DEF Cleared
  <2> QED
    BY <1>3, <2>1, <2>2, <2>3 DEF MoveGoes
<1> QED
  BY <1>1, <1>2, <1>3 DEF HeldInv

\* All of these.
LEMMA MovedKeepsNames ==
  ASSUME IInv, LinkInv, Moved, NoNews, SameCall, events' \in Seq(Ann),
         Panel!Shown' \cup Panel!Queued' \subseteq Panel!Shown \cup Panel!Queued
  PROVE  ArrivalInv' /\ BannerInv' /\ Cleared' /\ HeldInv'
BY MovedKeepsArrivals, MovedKeepsBanners, MovedKeepsCleared, MovedKeepsHeld DEF LinkInv

\* The announcement of the new notification: its id may be asked for from now on.
LEMMA AnnounceKeepsNames ==
  ASSUME IInv, LinkInv, Announce, Queue, UNCHANGED banners
  PROVE  events' \in Seq(Ann) /\ ArrivalInv' /\ BannerInv' /\ Cleared' /\ HeldInv'
<1>1. /\ stage = "stored" /\ stage' = "announced"
      /\ UNCHANGED <<made, entity, mem, memId, move, notifying>>
      /\ changed' = <<[id |-> entity[notifying].id, type |-> entity[notifying].type]>>
  BY DEF Announce, heap, store, moves
<1>2. notifying \in 1..made /\ notifying \in Entities
  BY <1>1, MadeFacts DEF LinkInv
<1>3. PICK c : c = [id |-> entity[notifying].id, type |-> entity[notifying].type]
  OBVIOUS
<1>4. c \in Ann /\ (c.type = "NotProcessed" => memId <= c.id /\ c.id < 0)
  <2>1. entity[notifying] \in Data
    BY <1>2 DEF IInv, TypeOK
  <2>2. c \in Ann /\ c.type = entity[notifying].type /\ c.id = entity[notifying].id
    BY <1>3, <2>1 DEF Ann, Data
  <2> QED
    BY <1>1, <1>2, <2>2 DEF LinkInv, ArrivalInv
<1>5. events' = Append(events, c) /\ events \in Seq(Ann)
  BY <1>1, <1>3 DEF Queue, LinkInv
<1>6. /\ events' \in Seq(Ann) /\ Len(events) \in Nat /\ Len(events') = Len(events) + 1
      /\ \A n \in 1..Len(events) : events'[n] = events[n]
      /\ events'[Len(events) + 1] = c
  BY <1>4, <1>5
<1>7. \A n \in 1..Len(events') : n \in 1..Len(events) \/ n = Len(events) + 1
  BY <1>6
<1>8. ArrivalInv'
  <2>1. \A n \in 1..Len(events') : events'[n].type = "NotProcessed" =>
          memId <= events'[n].id /\ events'[n].id < 0
    BY <1>4, <1>6, <1>7 DEF LinkInv, ArrivalInv
  <2>2. /\ \A e \in 1..made : entity[e].type = "NotProcessed" =>
             memId <= entity[e].id /\ entity[e].id < 0
        /\ \A e \in mem : entity[e].slot # 0
    BY <1>1 DEF LinkInv, ArrivalInv
  <2> QED
    BY <1>1, <2>1, <2>2 DEF ArrivalInv
<1>9. BannerInv'
  <2>1. UNCHANGED <<Panel!Shown, Panel!Queued>>
    BY DEF banners, Panel!Shown, Panel!Queued
  <2> QED
    BY <1>1, <2>1 DEF LinkInv, BannerInv
<1>10. Cleared' /\ HeldInv'
  BY <1>1 DEF LinkInv, Cleared, HeldInv
<1> QED
  BY <1>6, <1>8, <1>9, <1>10

\* Banners are of those made before.
LEMMA OldBanners ==
  ASSUME IInv, LinkInv, UNCHANGED banners,
         \A e \in 1..made : entity'[e].slot = entity[e].slot, 1..made \subseteq 1..made',
         notifying' \notin Panel!Shown \cup Panel!Queued
  PROVE  BannerInv'
<1>1. UNCHANGED <<Panel!Shown, Panel!Queued>>
  BY DEF banners, Panel!Shown, Panel!Queued
<1>2. \A e \in Panel!Shown \cup Panel!Queued : e \in 1..made /\ entity[e].slot # 0
  BY DEF LinkInv, BannerInv
<1> QED
  BY <1>1, <1>2 DEF BannerInv

\* An arrival in the store: nobody has asked for its id, or it has a twin.
LEMMA ArrivedKeepsNames ==
  ASSUME IInv, LinkInv, Arrived, UNCHANGED <<events, banners>>
  PROVE  ArrivalInv' /\ BannerInv' /\ Cleared' /\ HeldInv'
<1>1. /\ made \in Nat /\ mem \subseteq 1..made /\ memId \in Int /\ memId <= 0
      /\ None \notin 1..made
      /\ \A e \in 1..made : entity[e].id \in Int
      /\ \A e \in mem : memId <= entity[e].id /\ entity[e].id < 0
      /\ \A t \in Threads :
           /\ move[t].id \in Int /\ (move[t].at = "none" => move[t].ent = None)
           /\ move[t].at # "none" => memId <= move[t].id /\ move[t].id < 0
  BY MadeFacts DEF LinkInv
<1>0. PICK new : new = made + 1
  OBVIOUS
<1>2. /\ made' = new /\ notifying' = new /\ stage' = "stored" /\ stage = "idle"
      /\ move' = move /\ \A e \in 1..made : entity'[e] = entity[e]
  BY <1>0 DEF Arrived
<1>3. /\ new \notin 1..made /\ 1..new = (1..made) \cup {new} /\ new \in 1..new
      /\ \A t \in Threads : move[t].ent # new
  BY <1>0, BeforeNotify DEF LinkInv, Arrived
<1>4. \A e \in mem : entity[e].slot # 0
  BY DEF LinkInv, ArrivalInv
<1>8. BannerInv'
  <2>1. new \notin Panel!Shown \cup Panel!Queued
    BY <1>3 DEF LinkInv, BannerInv
  <2> QED
    BY <1>2, <1>3, <2>1, OldBanners
<1>5. CASE mem' = mem /\ memId' = memId /\ entity'[new].type # "NotProcessed"
  <2>1. ArrivalInv'
    BY <1>1, <1>2, <1>3, <1>5 DEF LinkInv, ArrivalInv
  <2>2. Cleared'
    BY <1>1, <1>2, <1>5 DEF LinkInv, Cleared
  <2>3. HeldInv'
    BY <1>1, <1>2, <1>5 DEF LinkInv, HeldInv
  <2> QED
    BY <1>8, <2>1, <2>2, <2>3
<1>6. CASE /\ mem' = mem \cup {new} /\ memId' = memId - 1
           /\ entity'[new].type = "NotProcessed" /\ entity'[new].id = memId - 1
           /\ entity'[new].slot = new
  <2>1. \A e \in 1..new : entity'[e].type = "NotProcessed" =>
          memId' <= entity'[e].id /\ entity'[e].id < 0
    <3>1. \A e \in 1..made : entity[e].type = "NotProcessed" =>
            memId <= entity[e].id /\ entity[e].id < 0
      BY <1>2 DEF LinkInv, ArrivalInv
    <3>2. \A e \in 1..made : entity[e].type = "NotProcessed" => memId - 1 <= entity[e].id
      BY <1>1, <3>1
    <3> QED
      BY <1>1, <1>2, <1>3, <1>6, <3>1, <3>2
  <2>2. \A n \in 1..Len(events) : events[n].type = "NotProcessed" =>
          /\ memId - 1 <= events[n].id /\ events[n].id < 0
          /\ events[n].id # memId - 1
    <3>1. \A n \in 1..Len(events) : events[n].id \in Int
      <4>1. \A n \in 1..Len(events) : events[n] \in Ann
        BY DEF LinkInv
      <4> QED
        BY <4>1 DEF Ann
    <3>2. \A n \in 1..Len(events) : events[n].type = "NotProcessed" =>
            memId <= events[n].id /\ events[n].id < 0
      BY DEF LinkInv, ArrivalInv
    <3> QED
      BY <1>1, <3>1, <3>2
  <2>3. \A e \in mem' : entity'[e].slot # 0
    BY <1>0, <1>1, <1>2, <1>4, <1>6
  <2>4. ~Arriving(entity[new].id)'
    BY <1>6, <2>2 DEF Arriving
  <2>5. ArrivalInv'
    BY <1>2, <1>6, <2>1, <2>2, <2>3, <2>4 DEF ArrivalInv
  <2>6. Cleared'
    <3>1. \A t \in Threads : move[t].at # "none" => entity'[new].id # move[t].id
      BY <1>1, <1>6
    <3> QED
      BY <1>1, <1>2, <1>6, <3>1 DEF LinkInv, Cleared
  <2>7. HeldInv'
    BY <1>1, <1>2, <1>6 DEF LinkInv, HeldInv
  <2> QED
    BY <1>8, <2>5, <2>6, <2>7
<1>7. ASSUME memId' = memId, entity'[new].type = "NotProcessed", entity'[new].kind.hidden,
             NEW old \in mem, mem' = (mem \ {old}) \cup {new}, move["worker"] = NoMove,
             entity'[new].id = entity[old].id, entity'[new].slot = entity[old].slot
      PROVE  ArrivalInv' /\ Cleared' /\ HeldInv'
  <2>1. old \in 1..made /\ old \in 1..new /\ old # new /\ old \notin mem'
    BY <1>1, <1>3, <1>7
  <2>2. TwinOf(new, old)'
    <3>1. move'["worker"].ent # old
      BY <1>1, <1>2, <1>7, <2>1 DEF NoMove
    <3> QED
      BY <1>2, <1>4, <1>7, <2>1, <3>1 DEF TwinOf
  <2>3. Twin(new)'
    BY <1>2, <1>3, <1>7, <2>1, <2>2 DEF Twin
  <2>4. ArrivalInv'
    <3>1. \A e \in 1..new : entity'[e].type = "NotProcessed" =>
            memId <= entity'[e].id /\ entity'[e].id < 0
      BY <1>1, <1>2, <1>3, <1>7 DEF LinkInv, ArrivalInv
    <3>2. \A e \in mem' : entity'[e].slot # 0
      BY <1>1, <1>2, <1>4, <1>7
    <3>3. \A n \in 1..Len(events) : events[n].type = "NotProcessed" =>
            memId <= events[n].id /\ events[n].id < 0
      BY DEF LinkInv, ArrivalInv
    <3> QED
      BY <1>2, <1>7, <2>3, <3>1, <3>2, <3>3 DEF ArrivalInv
  <2>5. Cleared'
    <3> SUFFICES ASSUME NEW t \in Threads, move[t].at = "finishing",
                        move[t].row # None \/ FALSE \notin DbOutcomes, NEW f \in mem'
                 PROVE  entity'[f].id # move[t].id
      BY <1>2 DEF Cleared
    <3>1. \A g \in mem : entity[g].id # move[t].id
      BY DEF LinkInv, Cleared
    <3>2. f = new \/ (f \in mem /\ entity'[f] = entity[f])
      BY <1>1, <1>2, <1>7
    <3> QED
      BY <1>7, <3>1, <3>2
  <2>6. HeldInv'
    BY <1>1, <1>2, <1>7 DEF LinkInv, HeldInv
  <2> QED
    BY <2>4, <2>5, <2>6
<1> QED
  BY <1>0, <1>5, <1>6, <1>7, <1>8 DEF Arrived

\* A replacement that begins with the move of the old one.
LEMMA BeginsKeepsNames ==
  ASSUME IInv, LinkInv, Begins, UNCHANGED <<events, banners>>
  PROVE  ArrivalInv' /\ BannerInv' /\ Cleared' /\ HeldInv'
<1>0. PICK new : new = made + 1
  OBVIOUS
<1>1. PICK old \in mem :
        /\ \A e \in 1..made : e # old => entity'[e] = entity[e]
        /\ entity'[old].slot = entity[old].slot /\ entity'[old].id = entity[old].id
        /\ entity'[old].type = "Processed"
        /\ move["worker"] = NoMove /\ move'["worker"].at = "typed"
        /\ move'["worker"].ent = old /\ move'["main"] = move["main"]
  BY DEF Begins
<1>2. /\ made' = new /\ notifying' = new /\ stage' = "replacing" /\ stage = "idle"
      /\ UNCHANGED <<mem, memId>>
  BY <1>0 DEF Begins
<1>3. /\ new \notin 1..made /\ 1..new = (1..made) \cup {new} /\ mem \subseteq 1..made
  BY <1>0, BeforeNotify DEF LinkInv, Begins
<1>4. \A e \in 1..made : entity'[e].slot = entity[e].slot /\ entity'[e].id = entity[e].id
  BY <1>1
<1>5. ArrivalInv'
  <2>1. \A e \in 1..new : entity'[e].type = "NotProcessed" =>
          e = new \/ (memId <= entity'[e].id /\ entity'[e].id < 0)
    BY <1>1, <1>2, <1>3 DEF LinkInv, ArrivalInv
  <2> QED
    BY <1>2, <1>3, <1>4, <2>1 DEF LinkInv, ArrivalInv
<1>6. BannerInv'
  <2>1. new \notin Panel!Shown \cup Panel!Queued
    BY <1>3 DEF LinkInv, BannerInv
  <2> QED
    BY <1>2, <1>3, <1>4, <2>1, OldBanners
<1>7. Cleared'
  BY <1>1, <1>2, <1>3, <1>4 DEF LinkInv, Cleared, Threads
<1>8. HeldInv'
  <2> SUFFICES ASSUME FALSE \notin DbOutcomes, NEW e \in mem
               PROVE  entity'[e].type = "NotProcessed" \/ \E t \in Threads : move'[t].ent = e
    BY <1>2 DEF HeldInv
  <2>1. entity[e].type = "NotProcessed" \/ \E t \in Threads : move[t].ent = e
    BY DEF LinkInv, HeldInv
  <2>2. move["worker"].ent # e
    BY <1>1, <1>3, MadeFacts DEF LinkInv, NoMove
  <2> QED
    BY <1>1, <1>3, <2>1, <2>2 DEF Threads
<1> QED
  BY <1>5, <1>6, <1>7, <1>8

\* A replacement that joins the live ones.
LEMMA JoinsKeepsNames ==
  ASSUME IInv, LinkInv, Joins, UNCHANGED <<events, banners>>
  PROVE  ArrivalInv' /\ BannerInv' /\ Cleared' /\ HeldInv'
<1>1. /\ made \in Nat /\ mem \subseteq 1..made /\ memId \in Int /\ memId <= 0
      /\ None \notin 1..made
      /\ \A e \in 1..made : entity[e].id \in Int
      /\ \A t \in Threads :
           /\ move[t].id \in Int /\ (move[t].at = "none" => move[t].ent = None)
           /\ move[t].at # "none" => memId <= move[t].id
  BY MadeFacts DEF LinkInv
<1>2. /\ stage = "replacing" /\ stage' = "stored" /\ UNCHANGED <<made, notifying>>
      /\ mem' = mem \cup {notifying} /\ memId' = memId - 1
      /\ move["worker"].at = "finishing" /\ move'["worker"] = NoMove
      /\ move'["main"] = move["main"]
      /\ entity'[notifying].id = memId - 1 /\ entity'[notifying].slot = notifying
      /\ entity'[notifying].type = "NotProcessed"
  BY DEF Joins
<1>3. \A e \in 1..made : e # notifying =>
        /\ entity'[e].slot = entity[e].slot
        /\ entity'[e].type = "NotProcessed" =>
             entity[e].type = "NotProcessed" /\ entity'[e].id = entity[e].id
        /\ e \in mem => entity'[e].id = entity[e].id
  BY AgedFacts DEF LinkInv, Joins
<1>4. notifying \in 1..made /\ notifying # 0 /\ notifying \notin mem
  BY <1>1, <1>2, MadeFacts DEF LinkInv, StoreInv, WaitInv
<1>5. PICK new : new = notifying
  OBVIOUS
<1>6. ArrivalInv'
  <2>1. \A e \in 1..made : entity'[e].type = "NotProcessed" =>
          memId' <= entity'[e].id /\ entity'[e].id < 0
    <3>1. \A e \in 1..made : e # notifying /\ entity[e].type = "NotProcessed" =>
            memId <= entity[e].id /\ entity[e].id < 0
      BY DEF LinkInv, ArrivalInv
    <3>2. \A e \in 1..made : e # notifying /\ entity[e].type = "NotProcessed" =>
            memId - 1 <= entity[e].id
      BY <1>1, <3>1
    <3> QED
      BY <1>1, <1>2, <1>3, <3>1, <3>2
  <2>2. \A n \in 1..Len(events) : events[n].type = "NotProcessed" =>
          /\ memId - 1 <= events[n].id /\ events[n].id < 0
          /\ events[n].id # memId - 1
    <3>1. \A n \in 1..Len(events) : events[n].id \in Int
      <4>1. \A n \in 1..Len(events) : events[n] \in Ann
        BY DEF LinkInv
      <4> QED
        BY <4>1 DEF Ann
    <3>2. \A n \in 1..Len(events) : events[n].type = "NotProcessed" =>
            memId <= events[n].id /\ events[n].id < 0
      BY DEF LinkInv, ArrivalInv
    <3> QED
      BY <1>1, <3>1, <3>2
  <2>3. \A e \in mem' : entity'[e].slot # 0
    BY <1>1, <1>2, <1>3, <1>4 DEF LinkInv, ArrivalInv
  <2>4. ~Arriving(entity[notifying].id)'
    BY <1>2, <2>2 DEF Arriving
  <2> QED
    BY <1>2, <2>1, <2>2, <2>3, <2>4 DEF ArrivalInv
<1>7. BannerInv'
  <2>1. \A e \in Panel!Shown \cup Panel!Queued :
          e \in 1..made /\ entity[e].slot # 0 /\ e # notifying
    BY <1>2 DEF LinkInv, BannerInv
  <2>2. UNCHANGED <<Panel!Shown, Panel!Queued>>
    BY DEF banners, Panel!Shown, Panel!Queued
  <2> QED
    BY <1>2, <1>3, <2>1, <2>2 DEF BannerInv
<1>8. Cleared'
  <2> SUFFICES ASSUME NEW t \in Threads, move'[t].at = "finishing",
                      move'[t].row # None \/ FALSE \notin DbOutcomes, NEW f \in mem'
               PROVE  entity'[f].id # move'[t].id
    BY DEF Cleared
  <2>1. t = "main" /\ move'[t] = move[t]
    BY <1>2 DEF Threads, NoMove
  <2>2. CASE f \in mem
    <3>1. f \in 1..made /\ f # notifying /\ entity[f].id # move[t].id
      BY <1>1, <1>4, <2>1, <2>2 DEF LinkInv, Cleared
    <3> QED
      BY <1>3, <2>1, <2>2, <3>1
  <2>3. CASE f = notifying
    BY <1>1, <1>2, <2>1, <2>3
  <2> QED
    BY <1>2, <2>2, <2>3
<1>9. HeldInv'
  <2> SUFFICES ASSUME FALSE \notin DbOutcomes, NEW e \in mem'
               PROVE  entity'[e].type = "NotProcessed" \/ \E t \in Threads : move'[t].ent = e
    BY DEF HeldInv
  <2>1. CASE e = notifying
    BY <1>2, <2>1
  <2>2. ASSUME e \in mem, e # notifying, e \in 1..made
        PROVE  entity'[e].type = "NotProcessed" \/ \E t \in Threads : move'[t].ent = e
    <3>1. Aged(e)
      BY <2>2 DEF Joins
    <3>2. move["worker"].ent # e
      <4> SUFFICES ASSUME move["worker"].ent = e PROVE FALSE
        OBVIOUS
      <4>1. "worker" \in Threads
        BY DEF Threads
      <4>2. entity[e].id = move["worker"].id
        BY <1>2, <2>2, <4>1, HeldId DEF LinkInv
      <4> QED
        BY <1>2, <2>2, <4>1, <4>2 DEF LinkInv, Cleared
    <3>3. entity[e].type = "NotProcessed" \/ move["main"].ent = e
      BY <2>2, <3>2 DEF LinkInv, HeldInv, Threads
    <3>4. CASE move["main"].ent = e
      BY <1>2, <3>4 DEF Threads
    <3>5. CASE entity[e].type = "NotProcessed"
      BY <2>2, <3>1, <3>5 DEF Aged
    <3> QED
      BY <3>3, <3>4, <3>5
  <2> QED
    BY <1>1, <1>2, <1>4, <2>1, <2>2
<1> QED
  BY <1>6, <1>7, <1>8, <1>9

-----------------------------------------------------------------------------
(* What the main thread's steps do to the rows.                               *)

\* A row that is closed by an announcement has its id.
LEMMA ClosesHit ==
  ASSUME NEW ent, NEW s, NEW ch, NEW n, n = Closes(ent, s, ch), n # 0
  PROVE  ch # <<>> /\ Head(ch).type # "NotProcessed" /\ ent[s[n]].id = Head(ch).id
<1> DEFINE hit == IF ch = <<>> \/ Head(ch).type = "NotProcessed" THEN {}
                  ELSE RowOf(ent, s, Head(ch).id)
<1>1. n = IF hit = {} THEN 0 ELSE CHOOSE m \in hit : TRUE
  BY DEF Closes
<1>2. hit # {}
  BY <1>1
<1>3. ch # <<>> /\ Head(ch).type # "NotProcessed"
  BY <1>2
<1>4. n \in RowOf(ent, s, Head(ch).id)
  <2> HIDE DEF hit
  <2>1. n \in hit
    BY <1>1, <1>2
  <2> QED
    BY <1>3, <2>1 DEF hit
<1> QED
  BY <1>3, <1>4 DEF RowOf

\* The rows and the queue after ch was announced, ent being the heap by then.
RowsAfter(ent, ch, also) ==
  /\ Panel!Shown' \subseteq Panel!Shown /\ Panel!Queued' = Panel!Queued
  /\ \A e \in Panel!Shown :
       \/ e \in Panel!Shown' \/ e \in also
       \/ ch # <<>> /\ Head(ch).type # "NotProcessed" /\ ent[e].id = Head(ch).id
  /\ UNCHANGED <<maxKeep, waiting>> /\ Len(bubbles') <= Len(bubbles)

\* An announcement that is no arrival.
LEMMA RemoveAfter ==
  ASSUME PanelInv, NEW ent, NEW ch, Panel!RemoveRow(Closes(ent, bubbles, ch))
  PROVE  RowsAfter(ent, ch, {})
<1>1. Len(bubbles) \in Nat
  BY DEF PanelInv, Panel!TypeOK
<1>2. PICK n \in 0..Len(bubbles) : n = Closes(ent, bubbles, ch)
  BY <1>1, ClosesRange
<1>3. Panel!RemoveRow(n)
  BY <1>2
<1>4. /\ Panel!Shown' \subseteq Panel!Shown /\ waiting' = waiting /\ maxKeep' = maxKeep
      /\ n = 0 => bubbles' = bubbles
      /\ n # 0 => Panel!Shown \subseteq Panel!Shown' \cup {bubbles[n]}
      /\ Len(bubbles') <= Len(bubbles)
  BY <1>3, RemoveKeepsRows, PanelAssumption
<1>5. n = 0 => Panel!Shown' = Panel!Shown
  BY <1>4 DEF Panel!Shown
<1>6. n # 0 => ch # <<>> /\ Head(ch).type # "NotProcessed"
                 /\ ent[bubbles[n]].id = Head(ch).id
  BY <1>2, ClosesHit
<1>7. Panel!Queued' = Panel!Queued
  BY <1>4 DEF Panel!Queued
<1> QED
  BY <1>4, <1>5, <1>6, <1>7 DEF RowsAfter

\* A call that the main thread announces within it.
LEMMA DirectRows ==
  ASSUME PanelInv, Direct
  PROVE  RowsAfter(entity', changed', {}) /\ UNCHANGED events
<1>1. PICK ent, ch : ent = entity' /\ ch = changed'
  OBVIOUS
<1>2. Panel!RemoveRow(Closes(ent, bubbles, ch)) /\ UNCHANGED events
  BY <1>1 DEF Direct
<1>3. RowsAfter(ent, ch, {})
  BY <1>2, RemoveAfter
<1> QED
  BY <1>1, <1>2, <1>3

\* The closing of a row by the user.
LEMMA OnRowRows ==
  ASSUME PanelInv, NEW n \in 1..Len(bubbles), OnRow(n)
  PROVE  RowsAfter(entity', changed', {bubbles[n]}) /\ UNCHANGED events
<1>1. PICK ent, ch, rest : /\ ent = entity' /\ ch = changed'
                           /\ rest = Panel!Without(bubbles, n)
  OBVIOUS
<1>2. Len(rest) = Len(bubbles) - 1 /\ Len(rest) \in Nat
  <2>1. Len(bubbles) \in Nat
    BY DEF PanelInv, Panel!TypeOK
  <2> QED
    BY <2>1, <1>1, RestLength
<1>3. PICK j \in 0..(Len(bubbles) - 1) : j = Closes(ent, rest, ch)
  BY <1>2, ClosesRange
<1>4. Panel!CloseRow(n, j) /\ UNCHANGED events
  BY <1>1, <1>3 DEF OnRow
<1>5. Panel!CloseRow(n, j) /\ rest = Panel!Without(bubbles, n)
  BY <1>1, <1>4
<1>6. /\ Panel!Shown' \subseteq Panel!Shown /\ waiting' = waiting /\ maxKeep' = maxKeep
      /\ j = 0 => Panel!Shown \subseteq Panel!Shown' \cup {bubbles[n]}
      /\ j # 0 => Panel!Shown \subseteq Panel!Shown' \cup {bubbles[n], rest[j]}
      /\ Len(bubbles') <= Len(bubbles)
  BY <1>5, CloseRows, PanelAssumption
<1>7. j # 0 => ch # <<>> /\ Head(ch).type # "NotProcessed" /\ ent[rest[j]].id = Head(ch).id
  BY <1>3, ClosesHit
<1>8. Panel!Queued' = Panel!Queued
  BY <1>6 DEF Panel!Queued
<1>9. RowsAfter(ent, ch, {bubbles[n]})
  BY <1>6, <1>7, <1>8 DEF RowsAfter
<1> QED
  BY <1>1, <1>4, <1>9

\* An arrival that is delivered leads to a notification in memory with its id, and to one that
\* was announced, or whose id was.
LEMMA DeliveredNames ==
  ASSUME IInv, LinkInv, events # <<>>, Head(events).type = "NotProcessed",
         move["main"] = NoMove, NEW e \in Fetched(Head(events).id)
  PROVE  /\ e \in mem /\ entity[e].id = Head(events).id
         /\ e \in 1..made /\ e \in Entities /\ entity[e].slot # 0
         /\ e = notifying => stage # "replacing"
         /\ e = notifying /\ stage = "stored" =>
              Twin(e) /\ \E f \in 1..made : TwinOf(e, f) /\ move["main"].ent # f
<1>1. /\ Len(events) \in Nat /\ Len(events) >= 1 /\ Head(events) = events[1]
      /\ events[1] \in Ann
  BY DEF LinkInv
<1>2. events[1].id < 0 /\ events[1].id \in Int
  BY <1>1 DEF LinkInv, ArrivalInv, Ann
<1>3. InDb(Head(events).id) = {}
  BY <1>1, <1>2, StoreIds DEF LinkInv, InDb
<1>4. e \in InMemory(Head(events).id)
  BY <1>3 DEF Fetched
<1>5. e \in mem /\ entity[e].id = Head(events).id
  BY <1>4 DEF InMemory
<1>6. e \in 1..made /\ e \in Entities /\ entity[e].slot # 0
  BY <1>5, MadeFacts DEF LinkInv, ArrivalInv
<1>7. Arriving(entity[e].id)
  BY <1>1, <1>5 DEF Arriving
<1>8. e = notifying => stage # "replacing"
  BY <1>5 DEF LinkInv, StoreInv, WaitInv
<1>9. e = notifying /\ stage = "stored" => Twin(e)
  BY <1>5, <1>7 DEF LinkInv, ArrivalInv
<1>10. \A f \in 1..made : move["main"].ent # f
  BY MadeFacts DEF LinkInv, NoMove
<1> QED
  BY <1>5, <1>6, <1>8, <1>9, <1>10 DEF Twin

\* addBubble: e gets a row or waits; a row goes only when the list is full, or
\* when it is of the same bubble.
LEMMA AddRows ==
  ASSUME PanelInv, NEW e \in Entities,
         \/ ReplaceIndex(entity, e) = {} /\ Panel!AddBubble(e, 0)
         \/ \E n \in ReplaceIndex(entity, e) : Panel!AddBubble(e, n)
  PROVE  /\ Panel!Shown' \subseteq Panel!Shown \cup {e}
         /\ Panel!Queued' \subseteq Panel!Queued \cup {e}
         /\ Panel!Queued \subseteq Panel!Queued' /\ e \in Panel!Shown' \cup Panel!Queued'
         /\ \A f \in Panel!Shown : \/ f \in Panel!Shown' \/ Len(bubbles) >= maxKeep
                                   \/ entity[f].bubble = entity[e].bubble
         /\ Len(bubbles') + Len(waiting') <= Len(bubbles) + Len(waiting) + 1
         /\ maxKeep' = maxKeep
<1>1. /\ Len(bubbles) \in Nat /\ Len(waiting) \in Nat /\ maxKeep \in Nat
  BY DEF PanelInv, Panel!TypeOK
<1>2. CASE Panel!AddBubble(e, 0)
  <2>1. Panel!AddBubble(e, 0)
    BY <1>2
  <2>2. /\ Panel!Shown' \subseteq Panel!Shown \cup {e}
        /\ Panel!Queued' \subseteq Panel!Queued \cup {e}
        /\ Panel!Queued \subseteq Panel!Queued' /\ e \in Panel!Shown' \cup Panel!Queued'
        /\ Len(bubbles) < maxKeep => Panel!Shown \subseteq Panel!Shown'
        /\ Len(bubbles') + Len(waiting') <= Len(bubbles) + Len(waiting) + 1
        /\ maxKeep' = maxKeep
    BY <2>1, PushRows, PanelAssumption
  <2>3. Len(bubbles) < maxKeep \/ Len(bubbles) >= maxKeep
    BY <1>1
  <2> QED
    BY <2>2, <2>3
<1>3. ASSUME NEW n \in ReplaceIndex(entity, e), Panel!AddBubble(e, n)
      PROVE  /\ Panel!Shown' \subseteq Panel!Shown \cup {e} /\ Panel!Queued' = Panel!Queued
             /\ e \in Panel!Shown'
             /\ \A f \in Panel!Shown : \/ f \in Panel!Shown'
                                       \/ entity[f].bubble = entity[e].bubble
             /\ Len(bubbles') + Len(waiting') <= Len(bubbles) + Len(waiting) + 1
             /\ maxKeep' = maxKeep
  <2>1. n \in 1..Len(bubbles) /\ entity[bubbles[n]].bubble = entity[e].bubble
    BY DEF ReplaceIndex
  <2>2. Panel!AddBubble(e, n)
    BY <1>3
  <2>3. /\ Panel!Shown' \subseteq Panel!Shown \cup {e} /\ waiting' = waiting
        /\ e \in Panel!Shown' /\ Panel!Shown \subseteq Panel!Shown' \cup {bubbles[n]}
        /\ Len(bubbles') = Len(bubbles) /\ maxKeep' = maxKeep
    BY <2>1, <2>2, ReplaceRows, PanelAssumption
  <2>4. Panel!Queued' = Panel!Queued
    BY <2>3 DEF Panel!Queued
  <2> QED
    BY <1>1, <2>1, <2>3, <2>4
<1> QED
  BY <1>2, <1>3

\* The panel's own steps show only what has waited; the queue loses nothing to a
\* list that has room.
LEMMA PanelStepRows ==
  ASSUME PanelInv, PanelStep
  PROVE  /\ Panel!Shown' \subseteq Panel!Shown \cup Panel!Queued
         /\ Panel!Queued' \subseteq Panel!Queued
         /\ Len(bubbles) < maxKeep \/ waiting = <<>> =>
              Panel!Shown \cup Panel!Queued \subseteq Panel!Shown' \cup Panel!Queued'
         /\ Len(bubbles') + Len(waiting') <= Len(bubbles) + Len(waiting)
         /\ maxKeep' = maxKeep \/ \E n \in BubbleCounts : maxKeep' = n + 2
<1>1. CASE Panel!ProcessPending
  <2>1. Panel!ProcessPending
    BY <1>1
  <2>2. /\ Panel!Shown' \subseteq Panel!Shown \cup Panel!Queued
        /\ Panel!Queued' \subseteq Panel!Queued
        /\ Len(bubbles) < maxKeep \/ waiting = <<>> =>
             Panel!Shown \cup Panel!Queued \subseteq Panel!Shown' \cup Panel!Queued'
        /\ Len(bubbles') + Len(waiting') <= Len(bubbles) + Len(waiting)
        /\ maxKeep' = maxKeep
    BY <2>1, PendingRows, PanelAssumption
  <2> QED
    BY <2>2
<1>2. CASE UNCHANGED <<bubbles, waiting>>
           /\ (maxKeep' = maxKeep \/ \E n \in BubbleCounts : maxKeep' = n + 2)
  <2>1. Len(bubbles) \in Nat /\ Len(waiting) \in Nat
    BY DEF PanelInv, Panel!TypeOK
  <2> QED
    BY <1>2, <2>1 DEF Panel!Shown, Panel!Queued
<1> QED
  BY <1>1, <1>2
     DEF PanelStep, Panel!HideLater, Panel!SetEnabled, Panel!UpdateBubbleCount, Panel!rows

-----------------------------------------------------------------------------
(* The panel names what the server expects.                                   *)

\* The banners name only ids the server expects.
LEMMA BannerIds ==
  ASSUME IInv, LinkInv, NEW e \in Panel!Shown \cup Panel!Queued
  PROVE  entity[e].id \in BubbleIds
<1>1. /\ e \in 1..made /\ entity[e].slot # 0
      /\ e = notifying => stage # "replacing"
      /\ e = notifying /\ stage = "stored" => Twin(e)
  BY DEF LinkInv, BannerInv
<1>2. CASE e # notifying \/ stage # "stored"
  BY <1>1, <1>2 DEF BubbleIds
<1>3. CASE e = notifying /\ stage = "stored"
  <2>1. PICK f \in 1..made : f # e /\ entity[f].slot # 0 /\ entity[f].id = entity[e].id
    BY <1>1, <1>3 DEF Twin, TwinOf
  <2> QED
    BY <1>3, <2>1 DEF BubbleIds
<1> QED
  BY <1>2, <1>3

\* A row is a banner.
LEMMA RowNames ==
  ASSUME IInv, LinkInv, NEW n \in 1..Len(bubbles)
  PROVE  entity[bubbles[n]].id \in BubbleIds
<1>1. bubbles[n] \in Panel!Shown \cup Panel!Queued
  BY DEF Panel!Shown
<1> QED
  BY <1>1, BannerIds

\* So every step of the system is one the server has.
LEMMA SystemStepIsServerStep ==
  ASSUME SystemInv, LinkInv, [SystemNext]_all
  PROVE  [Next]_vars
<1>1. IInv
  BY DEF SystemInv
<1>2. CASE WorkerStep
  <2>1. "worker" \in Threads
    BY DEF Threads
  <2> QED
    BY <1>2, <2>1 DEF WorkerStep, Next, Internal
<1>3. CASE Insert("main") \/ Take("main") \/ Finish("main") \/ HandleDue("main")
  BY <1>3 DEF Next, Internal, Threads
<1>4. CASE SetHoveredId
  <2>1. \E i \in BubbleIds \cup {None} : SetBlockClosedId(i)
    BY <1>1, <1>4, BannerIds DEF SetHoveredId
  <2> QED
    BY <2>1 DEF Next, Bubbles
<1>5. ASSUME NEW n \in 1..Len(bubbles), NEW reason \in {"Closed", "Dismissed"},
             Close(n, reason)
      PROVE  Next
  BY <1>1, <1>5, RowNames DEF Close, Next, Bubbles
<1>6. ASSUME NEW n \in 1..Len(bubbles), InvokeAction(n)
      PROVE  Next
  BY <1>1, <1>6, RowNames DEF InvokeAction, Next, Bubbles
<1>7. CASE Center
  BY <1>7 DEF Next
<1>8. CASE Deliver \/ PanelStep \/ UNCHANGED all
  BY <1>8 DEF Deliver, PanelStep, all
<1> QED
  BY <1>2, <1>3, <1>4, <1>5, <1>6, <1>7, <1>8 DEF SystemNext, MainStep

-----------------------------------------------------------------------------
(* The names stay good in the whole system.                                   *)

\* Steps that leave the server alone.
LEMMA StillMoves ==
  ASSUME UNCHANGED <<heap, store, call>>
  PROVE  Moved /\ SameCall
BY DEF heap, store, moves, Moved, SameCall, Aged, MoveGoes

\* Calls of the main thread: rows go, nothing arrives.
LEMMA MainKeepsNames ==
  ASSUME IInv, LinkInv, Moved, SameCall, UNCHANGED events,
         Panel!Shown' \cup Panel!Queued' \subseteq Panel!Shown \cup Panel!Queued
  PROVE  events' \in Seq(Ann) /\ ArrivalInv' /\ BannerInv' /\ Cleared' /\ HeldInv'
<1>1. events' \in Seq(Ann) /\ NoNews
  BY SameNoNews DEF LinkInv
<1> QED
  BY <1>1, MovedKeepsNames

\* The worker thread's steps, which leave the rows alone.
LEMMA WorkerKeepsNames ==
  ASSUME IInv, LinkInv, WorkerStep
  PROVE  events' \in Seq(Ann) /\ ArrivalInv' /\ BannerInv' /\ Cleared' /\ HeldInv'
<1>1. Queue /\ UNCHANGED banners
  BY DEF WorkerStep
<1>2. CASE Announce
  BY <1>1, <1>2, AnnounceKeepsNames
<1>3. CASE Arrived \/ Begins \/ Joins
  <2>1. changed' = <<>>
    BY <1>3 DEF Arrived, Begins, Joins
  <2>2. events' = events /\ events' \in Seq(Ann)
    BY <1>1, <2>1 DEF Queue, LinkInv
  <2> QED
    BY <1>1, <1>3, <2>2, ArrivedKeepsNames, BeginsKeepsNames, JoinsKeepsNames
<1>4. CASE Moved /\ Told /\ SameCall
  <2>1. events' \in Seq(Ann) /\ NoNews
    BY <1>1, <1>4, QueuedNoNews DEF LinkInv
  <2>2. UNCHANGED <<Panel!Shown, Panel!Queued>>
    BY <1>1 DEF banners, Panel!Shown, Panel!Queued
  <2> QED
    BY <1>4, <2>1, <2>2, MovedKeepsNames
<1>5. StoreInv /\ Cleared
  BY DEF LinkInv
<1> QED
  BY <1>2, <1>3, <1>4, <1>5, WorkerMoves

\* A delivery, which may bring a banner.
LEMMA DeliverKeepsNames ==
  ASSUME SystemInv, LinkInv, Deliver
  PROVE  events' \in Seq(Ann) /\ ArrivalInv' /\ BannerInv' /\ Cleared' /\ HeldInv'
<1>1. /\ IInv /\ PanelInv /\ events # <<>> /\ events' = Tail(events)
      /\ UNCHANGED vars /\ move["main"] = NoMove
  BY DEF SystemInv, Deliver, Idle
<1>2. events' \in Seq(Ann) /\ NoNews
  BY <1>1, TakenNoNews DEF LinkInv
<1>3. Moved /\ SameCall
  BY <1>1, StillMoves DEF vars
<1>4. ArrivalInv' /\ Cleared' /\ HeldInv'
  BY <1>1, <1>2, <1>3, MovedKeepsArrivals, MovedKeepsCleared, MovedKeepsHeld DEF LinkInv
<1>5. ASSUME Panel!Shown' \cup Panel!Queued' \subseteq Panel!Shown \cup Panel!Queued
      PROVE  BannerInv'
  BY <1>1, <1>3, <1>5, MovedKeepsBanners DEF LinkInv
<1>6. CASE Head(events).type # "NotProcessed"
  <2>1. Panel!RemoveRow(Closes(entity, bubbles, events))
    BY <1>6 DEF Deliver
  <2>2. RowsAfter(entity, events, {})
    BY <1>1, <2>1, RemoveAfter
  <2> QED
    BY <1>2, <1>4, <1>5, <2>2 DEF RowsAfter
<1>7. CASE Head(events).type = "NotProcessed" /\ UNCHANGED banners
  <2>1. UNCHANGED <<Panel!Shown, Panel!Queued>>
    BY <1>7 DEF banners, Panel!Shown, Panel!Queued
  <2> QED
    BY <1>2, <1>4, <1>5, <2>1
<1>8. ASSUME Head(events).type = "NotProcessed", NEW e \in Fetched(Head(events).id),
             \/ ReplaceIndex(entity, e) = {} /\ Panel!AddBubble(e, 0)
             \/ \E n \in ReplaceIndex(entity, e) : Panel!AddBubble(e, n)
      PROVE  BannerInv'
  <2>1. /\ e \in 1..made /\ e \in Entities /\ entity[e].slot # 0
        /\ e = notifying => stage # "replacing"
        /\ e = notifying /\ stage = "stored" =>
             Twin(e) /\ \E f \in 1..made : TwinOf(e, f) /\ move["main"].ent # f
    BY <1>1, <1>8, DeliveredNames
  <2>2. /\ Panel!Shown' \subseteq Panel!Shown \cup {e}
        /\ Panel!Queued' \subseteq Panel!Queued \cup {e}
    BY <1>1, <1>8, <2>1, AddRows
  <2>3. \A g \in (Panel!Shown \cup Panel!Queued)' :
          /\ g \in 1..made /\ entity[g].slot # 0
          /\ g = notifying => stage # "replacing"
          /\ g = notifying /\ stage = "stored" =>
               Twin(g) /\ \E f \in 1..made : TwinOf(g, f) /\ move["main"].ent # f
    BY <2>1, <2>2 DEF LinkInv, BannerInv
  <2>4. UNCHANGED <<made, entity, mem, move, notifying, stage>>
    BY <1>1 DEF vars, heap, store, moves, call
  <2> QED
    BY <2>3, <2>4 DEF BannerInv, Twin, TwinOf
<1>9. CASE Head(events).type = "NotProcessed" /\ ~UNCHANGED banners
  <2>1. \E e \in Fetched(Head(events).id) :
          \/ ReplaceIndex(entity, e) = {} /\ Panel!AddBubble(e, 0)
          \/ \E n \in ReplaceIndex(entity, e) : Panel!AddBubble(e, n)
    BY <1>9 DEF Deliver
  <2> QED
    BY <1>2, <1>4, <1>8, <1>9, <2>1
<1> QED
  BY <1>6, <1>7, <1>9

\* Every step keeps the names good.
LEMMA LinkStep ==
  ASSUME SystemInv, SystemInv', LinkInv, [SystemNext]_all
  PROVE  LinkInv'
<1>1. IInv /\ StoreInv /\ Cleared /\ PanelInv
  BY DEF SystemInv, LinkInv
<1>2. StoreInv'
  BY <1>1, SystemStepIsServerStep, NextStoreInv
<1>3. ASSUME UNCHANGED <<heap, store, call, banners, events>>
      PROVE  LinkInv'
  <2>1. UNCHANGED <<Panel!Shown, Panel!Queued>>
    BY <1>3 DEF banners, Panel!Shown, Panel!Queued
  <2>2. Moved /\ SameCall
    BY <1>3, StillMoves
  <2> QED
    BY <1>1, <1>2, <1>3, <2>1, <2>2, MainKeepsNames DEF LinkInv
<1>4. CASE WorkerStep
  BY <1>1, <1>2, <1>4, WorkerKeepsNames DEF LinkInv
<1>5. CASE Deliver
  BY <1>2, <1>5, DeliverKeepsNames DEF LinkInv
<1>6. CASE (Finish("main") \/ HandleDue("main") \/ Center) /\ Direct
  <2>1. Moved /\ SameCall
    BY <1>1, <1>6, FinishMoves, DueMoves, CenterMoves DEF Threads, SameCall
  <2>2. RowsAfter(entity', changed', {}) /\ UNCHANGED events
    BY <1>1, <1>6, DirectRows
  <2> QED
    BY <1>1, <1>2, <2>1, <2>2, MainKeepsNames DEF LinkInv, RowsAfter
<1>7. CASE (Insert("main") \/ Take("main")) /\ UNCHANGED <<banners, events>>
  <2>1. Moved /\ SameCall
    BY <1>1, <1>7, GoingMoves DEF Threads, SameCall
  <2>2. UNCHANGED <<Panel!Shown, Panel!Queued>>
    BY <1>7 DEF banners, Panel!Shown, Panel!Queued
  <2> QED
    BY <1>1, <1>2, <1>7, <2>1, <2>2, MainKeepsNames DEF LinkInv
<1>8. ASSUME NEW n \in 1..Len(bubbles), OnRow(n),
             ActionInvoked(entity[bubbles[n]].id)
                \/ \E reason : NotificationClosed(entity[bubbles[n]].id, reason)
      PROVE  LinkInv'
  <2>1. Moved /\ SameCall
    BY <1>1, <1>8, CallMoves DEF SameCall
  <2>2. RowsAfter(entity', changed', {bubbles[n]}) /\ UNCHANGED events
    BY <1>1, <1>8, OnRowRows
  <2> QED
    BY <1>1, <1>2, <2>1, <2>2, MainKeepsNames DEF LinkInv, RowsAfter
<1>9. CASE PanelStep
  <2>1. Moved /\ SameCall /\ UNCHANGED events
    BY <1>9, StillMoves DEF PanelStep, vars
  <2>2. Panel!Shown' \subseteq Panel!Shown \cup Panel!Queued
        /\ Panel!Queued' \subseteq Panel!Queued
    BY <1>1, <1>9, PanelStepRows
  <2> QED
    BY <1>1, <1>2, <2>1, <2>2, MainKeepsNames DEF LinkInv
<1>10. CASE SetHoveredId \/ UNCHANGED all
  BY <1>3, <1>10 DEF SetHoveredId, SetBlockClosedId, all, vars
<1> QED
  BY <1>4, <1>5, <1>6, <1>7, <1>8, <1>9, <1>10
     DEF SystemNext, MainStep, Close, InvokeAction

\* At first nothing is named.
LEMMA LinkInit == SystemInit => LinkInv
<1> SUFFICES ASSUME SystemInit PROVE LinkInv
  OBVIOUS
<1>1. Init /\ Panel!Init /\ events = <<>>
  BY DEF SystemInit
<1>2. StoreInv
  BY <1>1, InitStoreInv
<1>3. events \in Seq(Ann) /\ Len(events) = 0
  BY <1>1
<1>4. ArrivalInv /\ Cleared /\ HeldInv
  BY <1>1, <1>3 DEF Init, ArrivalInv, Cleared, HeldInv
<1>5. BannerInv
  <2>1. Panel!Shown = {} /\ Panel!Queued = {}
    BY <1>1 DEF Panel!Init, Panel!Shown, Panel!Queued
  <2> QED
    BY <2>1 DEF BannerInv
<1> QED
  BY <1>2, <1>3, <1>4, <1>5 DEF LinkInv

\* Names are good in every behaviour of the system.
THEOREM SystemLinks == SystemSpec => []LinkInv
<1>1. SystemInv /\ SystemInv' /\ LinkInv /\ [SystemNext]_all => LinkInv'
  BY LinkStep
<1> QED
  BY <1>1, LinkInit, SystemSafe, PTL DEF SystemSpec

-----------------------------------------------------------------------------
(* What follows for the two components.                                       *)

\* The system is a server under its banners: what was announced, replaced or
\* closed since a banner was made never makes the panel name an id that the
\* server does not expect of its UI.
THEOREM SystemImplementsServer == SystemSpec => ServerSpec
<1>1. SystemInit => Init
  BY DEF SystemInit
<1>2. SystemInv /\ LinkInv /\ [SystemNext]_all => [Next]_vars
  BY SystemStepIsServerStep
<1> QED
  BY <1>1, <1>2, SystemSafe, SystemLinks, PTL DEF SystemSpec, ServerSpec, Spec

\* So the promises of the store hold with the banners as they are: but for what a call of one
\* thread took hold of in the middle of a move of the other (overtaken), a notification is in
\* one store or gone, and one whose bubble was replaced once at most keeps its timeout; and no
\* two live ones have one bubble.
THEOREM SystemStoresAgree ==
  SystemSpec => [](StoreSound /\ OneLivePerBubble /\ FreshTimeoutKept) /\ NothingLost
BY SystemImplementsServer, StoresAgree, BubbleNamesOne, TimeoutWatched, NoneLost, PTL
   DEF ServerSpec

\* A banner comes on the screen out of the queue, for a live notification, or for one that a
\* thread is moving to the history, as long as no INSERT fails: an announcement that arrives
\* late finds its own notification or nothing.
THEOREM BannersEnterLive == FALSE \notin DbOutcomes /\ SystemSpec => EntersLive
<1> SUFFICES ASSUME FALSE \notin DbOutcomes PROVE SystemSpec => EntersLive
  OBVIOUS
<1> DEFINE Enters == \A e \in Panel!Shown' \ Panel!Shown :
                       e \in Panel!Queued \/ Live(e) \/ \E t \in Threads : move[t].ent = e
<1>1. ASSUME SystemInv, LinkInv, [SystemNext]_all
      PROVE  Enters \/ UNCHANGED all
  <2>1. IInv /\ PanelInv
    BY <1>1 DEF SystemInv
  <2>2. CASE WorkerStep \/ SetHoveredId \/ UNCHANGED banners
    <3>1. UNCHANGED banners
      BY <2>2 DEF WorkerStep, SetHoveredId
    <3>2. Panel!Shown' = Panel!Shown
      BY <3>1 DEF banners, Panel!Shown
    <3> QED
      BY <3>2
  <2>3. CASE Direct
    BY <2>1, <2>3, DirectRows DEF RowsAfter
  <2>4. ASSUME NEW n \in 1..Len(bubbles), OnRow(n) PROVE Enters
    BY <2>1, <2>4, OnRowRows DEF RowsAfter
  <2>5. CASE PanelStep
    BY <2>1, <2>5, PanelStepRows
  <2>6. CASE Deliver
    <3>1. CASE Head(events).type # "NotProcessed"
      <4>1. Panel!RemoveRow(Closes(entity, bubbles, events))
        BY <2>6, <3>1 DEF Deliver
      <4> QED
        BY <2>1, <4>1, RemoveAfter DEF RowsAfter
    <3>2. CASE UNCHANGED banners
      <4>1. Panel!Shown' = Panel!Shown
        BY <3>2 DEF banners, Panel!Shown
      <4> QED
        BY <4>1
    <3>3. ASSUME Head(events).type = "NotProcessed", NEW e \in Fetched(Head(events).id),
                 \/ ReplaceIndex(entity, e) = {} /\ Panel!AddBubble(e, 0)
                 \/ \E n \in ReplaceIndex(entity, e) : Panel!AddBubble(e, n)
          PROVE  Enters
      <4>1. events # <<>> /\ move["main"] = NoMove
        BY <2>6 DEF Deliver, Idle
      <4>2. e \in mem /\ e \in Entities
        BY <1>1, <2>1, <3>3, <4>1, DeliveredNames
      <4>3. Live(e) \/ \E t \in Threads : move[t].ent = e
        BY <1>1, <4>2 DEF LinkInv, HeldInv, Live
      <4>4. Panel!Shown' \subseteq Panel!Shown \cup {e}
        BY <2>1, <3>3, <4>2, AddRows
      <4> QED
        BY <4>3, <4>4
    <3>4. CASE Head(events).type = "NotProcessed" /\ ~UNCHANGED banners
      <4>1. \E e \in Fetched(Head(events).id) :
              \/ ReplaceIndex(entity, e) = {} /\ Panel!AddBubble(e, 0)
              \/ \E n \in ReplaceIndex(entity, e) : Panel!AddBubble(e, n)
        BY <2>6, <3>4 DEF Deliver
      <4> QED
        BY <3>3, <3>4, <4>1
    <3> QED
      BY <3>1, <3>2, <3>4
  <2> QED
    BY <1>1, <2>2, <2>3, <2>4, <2>5, <2>6 DEF SystemNext, MainStep, Close, InvokeAction
<1>2. SystemInv /\ LinkInv /\ [SystemNext]_all => [Enters]_all
  BY <1>1
<1> QED
  BY <1>2, SystemSafe, SystemLinks, PTL DEF SystemSpec, EntersLive

-----------------------------------------------------------------------------
(* A live notification keeps its banner.                                       *)

\* The arrivals in a queue of announcements.
NewsOf(s) == {n \in 1..Len(s) : s[n].type = "NotProcessed"}

\* They are finitely many ...
LEMMA NewsCounted ==
  ASSUME NEW s \in Seq(Ann)
  PROVE  IsFiniteSet(NewsOf(s)) /\ Cardinality(NewsOf(s)) \in Nat
<1>1. Len(s) \in Int /\ 1 \in Int /\ NewsOf(s) \in SUBSET (1..Len(s))
  BY DEF NewsOf
<1>2. IsFiniteSet(1..Len(s))
  BY <1>1, FS_Interval
<1>3. IsFiniteSet(NewsOf(s))
  BY <1>1, <1>2, FS_Subset
<1> QED
  BY <1>3, FS_CardinalityType

\* ... one fewer when one is taken from the queue ...
LEMMA NewsTaken ==
  ASSUME NEW s \in Seq(Ann), s # <<>>, NEW t, t = Tail(s)
  PROVE  /\ Cardinality(NewsOf(t)) <= Cardinality(NewsOf(s))
         /\ Head(s).type = "NotProcessed" =>
              Cardinality(NewsOf(t)) + 1 <= Cardinality(NewsOf(s))
<1>1. /\ Len(s) \in Nat /\ Len(s) >= 1 /\ Head(s) = s[1] /\ t \in Seq(Ann)
      /\ Len(t) = Len(s) - 1 /\ \A n \in 1..Len(t) : t[n] = s[n + 1]
  OBVIOUS
<1> DEFINE S == NewsOf(s) \ {1}
           f == [n \in NewsOf(t) |-> n + 1]
<1>2. f \in Injection(NewsOf(t), S)
  <2>1. \A n \in NewsOf(t) : n \in Nat /\ n + 1 \in S
    BY <1>1 DEF NewsOf
  <2>2. f \in [NewsOf(t) -> S]
    BY <2>1
  <2>3. \A a, b \in NewsOf(t) : f[a] = f[b] => a = b
    BY <2>1
  <2> QED
    BY <2>2, <2>3 DEF Injection, IsInjective
<1>3. /\ IsFiniteSet(S)
      /\ Cardinality(S) = IF 1 \in NewsOf(s) THEN Cardinality(NewsOf(s)) - 1
                          ELSE Cardinality(NewsOf(s))
  BY NewsCounted, FS_RemoveElement
<1>4. Cardinality(NewsOf(t)) <= Cardinality(S)
  <2> HIDE DEF f, S
  <2> QED
    BY <1>2, <1>3, FS_Injection
<1>5. Head(s).type = "NotProcessed" => 1 \in NewsOf(s)
  BY <1>1 DEF NewsOf
<1>6. Cardinality(NewsOf(t)) \in Nat /\ Cardinality(NewsOf(s)) \in Nat
  BY <1>1, NewsCounted
<1> QED
  BY <1>3, <1>4, <1>5, <1>6

\* ... and at most one more when one is queued.
LEMMA NewsAdded ==
  ASSUME NEW s \in Seq(Ann), NEW c \in Ann, NEW t, t = Append(s, c)
  PROVE  /\ Cardinality(NewsOf(t)) <= Cardinality(NewsOf(s)) + 1
         /\ c.type # "NotProcessed" => Cardinality(NewsOf(t)) <= Cardinality(NewsOf(s))
<1>1. /\ Len(s) \in Nat /\ Len(t) = Len(s) + 1 /\ t[Len(s) + 1] = c
      /\ \A n \in 1..Len(s) : t[n] = s[n]
  OBVIOUS
<1>2. \A n \in 1..Len(t) : n \in 1..Len(s) \/ n = Len(s) + 1
  BY <1>1
<1>3. NewsOf(t) \in SUBSET (NewsOf(s) \cup {Len(s) + 1})
  BY <1>1, <1>2 DEF NewsOf
<1>4. c.type # "NotProcessed" => NewsOf(t) \in SUBSET NewsOf(s)
  BY <1>1, <1>2 DEF NewsOf
<1>5. IsFiniteSet(NewsOf(s)) /\ Cardinality(NewsOf(s)) \in Nat
  BY NewsCounted
<1>6. /\ IsFiniteSet(NewsOf(s) \cup {Len(s) + 1})
      /\ Cardinality(NewsOf(s) \cup {Len(s) + 1}) <= Cardinality(NewsOf(s)) + 1
  <2>1. PICK S, x : S = NewsOf(s) /\ x = Len(s) + 1
    OBVIOUS
  <2>2. /\ IsFiniteSet(S \cup {x})
        /\ Cardinality(S \cup {x}) = IF x \in S THEN Cardinality(S) ELSE Cardinality(S) + 1
    BY <1>5, <2>1, FS_AddElement
  <2> QED
    BY <1>5, <2>1, <2>2
<1>7. Cardinality(NewsOf(t)) <= Cardinality(NewsOf(s) \cup {Len(s) + 1})
  BY <1>3, <1>6, FS_Subset
<1>8. c.type # "NotProcessed" => Cardinality(NewsOf(t)) <= Cardinality(NewsOf(s))
  BY <1>4, <1>5, FS_Subset
<1>9. /\ Cardinality(NewsOf(t)) \in Nat
      /\ Cardinality(NewsOf(s) \cup {Len(s) + 1}) \in Nat
  <2>1. t \in Seq(Ann)
    OBVIOUS
  <2> QED
    BY <1>6, <2>1, NewsCounted, FS_CardinalityType
<1> QED
  BY <1>5, <1>6, <1>7, <1>8, <1>9

\* The id of f is in no other hands: the main thread is not moving the one it came from.
OwnId(f) == entity[f].id # move["main"].id

\* No live notification has the id of one that was live.
DeadNames ==
  \A e \in 1..made :
    /\ memId <= entity[e].id
    /\ entity[e].type # "NotProcessed" =>
         \A f \in mem : Live(f) /\ OwnId(f) => entity[f].id # entity[e].id

\* Nor one that the queue says was closed.
ClosedNews ==
  \A n \in 1..Len(events) : events[n].type # "NotProcessed" =>
    /\ memId <= events[n].id
    /\ \A f \in mem : Live(f) /\ OwnId(f) => entity[f].id # events[n].id

\* Every live notification has its banner, or its announcement is to come.
HaveBanners ==
  \A e \in mem : Live(e) => Unannounced(e) \/ e \in Panel!Shown \cup Panel!Queued

\* Of a bubble one notification is in memory, and while one that replaces it waits, it is
\* the one the worker moves.
BubbleInv ==
  /\ \A e, f \in mem : entity[e].bubble = entity[f].bubble => e = f
  /\ stage = "replacing" => \A e \in mem :
       entity[e].bubble = entity[notifying].bubble => e = move["worker"].ent

\* One for the call that was made and not announced.
Untold == IF stage \in {"replacing", "stored"} THEN 1 ELSE 0

\* Rows, waiting banners and arrivals to come are for different notifications of
\* those created, so the list never overflows if it has a row for each.
Counted ==
  /\ Len(bubbles) + Len(waiting) + Cardinality(NewsOf(events)) + Untold <= made
  /\ MaxEntities <= maxKeep

KeptInv == DeadNames /\ ClosedNews /\ HaveBanners /\ BubbleInv /\ Counted

\* The list is never too small.
Ample == \A n \in BubbleCounts : MaxEntities <= n + 2

\* The numbers that are counted.
LEMMA CountFacts ==
  ASSUME PanelInv, IInv, events \in Seq(Ann)
  PROVE  /\ Len(bubbles) \in Nat /\ Len(waiting) \in Nat /\ maxKeep \in Nat
         /\ Cardinality(NewsOf(events)) \in Nat /\ Untold \in {0, 1} /\ made \in Nat
         /\ made <= MaxEntities /\ MaxEntities \in Nat
<1>1. /\ Len(bubbles) \in Nat /\ Len(waiting) \in Nat /\ maxKeep \in Nat
  BY DEF PanelInv, Panel!TypeOK
<1>2. Cardinality(NewsOf(events)) \in Nat
  BY NewsCounted
<1>3. Untold \in {0, 1}
  BY DEF Untold
<1>4. made \in 0..MaxEntities /\ MaxEntities \in Nat
  BY BoundsAssumption DEF IInv, TypeOK
<1> QED
  BY <1>1, <1>2, <1>3, <1>4

\* What stays in memory is as it was, and while the main thread moves its id, it goes on to.
LEMMA LiveStays ==
  ASSUME FALSE \notin DbOutcomes, IInv, LinkInv, Moved, NEW f \in mem'
  PROVE  /\ f \in mem /\ f \in 1..made /\ entity'[f].id = entity[f].id
         /\ entity[f].id < 0 /\ entity[f].id \in Int
         /\ Live(f)' => Live(f)
         /\ OwnId(f)' => OwnId(f)
<1>1. f \in mem /\ f \in 1..made /\ Aged(f)
  BY MadeFacts DEF LinkInv, Moved
<1>2. /\ entity'[f].id = entity[f].id
      /\ entity'[f].type = "NotProcessed" => entity[f].type = "NotProcessed"
  BY <1>1, AgedFacts DEF LinkInv
<1>3. entity[f].id < 0 /\ entity[f].id \in Int
  BY <1>1, MadeFacts DEF LinkInv
<1>4. ASSUME entity[f].id = move["main"].id
      PROVE  entity[f].id = move'["main"].id
  <2>1. "main" \in Threads
    BY DEF Threads
  <2>2. move["main"].at # "none"
    BY <1>3, <1>4, <2>1 DEF IInv, Created, NoMove, None
  <2>3. move["main"].at # "finishing"
    BY <1>1, <1>4, <2>1 DEF LinkInv, Cleared
  <2>4. MoveGoes("main")
    BY <2>1 DEF Moved
  <2> QED
    BY <1>4, <2>2, <2>3, <2>4 DEF MoveGoes
<1> QED
  BY <1>1, <1>2, <1>3, <1>4 DEF Live, OwnId

\* Who ages gets no id of another that is in memory.
LEMMA AgedApart ==
  ASSUME IInv, LinkInv, DeadNames, NEW e \in 1..made, Aged(e), entity'[e].type # "NotProcessed",
         NEW f \in mem, Live(f), OwnId(f), entity'[f].type = "NotProcessed"
  PROVE  entity[f].id # entity'[e].id
<1>1. entity[f].id < 0 /\ entity[f].id \in Int
  BY MadeFacts DEF LinkInv
<1>2. CASE entity'[e].id = entity[e].id /\ entity'[e].type = entity[e].type
  BY <1>2 DEF DeadNames
<1>3. CASE e \in mem /\ entity'[e].id = entity[e].id
  BY <1>3 DEF LinkInv, StoreInv, IdsInv
<1>4. CASE entity'[e].id > 0
  BY <1>1, <1>4
<1> QED
  BY <1>2, <1>3, <1>4 DEF Aged

\* Nor an id not given out.
LEMMA AgedAbove ==
  ASSUME IInv, IInv', LinkInv, DeadNames, NEW e \in 1..made, Aged(e), 1..made \subseteq 1..made'
  PROVE  memId <= entity'[e].id /\ entity'[e].id \in Int
<1>1. memId <= 0 /\ memId \in Int /\ e \in Entities
  BY MadeFacts DEF LinkInv
<1>2. entity' \in [Entities -> Data]
  BY DEF IInv, TypeOK
<1>3. entity'[e].id \in Int
  BY <1>1, <1>2 DEF Data
<1>4. entity'[e].id = entity[e].id \/ entity'[e].id > 0
  BY DEF Aged
<1>5. memId <= entity[e].id
  BY DEF DeadNames
<1> QED
  BY <1>1, <1>3, <1>4, <1>5

\* Ids are dead for good.
LEMMA MovedKeepsDead ==
  ASSUME FALSE \notin DbOutcomes, IInv, IInv', LinkInv, DeadNames, Moved
  PROVE  DeadNames'
<1>1. made' = made /\ memId' = memId /\ \A e \in 1..made : Aged(e)
  BY DEF Moved
<1>2. ASSUME NEW e \in 1..made, entity'[e].type # "NotProcessed",
             NEW f \in mem', Live(f)', OwnId(f)'
      PROVE  entity'[f].id # entity'[e].id
  <2>1. f \in mem /\ entity'[f].id = entity[f].id /\ Live(f) /\ OwnId(f)
    BY <1>2, LiveStays
  <2>2. entity'[f].type = "NotProcessed"
    BY <1>2 DEF Live
  <2> QED
    BY <1>1, <1>2, <2>1, <2>2, AgedApart
<1>3. \A e \in 1..made : memId <= entity'[e].id
  BY <1>1, AgedAbove
<1> QED
  BY <1>1, <1>2, <1>3 DEF DeadNames

\* No live notification has the id i.
Foreign(i) == \A f \in mem : Live(f) /\ OwnId(f) => entity[f].id # i

\* A new notification has an id of its own, or the id of the one that left for it.
LEMMA ArrivedKeepsDead ==
  ASSUME Reliable, IInv, IInv', LinkInv, DeadNames, ClosedNews, Arrived, UNCHANGED events
  PROVE  DeadNames' /\ ClosedNews'
<1>0. PICK new : new = made + 1
  OBVIOUS
<1>1. /\ made \in Nat /\ mem \subseteq 1..made /\ memId \in Int /\ memId <= 0
      /\ \A e \in 1..made : entity[e].id \in Int /\ memId <= entity[e].id
      /\ \A e \in mem : entity[e].id < 0 /\ memId <= entity[e].id
  BY MadeFacts DEF LinkInv, DeadNames
<1>2. /\ made' = new /\ move' = move /\ \A e \in 1..made : entity'[e] = entity[e]
  BY <1>0 DEF Arrived
<1>3. new \notin 1..made /\ 1..new = (1..made) \cup {new}
  BY <1>0, <1>1
<1>4. \A n \in 1..Len(events) : events[n].id \in Int
  <2>1. \A n \in 1..Len(events) : events[n] \in Ann
    BY DEF LinkInv
  <2> QED
    BY <2>1 DEF Ann
<1>5. ASSUME NEW f \in mem, f \in 1..made, Live(f)', OwnId(f)'
      PROVE  Live(f) /\ OwnId(f) /\ entity'[f].id = entity[f].id
  BY <1>2, <1>5 DEF Live, OwnId
<1>6. CASE mem' = mem /\ memId' = memId /\ entity'[new].id > 0
  <2>1. DeadNames'
    <3>1. entity'[new].id \in Int
      <4>1. new \in Entities /\ entity' \in [Entities -> Data]
        <5>1. made' \in 0..MaxEntities /\ entity' \in [Entities -> Data]
          BY DEF IInv, TypeOK
        <5> QED
          BY <1>0, <1>1, <1>2, <5>1, BoundsAssumption DEF Entities
      <4> QED
        BY <4>1 DEF Data
    <3>2. memId <= entity'[new].id /\ \A f \in mem : entity'[f].id # entity'[new].id
      BY <1>1, <1>2, <1>6, <3>1
    <3>3. \A e \in 1..made : /\ memId <= entity'[e].id
                              /\ entity'[e].type # "NotProcessed" =>
                                   \A f \in mem : Live(f)' /\ OwnId(f)' =>
                                                    entity'[f].id # entity'[e].id
      BY <1>1, <1>2, <1>5 DEF DeadNames
    <3> QED
      BY <1>2, <1>3, <1>6, <3>2, <3>3 DEF DeadNames
  <2>2. ClosedNews'
    BY <1>1, <1>5, <1>6 DEF ClosedNews
  <2> QED
    BY <2>1, <2>2
<1>7. ASSUME entity'[new].type = "NotProcessed", memId' \in {memId, memId - 1},
             memId' <= entity'[new].id, mem' \subseteq mem \cup {new},
             \A i \in Int : memId <= i /\ Foreign(i) => (OwnId(new)' => entity'[new].id # i)
      PROVE  DeadNames' /\ ClosedNews'
  <2>1. memId' \in Int /\ memId' <= memId
    BY <1>1, <1>7
  <2>2. ASSUME NEW i \in Int, memId <= i, Foreign(i)
        PROVE  memId' <= i /\ \A f \in mem' : Live(f)' /\ OwnId(f)' => entity'[f].id # i
    <3>1. memId' <= i
      BY <1>1, <2>1, <2>2
    <3>2. \A f \in mem : Live(f)' /\ OwnId(f)' => entity'[f].id # i
      BY <1>1, <1>5, <2>2 DEF Foreign
    <3>3. OwnId(new)' => entity'[new].id # i
      BY <1>7, <2>2
    <3>4. \A f \in mem' : f \in mem \/ f = new
      BY <1>7
    <3>5. \A f \in mem' : Live(f)' /\ OwnId(f)' => entity'[f].id # i
      BY <3>2, <3>3, <3>4 DEF OwnId
    <3> QED
      BY <3>1, <3>5
  <2>3. DeadNames'
    <3>1. \A e \in 1..made : memId' <= entity'[e].id
      BY <1>1, <1>2, <2>1
    <3>2. ASSUME NEW e \in 1..made, entity'[e].type # "NotProcessed"
          PROVE  \A f \in mem' : Live(f)' /\ OwnId(f)' => entity'[f].id # entity'[e].id
      <4>1. entity[e].id \in Int /\ entity[e].type # "NotProcessed"
        BY <1>1, <1>2, <3>2
      <4>2. memId <= entity[e].id /\ Foreign(entity[e].id)
        BY <4>1 DEF DeadNames, Foreign
      <4> QED
        BY <1>2, <2>2, <4>1, <4>2
    <3> QED
      BY <1>2, <1>3, <1>7, <3>1, <3>2 DEF DeadNames
  <2>4. ClosedNews'
    <3>1. \A n \in 1..Len(events) : events[n].type # "NotProcessed" =>
            memId <= events[n].id /\ Foreign(events[n].id)
      BY DEF ClosedNews, Foreign
    <3> QED
      BY <1>4, <2>2, <3>1 DEF ClosedNews
  <2> QED
    BY <2>3, <2>4
<1>8. CASE /\ mem' = mem \cup {new} /\ memId' = memId - 1
           /\ entity'[new].type = "NotProcessed" /\ entity'[new].id = memId - 1
  <2>1. memId' <= entity'[new].id /\ \A i \in Int : memId <= i => entity'[new].id # i
    BY <1>1, <1>8
  <2>2. mem' \subseteq mem \cup {new} /\ memId' \in {memId, memId - 1}
    BY <1>8
  <2> QED
    BY <1>7, <1>8, <2>1, <2>2
<1>9. ASSUME memId' = memId, entity'[new].type = "NotProcessed",
             NEW old \in mem, mem' = (mem \ {old}) \cup {new}, move["worker"] = NoMove,
             entity'[new].id = entity[old].id
      PROVE  DeadNames' /\ ClosedNews'
  <2>1. old \in 1..made /\ None \notin 1..made /\ "main" \in Threads
    BY <1>1, MadeFacts DEF LinkInv, Threads
  <2>2. OwnId(new)' => OwnId(old) /\ Live(old)
    <3>1. OwnId(new)' => OwnId(old)
      BY <1>2, <1>9 DEF OwnId
    <3>2. ASSUME ~Live(old) PROVE entity[old].id = move["main"].id
      <4>1. \E t \in Threads : move[t].ent = old
        BY <3>2 DEF Reliable, LinkInv, HeldInv, Live
      <4>2. move["main"].ent = old
        BY <1>9, <2>1, <4>1 DEF Threads, NoMove
      <4>3. move["main"].at # "none"
        BY <2>1, <4>2, MadeFacts DEF LinkInv
      <4> QED
        BY <2>1, <4>2, <4>3, HeldId DEF LinkInv
    <3> QED
      BY <3>1, <3>2 DEF OwnId
  <2>3. /\ memId' <= entity'[new].id /\ mem' \subseteq mem \cup {new}
        /\ memId' \in {memId, memId - 1}
    BY <1>1, <1>9
  <2>4. \A i \in Int : Foreign(i) => (OwnId(new)' => entity'[new].id # i)
    BY <1>9, <2>2 DEF Foreign
  <2> QED
    BY <1>7, <1>9, <2>3, <2>4
<1> QED
  BY <1>0, <1>6, <1>8, <1>9 DEF Arrived, Reliable


\* One that waits has none, and no more than before are live.
LEMMA BeginsKeepsDead ==
  ASSUME IInv, LinkInv, DeadNames, ClosedNews, Begins, UNCHANGED events
  PROVE  DeadNames' /\ ClosedNews'
<1>0. PICK new : new = made + 1
  OBVIOUS
<1>1. /\ made \in Nat /\ mem \subseteq 1..made /\ memId \in Int /\ memId <= 0
      /\ "main" \in Threads
  BY MadeFacts DEF LinkInv, Threads
<1>2. /\ made' = new /\ mem' = mem /\ memId' = memId /\ move'["main"] = move["main"]
      /\ entity'[new].type = "NotProcessed" /\ entity'[new].id = 0
  BY <1>0 DEF Begins, None
<1>3. PICK old \in mem : /\ \A e \in 1..made : e # old => entity'[e] = entity[e]
                         /\ entity'[old].id = entity[old].id
                         /\ entity'[old].type = "Processed"
  BY DEF Begins
<1>4. new \notin 1..made /\ 1..new = (1..made) \cup {new}
  BY <1>0, <1>1
<1>5. ASSUME NEW f \in mem, Live(f)', OwnId(f)'
      PROVE  f # old /\ Live(f) /\ OwnId(f) /\ entity'[f] = entity[f]
  <2>1. f # old
    BY <1>3, <1>5 DEF Live
  <2>2. entity'[f] = entity[f]
    BY <1>1, <1>3, <2>1
  <2> QED
    BY <1>2, <1>5, <2>1, <2>2 DEF Live, OwnId
<1>6. ClosedNews'
  BY <1>2, <1>5 DEF ClosedNews
<1>7. ASSUME NEW e \in 1..made
      PROVE  /\ memId <= entity'[e].id
             /\ entity'[e].type # "NotProcessed" =>
                  \A f \in mem : Live(f)' /\ OwnId(f)' => entity'[f].id # entity'[e].id
  <2>1. CASE e # old
    <3>1. entity'[e] = entity[e]
      BY <1>3, <2>1
    <3> QED
      BY <1>5, <3>1 DEF DeadNames
  <2>2. CASE e = old
    <3>1. memId <= entity[old].id /\ \A f \in mem : f # old => entity[f].id # entity[old].id
      BY DEF LinkInv, StoreInv, IdsInv
    <3> QED
      BY <1>3, <1>5, <2>2, <3>1
  <2> QED
    BY <2>1, <2>2
<1>8. DeadNames'
  BY <1>1, <1>2, <1>4, <1>7 DEF DeadNames
<1> QED
  BY <1>6, <1>8

\* When it joins the live ones it gets the next.
LEMMA JoinsKeepsDead ==
  ASSUME IInv, IInv', LinkInv, DeadNames, ClosedNews, Joins, UNCHANGED events
  PROVE  DeadNames' /\ ClosedNews'
<1>1. /\ made \in Nat /\ mem \subseteq 1..made /\ memId \in Int /\ memId <= 0
      /\ notifying \in 1..made
  BY MadeFacts DEF LinkInv, Joins
<1>2. /\ made' = made /\ mem' = mem \cup {notifying} /\ memId' = memId - 1
      /\ move'["main"] = move["main"]
      /\ \A e \in 1..made : e # notifying => Aged(e)
      /\ entity'[notifying].type = "NotProcessed" /\ entity'[notifying].id = memId - 1
  BY DEF Joins
<1>3. ASSUME NEW f \in mem, f # notifying, Live(f)', OwnId(f)'
      PROVE  Live(f) /\ OwnId(f) /\ entity'[f].id = entity[f].id
             /\ entity'[f].type = "NotProcessed"
  <2>1. Aged(f) /\ f \in 1..made
    BY <1>1, <1>2, <1>3
  <2>2. entity'[f].type = "NotProcessed"
    BY <1>3 DEF Live
  <2>3. entity[f].type = "NotProcessed" /\ entity'[f].id = entity[f].id
    BY <2>1, <2>2, AgedFacts DEF LinkInv
  <2> QED
    BY <1>2, <1>3, <2>2, <2>3 DEF Live, OwnId
<1>4. \A n \in 1..Len(events) : events[n].id \in Int
  <2>1. \A n \in 1..Len(events) : events[n] \in Ann
    BY DEF LinkInv
  <2> QED
    BY <2>1 DEF Ann
<1>5. ClosedNews'
  <2>1. ASSUME NEW n \in 1..Len(events), events[n].type # "NotProcessed"
        PROVE  /\ memId - 1 <= events[n].id /\ memId - 1 # events[n].id
               /\ \A f \in mem : f # notifying /\ Live(f)' /\ OwnId(f)'
                                   => entity'[f].id # events[n].id
    <3>1. memId <= events[n].id /\ events[n].id \in Int
      BY <1>4, <2>1 DEF ClosedNews
    <3>2. memId - 1 <= events[n].id /\ memId - 1 # events[n].id
      BY <1>1, <3>1
    <3> QED
      BY <1>3, <2>1, <3>2 DEF ClosedNews
  <2> QED
    BY <1>2, <2>1 DEF ClosedNews
<1>6. ASSUME NEW e \in 1..made
      PROVE  /\ memId - 1 <= entity'[e].id
             /\ entity'[e].type # "NotProcessed" =>
                  \A f \in mem' : Live(f)' /\ OwnId(f)' => entity'[f].id # entity'[e].id
  <2>1. CASE e = notifying
    BY <1>1, <1>2, <2>1
  <2>2. CASE e # notifying
    <3>1. Aged(e) /\ memId <= entity'[e].id /\ entity'[e].id \in Int
      <4>1. Aged(e) /\ 1..made \subseteq 1..made'
        BY <1>2, <2>2
      <4> QED
        BY <4>1, AgedAbove
    <3>2. memId - 1 <= entity'[e].id /\ memId - 1 # entity'[e].id
      BY <1>1, <3>1
    <3>3. entity'[e].type # "NotProcessed" =>
            \A f \in mem : f # notifying /\ Live(f)' /\ OwnId(f)' => entity'[f].id # entity'[e].id
      BY <1>3, <3>1, AgedApart
    <3> QED
      BY <1>2, <3>2, <3>3
  <2> QED
    BY <2>1, <2>2
<1>7. DeadNames'
  BY <1>2, <1>6 DEF DeadNames
<1> QED
  BY <1>5, <1>7
-----------------------------------------------------------------------------
(* What steps do to the queue of announcements.                               *)

\* What the queue says was closed was said before or is gone by now.
ClosedTold ==
  \A n \in 1..Len(events') : events'[n].type # "NotProcessed" =>
    \/ \E m \in 1..Len(events) : events[m] = events'[n]
    \/ memId <= events'[n].id /\ \A f \in mem' : entity'[f].id # events'[n].id

\* No arrival gets lost.
NewsStay ==
  /\ \A i : Arriving(i) => Arriving(i)'
  /\ Cardinality(NewsOf(events')) <= Cardinality(NewsOf(events))

\* Such is a queue that is left alone ...
LEMMA SameQueue ==
  ASSUME events \in Seq(Ann), UNCHANGED events
  PROVE  ClosedTold /\ NewsStay
<1>1. Cardinality(NewsOf(events)) \in Nat
  BY NewsCounted
<1> QED
  BY <1>1 DEF ClosedTold, NewsStay, Arriving

\* ... and one that gets what a step told.
LEMMA ToldQueue ==
  ASSUME FALSE \notin DbOutcomes, events \in Seq(Ann), Told, Queue
  PROVE  ClosedTold /\ NewsStay
<1>1. CASE changed' = <<>>
  <2>1. events' = events
    BY <1>1 DEF Queue
  <2> QED
    BY <2>1, SameQueue
<1>2. ASSUME NEW c \in Ann, changed' = <<c>>, c.type # "NotProcessed", memId <= c.id,
             \A f \in mem' : entity'[f].id # c.id
      PROVE  ClosedTold /\ NewsStay
  <2>1. events' = Append(events, c)
    BY <1>2 DEF Queue
  <2>2. /\ Len(events) \in Nat /\ Len(events') = Len(events) + 1
        /\ \A n \in 1..Len(events) : events'[n] = events[n]
        /\ events'[Len(events) + 1] = c
    BY <2>1
  <2>3. /\ \A n \in 1..Len(events') : n \in 1..Len(events) \/ n = Len(events) + 1
        /\ \A n \in 1..Len(events) : n \in 1..Len(events')
    BY <2>2
  <2>4. Cardinality(NewsOf(events')) <= Cardinality(NewsOf(events))
    <3>1. PICK t : t = events'
      OBVIOUS
    <3> QED
      BY <1>2, <2>1, <3>1, NewsAdded
  <2> QED
    BY <1>2, <2>2, <2>3, <2>4 DEF ClosedTold, NewsStay, Arriving
<1> QED
  BY <1>1, <1>2 DEF Told

\* Taking one loses at most that one.
LEMMA TakenQueue ==
  ASSUME events \in Seq(Ann), events # <<>>, events' = Tail(events)
  PROVE  /\ ClosedTold
         /\ \A i : Arriving(i) => \/ Arriving(i)'
                                  \/ Head(events).type = "NotProcessed" /\ Head(events).id = i
         /\ Cardinality(NewsOf(events')) <= Cardinality(NewsOf(events))
         /\ Head(events).type = "NotProcessed" =>
              Cardinality(NewsOf(events')) + 1 <= Cardinality(NewsOf(events))
<1>1. /\ Len(events) \in Nat /\ Len(events') = Len(events) - 1 /\ Head(events) = events[1]
      /\ \A n \in 1..Len(events') : events'[n] = events[n + 1]
  OBVIOUS
<1>2. \A n \in 1..Len(events') : n + 1 \in 1..Len(events)
  BY <1>1
<1>3. ClosedTold
  BY <1>1, <1>2 DEF ClosedTold
<1>4. ASSUME NEW i, NEW n \in 1..Len(events), events[n].id = i,
             events[n].type = "NotProcessed", n # 1
      PROVE  Arriving(i)'
  <2>1. n - 1 \in 1..Len(events') /\ (n - 1) + 1 = n
    BY <1>1, <1>4
  <2>2. events'[n - 1] = events[n]
    BY <1>1, <2>1
  <2> QED
    BY <1>4, <2>1, <2>2 DEF Arriving
<1>5. PICK t : t = events'
  OBVIOUS
<1>6. /\ Cardinality(NewsOf(t)) <= Cardinality(NewsOf(events))
      /\ Head(events).type = "NotProcessed" =>
           Cardinality(NewsOf(t)) + 1 <= Cardinality(NewsOf(events))
  BY <1>5, NewsTaken
<1> QED
  BY <1>1, <1>3, <1>4, <1>5, <1>6 DEF Arriving

-----------------------------------------------------------------------------
(* A live notification keeps its banner through every step.                    *)

\* Of a bubble no second one comes to memory.
LEMMA MovedKeepsBubbles ==
  ASSUME FALSE \notin DbOutcomes, IInv, LinkInv, BubbleInv, Moved, SameCall
  PROVE  BubbleInv'
<1>1. /\ mem' \subseteq mem /\ mem \subseteq 1..made /\ "worker" \in Threads
      /\ \A e \in 1..made : entity'[e].bubble = entity[e].bubble
  BY MadeFacts DEF LinkInv, Moved, Aged, Threads
<1>2. \A e, f \in mem' : entity'[e].bubble = entity'[f].bubble => e = f
  BY <1>1 DEF BubbleInv
<1>3. ASSUME stage' = "replacing"
      PROVE  \A e \in mem' :
               entity'[e].bubble = entity'[notifying'].bubble => e = move'["worker"].ent
  <2>1. stage = "replacing" /\ notifying' = notifying
    BY <1>3, CallStays
  <2>2. notifying \in 1..made
    BY <2>1, MadeFacts DEF LinkInv
  <2>3. move'["worker"].ent = move["worker"].ent
    <3>1. MoveGoes("worker") /\ move["worker"].at # "none"
      BY <1>1, <2>1 DEF Moved, IInv, Replacing
    <3> QED
      BY <2>1, <3>1 DEF MoveGoes
  <2> QED
    BY <1>1, <2>1, <2>2, <2>3 DEF BubbleInv
<1> QED
  BY <1>2, <1>3 DEF BubbleInv

\* A step that moves notifications: each of those that stay keeps its banner, or an
\* arrival that will bring it.
LEMMA StepKeepsAll ==
  ASSUME Reliable, IInv, IInv', PanelInv, LinkInv, KeptInv, Moved, SameCall,
         ClosedTold, events' \in Seq(Ann), PanelInv',
         \A f \in mem' :
           Live(f)' /\ (f \in Panel!Shown \cup Panel!Queued \/ Arriving(entity[f].id))
             => f \in Panel!Shown' \cup Panel!Queued' \/ Arriving(entity[f].id)',
         Len(bubbles') + Len(waiting') + Cardinality(NewsOf(events'))
           <= Len(bubbles) + Len(waiting) + Cardinality(NewsOf(events)),
         MaxEntities <= maxKeep'
  PROVE  KeptInv'
<1>1. FALSE \notin DbOutcomes /\ made' = made /\ memId' = memId
  BY DEF Reliable, Moved
<1>2. DeadNames'
  BY <1>1, MovedKeepsDead DEF KeptInv
<1>3. ClosedNews'
  <2>1. PICK t : t = events'
    OBVIOUS
  <2>2. ASSUME NEW n \in 1..Len(t), t[n].type # "NotProcessed"
        PROVE  /\ memId <= t[n].id
               /\ \A f \in mem' : Live(f)' /\ OwnId(f)' => entity'[f].id # t[n].id
    <3>1. CASE \E m \in 1..Len(events) : events[m] = t[n]
      <4>1. /\ memId <= t[n].id
            /\ \A f \in mem : Live(f) /\ OwnId(f) => entity[f].id # t[n].id
        BY <2>2, <3>1 DEF KeptInv, ClosedNews
      <4>2. ASSUME NEW f \in mem', Live(f)', OwnId(f)'
            PROVE  entity'[f].id # t[n].id
        <5>1. f \in mem /\ entity'[f].id = entity[f].id /\ Live(f) /\ OwnId(f)
          BY <1>1, <4>2, LiveStays
        <5> QED
          BY <4>1, <5>1
      <4> QED
        BY <4>1, <4>2
    <3>2. CASE memId <= t[n].id /\ \A f \in mem' : entity'[f].id # t[n].id
      BY <3>2
    <3> QED
      BY <2>1, <2>2, <3>1, <3>2 DEF ClosedTold
  <2> QED
    BY <1>1, <2>1, <2>2 DEF ClosedNews
<1>4. HaveBanners'
  <2>1. ASSUME NEW f \in mem', Live(f)'
        PROVE  Unannounced(f)' \/ f \in (Panel!Shown \cup Panel!Queued)'
    <3>1. f \in mem /\ Live(f)
      BY <1>1, <2>1, LiveStays
    <3>2. CASE f \in Panel!Shown \cup Panel!Queued \/ Arriving(entity[f].id)
      BY <2>1, <3>2 DEF Arriving, Unannounced
    <3>3. CASE notifying = f /\ stage = "stored"
      BY <3>3 DEF SameCall, call, Unannounced
    <3> QED
      BY <3>1, <3>2, <3>3 DEF KeptInv, HaveBanners, Unannounced, Arriving
  <2> QED
    BY <2>1 DEF HaveBanners
<1>5. Counted'
  <2>1. /\ Len(bubbles) \in Nat /\ Len(waiting) \in Nat
        /\ Cardinality(NewsOf(events)) \in Nat /\ Untold \in {0, 1} /\ made \in Nat
    BY CountFacts DEF LinkInv
  <2>2. /\ Len(bubbles') \in Nat /\ Len(waiting') \in Nat
        /\ Cardinality(NewsOf(events')) \in Nat
    <3>1. PICK t : t = events'
      OBVIOUS
    <3>2. Cardinality(NewsOf(t)) \in Nat
      BY <3>1, NewsCounted
    <3> QED
      BY <3>1, <3>2 DEF PanelInv, Panel!TypeOK
  <2>3. Untold' = Untold
    BY DEF SameCall, call, Untold
  <2>4. Len(bubbles) + Len(waiting) + Cardinality(NewsOf(events)) + Untold <= made
    BY DEF KeptInv, Counted
  <2>5. Len(bubbles') + Len(waiting') + Cardinality(NewsOf(events')) + Untold' <= made
    <3> DEFINE before == Len(bubbles) + Len(waiting) + Cardinality(NewsOf(events))
               after  == Len(bubbles') + Len(waiting') + Cardinality(NewsOf(events'))
    <3>1. before \in Int /\ after \in Int /\ after <= before /\ before + Untold <= made
      BY <2>1, <2>2, <2>4
    <3>2. Untold' = Untold /\ Untold \in Int /\ made \in Int
      BY <2>1, <2>3
    <3> HIDE DEF Untold, before, after
    <3>3. after + Untold' <= made
      BY <3>1, <3>2
    <3> QED
      BY <3>3 DEF after
  <2> QED
    BY <1>1, <2>5 DEF Counted
<1>6. BubbleInv'
  BY <1>1, MovedKeepsBubbles DEF KeptInv
<1> QED
  BY <1>2, <1>3, <1>4, <1>5, <1>6 DEF KeptInv

\* So it is when no arrival and no row of theirs goes.
LEMMA MovedKeepsAll ==
  ASSUME Reliable, IInv, IInv', PanelInv, LinkInv, KeptInv, Moved, SameCall,
         ClosedTold, NewsStay, events' \in Seq(Ann), PanelInv',
         \A f \in mem' : Live(f)' /\ f \in Panel!Shown \cup Panel!Queued
                           => f \in Panel!Shown' \cup Panel!Queued',
         Len(bubbles') + Len(waiting') <= Len(bubbles) + Len(waiting),
         MaxEntities <= maxKeep'
  PROVE  KeptInv'
<1>1. ASSUME NEW f \in mem', Live(f)',
             f \in Panel!Shown \cup Panel!Queued \/ Arriving(entity[f].id)
      PROVE  f \in Panel!Shown' \cup Panel!Queued' \/ Arriving(entity[f].id)'
  <2>1. PICK i : i = entity[f].id
    OBVIOUS
  <2>2. entity'[f].id = i
    BY <2>1, LiveStays DEF Reliable
  <2>3. Arriving(i) => Arriving(i)'
    BY DEF NewsStay
  <2> QED
    BY <1>1, <2>1, <2>2, <2>3 DEF Arriving
<1>2. Len(bubbles') + Len(waiting') + Cardinality(NewsOf(events'))
        <= Len(bubbles) + Len(waiting) + Cardinality(NewsOf(events))
  <2>1. PICK t : t = events'
    OBVIOUS
  <2>2. /\ Cardinality(NewsOf(t)) \in Nat /\ Cardinality(NewsOf(events)) \in Nat
        /\ Cardinality(NewsOf(t)) <= Cardinality(NewsOf(events))
    BY <2>1, NewsCounted DEF LinkInv, NewsStay
  <2>3. /\ Len(bubbles) \in Nat /\ Len(waiting) \in Nat
        /\ Len(bubbles') \in Nat /\ Len(waiting') \in Nat
    BY DEF PanelInv, Panel!TypeOK
  <2>4. Len(bubbles') + Len(waiting') + Cardinality(NewsOf(t))
          <= Len(bubbles) + Len(waiting) + Cardinality(NewsOf(events))
    BY <2>2, <2>3
  <2> QED
    BY <2>1, <2>4
<1>3. \A f \in mem' :
        Live(f)' /\ (f \in Panel!Shown \cup Panel!Queued \/ Arriving(entity[f].id))
          => f \in Panel!Shown' \cup Panel!Queued' \/ Arriving(entity[f].id)'
  BY <1>1 DEF Live
<1> QED
  BY <1>2, <1>3, StepKeepsAll

\* The announcement of the new notification takes over from the call.
LEMMA AnnounceKeepsAll ==
  ASSUME Reliable, IInv, IInv', PanelInv, LinkInv, KeptInv,
         Announce, Queue, UNCHANGED banners
  PROVE  KeptInv'
<1>1. /\ stage = "stored" /\ stage' = "announced" /\ UNCHANGED <<heap, store, notifying>>
      /\ changed' = <<[id |-> entity[notifying].id, type |-> entity[notifying].type]>>
  BY DEF Announce
<1>2. notifying \in 1..made /\ notifying \in Entities
  BY <1>1, MadeFacts DEF LinkInv
<1>3. PICK c : c = [id |-> entity[notifying].id, type |-> entity[notifying].type]
  OBVIOUS
<1>4. c \in Ann /\ c.id = entity[notifying].id /\ c.type = entity[notifying].type
  <2>1. entity[notifying] \in Data
    BY <1>2 DEF IInv, TypeOK
  <2> QED
    BY <1>3, <2>1 DEF Ann, Data
<1>5. events' = Append(events, c) /\ events \in Seq(Ann)
  BY <1>1, <1>3 DEF Queue, LinkInv
<1>6. /\ Len(events) \in Nat /\ Len(events') = Len(events) + 1
      /\ \A n \in 1..Len(events) : events'[n] = events[n]
      /\ events'[Len(events) + 1] = c
  BY <1>4, <1>5
<1>7. /\ \A n \in 1..Len(events') : n \in 1..Len(events) \/ n = Len(events) + 1
      /\ \A n \in 1..Len(events) : n \in 1..Len(events')
      /\ Len(events) + 1 \in 1..Len(events')
  BY <1>6
<1>8. UNCHANGED <<made, entity, mem, memId, move, bubbles, waiting, maxKeep>>
  BY <1>1 DEF heap, store, moves, banners
<1>9. DeadNames'
  BY <1>8 DEF KeptInv, DeadNames, Live, OwnId
<1>10. ClosedNews'
  <2>1. c.type # "NotProcessed" =>
          /\ memId <= c.id
          /\ \A f \in mem : Live(f) /\ OwnId(f) => entity[f].id # c.id
    BY <1>2, <1>4 DEF KeptInv, DeadNames
  <2> QED
    BY <1>6, <1>7, <1>8, <2>1 DEF KeptInv, ClosedNews, Live, OwnId
<1>11. HaveBanners'
  <2>1. ASSUME NEW f \in mem, Live(f)
        PROVE  Unannounced(f)' \/ f \in (Panel!Shown \cup Panel!Queued)'
    <3>1. CASE f \in Panel!Shown \cup Panel!Queued
      BY <1>8, <3>1 DEF Panel!Shown, Panel!Queued
    <3>2. CASE notifying = f
      <4>1. c.type = "NotProcessed" /\ c.id = entity[f].id
        BY <1>4, <2>1, <3>2 DEF Live
      <4> QED
        BY <1>6, <1>7, <1>8, <4>1 DEF Unannounced
    <3>3. CASE Arriving(entity[f].id)
      BY <1>6, <1>7, <1>8, <3>3 DEF Unannounced, Arriving
    <3> QED
      BY <2>1, <3>1, <3>2, <3>3 DEF KeptInv, HaveBanners, Unannounced, Arriving
  <2> QED
    BY <1>8, <2>1 DEF HaveBanners, Live
<1>12. Counted'
  <2>1. /\ Len(bubbles) \in Nat /\ Len(waiting) \in Nat
        /\ Cardinality(NewsOf(events)) \in Nat /\ made \in Nat
    BY CountFacts DEF LinkInv
  <2>2. PICK t : t = events'
    OBVIOUS
  <2>3. /\ Cardinality(NewsOf(t)) <= Cardinality(NewsOf(events)) + 1
        /\ Cardinality(NewsOf(t)) \in Nat
    <3>1. t = Append(events, c) /\ t \in Seq(Ann)
      BY <1>4, <1>5, <2>2
    <3> QED
      BY <1>4, <1>5, <3>1, NewsAdded, NewsCounted
  <2>4. Untold = 1 /\ Untold' = 0
    BY <1>1 DEF Untold
  <2>5. Len(bubbles) + Len(waiting) + Cardinality(NewsOf(events)) + 1 <= made
    BY <2>4 DEF KeptInv, Counted
  <2>6. Len(bubbles) + Len(waiting) + Cardinality(NewsOf(t)) + 0 <= made
    BY <2>1, <2>3, <2>5
  <2> QED
    BY <1>8, <2>2, <2>4, <2>6 DEF KeptInv, Counted
<1>13. BubbleInv'
  BY <1>1, <1>8 DEF KeptInv, BubbleInv
<1> QED
  BY <1>9, <1>10, <1>11, <1>12, <1>13 DEF KeptInv

\* An arrival in the store is still to be announced.
LEMMA ArrivedKeepsAll ==
  ASSUME Reliable, IInv, IInv', PanelInv, LinkInv, KeptInv,
         Arrived, UNCHANGED <<events, banners>>
  PROVE  KeptInv'
<1>1. DeadNames' /\ ClosedNews'
  BY ArrivedKeepsDead DEF KeptInv
<1>2. UNCHANGED <<bubbles, waiting, maxKeep>>
  BY DEF banners
<1>3. /\ made' = made + 1 /\ notifying' = made + 1 /\ stage' = "stored" /\ stage = "idle"
      /\ mem' \subseteq mem \cup {made + 1}
  BY DEF Arrived
<1>6. \A e \in 1..made : entity'[e] = entity[e]
  BY DEF Arrived
<1>4. HaveBanners'
  <2>1. ASSUME NEW f \in mem', Live(f)', f # made + 1
        PROVE  Unannounced(f)' \/ f \in (Panel!Shown \cup Panel!Queued)'
    <3>1. f \in mem /\ f \in 1..made
      BY <1>3, <2>1, MadeFacts DEF LinkInv
    <3>2. entity'[f].id = entity[f].id /\ Live(f)
      BY <1>6, <2>1, <3>1 DEF Live
    <3>3. CASE f \in Panel!Shown \cup Panel!Queued
      BY <1>2, <3>3 DEF Panel!Shown, Panel!Queued
    <3>4. CASE Arriving(entity[f].id)
      BY <3>2, <3>4 DEF Arriving, Unannounced
    <3> QED
      BY <1>3, <3>1, <3>2, <3>3, <3>4 DEF KeptInv, HaveBanners, Unannounced, Arriving
  <2>2. ASSUME NEW f \in mem', f = made + 1
        PROVE  Unannounced(f)'
    BY <1>3, <2>2 DEF Unannounced
  <2> QED
    BY <2>1, <2>2 DEF HaveBanners, Live
<1>5. Counted'
  <2>1. /\ Len(bubbles) \in Nat /\ Len(waiting) \in Nat
        /\ Cardinality(NewsOf(events)) \in Nat /\ made \in Nat
    BY CountFacts DEF LinkInv
  <2>2. Untold = 0 /\ Untold' = 1
    BY <1>3 DEF Untold
  <2>3. Len(bubbles) + Len(waiting) + Cardinality(NewsOf(events)) + 0 <= made
    BY <2>2 DEF KeptInv, Counted
  <2>4. Len(bubbles) + Len(waiting) + Cardinality(NewsOf(events)) + 1 <= made + 1
    BY <2>1, <2>3
  <2> QED
    BY <1>2, <1>3, <2>2, <2>4 DEF KeptInv, Counted
<1>7. BubbleInv'
  <2>1. /\ made \in Nat /\ mem \subseteq 1..made
        /\ \A e \in mem : entity[e].bubble \in Nat /\ entity[e].bubble <= replaces
        /\ replaces \in Nat
    <3>1. made \in Nat /\ mem \subseteq 1..made /\ 1..made \subseteq Entities
      BY MadeFacts DEF LinkInv
    <3>2. \A e \in mem : entity[e] \in Data /\ entity[e].bubble <= replaces
      BY <3>1 DEF IInv, TypeOK, LinkInv, StoreInv, CallInv
    <3> QED
      BY <3>1, <3>2 DEF Data, IInv, TypeOK
  <2>2. PICK new : new = made + 1
    OBVIOUS
  <2>3. new \notin mem /\ \A e \in mem : entity'[e] = entity[e]
    BY <1>6, <2>1, <2>2
  <2>4. \A e, f \in mem : entity[e].bubble = entity[f].bubble => e = f
    BY DEF KeptInv, BubbleInv
  <2>5. CASE mem' = mem
    BY <1>3, <2>3, <2>4, <2>5 DEF BubbleInv
  <2>6. CASE mem' = mem \cup {new} /\ entity'[new].bubble = replaces + 1
    <3>1. ASSUME NEW e \in mem PROVE entity'[e].bubble # entity'[new].bubble
      <4>1. PICK b : b = entity[e].bubble
        OBVIOUS
      <4>2. b # replaces + 1
        BY <2>1, <4>1
      <4> QED
        BY <2>3, <2>6, <4>1, <4>2
    <3> QED
      BY <1>3, <2>3, <2>4, <2>6, <3>1 DEF BubbleInv
  <2>7. ASSUME NEW old \in mem, mem' = (mem \ {old}) \cup {new},
               entity'[new].bubble = entity[old].bubble
        PROVE  BubbleInv'
    <3>1. \A e \in mem \ {old} : entity'[e].bubble # entity'[new].bubble
      BY <2>3, <2>4, <2>7
    <3> QED
      BY <1>3, <2>3, <2>4, <2>7, <3>1 DEF BubbleInv
  <2> QED
    BY <2>2, <2>5, <2>6, <2>7 DEF Arrived
<1> QED
  BY <1>1, <1>4, <1>5, <1>7 DEF KeptInv

\* A replacement waits for the one that leaves.
LEMMA BeginsKeepsAll ==
  ASSUME IInv, IInv', PanelInv, LinkInv, KeptInv, Begins, UNCHANGED <<events, banners>>
  PROVE  KeptInv'
<1>1. DeadNames' /\ ClosedNews'
  BY BeginsKeepsDead DEF KeptInv
<1>2. UNCHANGED <<bubbles, waiting, maxKeep>>
  BY DEF banners
<1>3. /\ made' = made + 1 /\ notifying' = made + 1 /\ stage' = "replacing" /\ stage = "idle"
      /\ mem' = mem /\ mem \subseteq 1..made /\ made \in Nat
  BY MadeFacts DEF Begins, LinkInv
<1>4. PICK old \in mem : /\ \A e \in 1..made : e # old => entity'[e] = entity[e]
                         /\ entity'[old].type = "Processed"
                         /\ entity'[old].bubble = entity[old].bubble
                         /\ entity'[made + 1].bubble = entity[old].bubble
                         /\ move'["worker"].ent = old
  BY DEF Begins
<1>5. HaveBanners'
  <2>1. ASSUME NEW f \in mem, Live(f)'
        PROVE  Unannounced(f)' \/ f \in (Panel!Shown \cup Panel!Queued)'
    <3>1. f # old
      BY <1>4, <2>1 DEF Live
    <3>2. entity'[f] = entity[f] /\ Live(f)
      BY <1>3, <1>4, <2>1, <3>1 DEF Live
    <3>3. CASE f \in Panel!Shown \cup Panel!Queued
      BY <1>2, <3>3 DEF Panel!Shown, Panel!Queued
    <3>4. CASE Arriving(entity[f].id)
      BY <3>2, <3>4 DEF Arriving, Unannounced
    <3> QED
      BY <1>3, <3>2, <3>3, <3>4 DEF KeptInv, HaveBanners, Unannounced, Arriving
  <2> QED
    BY <1>3, <2>1 DEF HaveBanners, Live
<1>6. BubbleInv'
  <2>1. /\ \A e, f \in mem : entity[e].bubble = entity[f].bubble => e = f
        /\ \A e \in mem : entity'[e].bubble = entity[e].bubble
    BY <1>3, <1>4 DEF KeptInv, BubbleInv
  <2> QED
    BY <1>3, <1>4, <2>1 DEF BubbleInv
<1>7. Counted'
  <2>1. /\ Len(bubbles) \in Nat /\ Len(waiting) \in Nat
        /\ Cardinality(NewsOf(events)) \in Nat
    BY CountFacts DEF LinkInv
  <2>2. Untold = 0 /\ Untold' = 1
    BY <1>3 DEF Untold
  <2>3. Len(bubbles) + Len(waiting) + Cardinality(NewsOf(events)) + 0 <= made
    BY <2>2 DEF KeptInv, Counted
  <2>4. Len(bubbles) + Len(waiting) + Cardinality(NewsOf(events)) + 1 <= made + 1
    BY <1>3, <2>1, <2>3
  <2> QED
    BY <1>2, <1>3, <2>2, <2>4 DEF KeptInv, Counted
<1> QED
  BY <1>1, <1>5, <1>6, <1>7 DEF KeptInv

\* When it joins the live ones it is still to be announced.
LEMMA JoinsKeepsAll ==
  ASSUME Reliable, IInv, IInv', PanelInv, LinkInv, KeptInv, Joins, UNCHANGED <<events, banners>>
  PROVE  KeptInv'
<1>1. DeadNames' /\ ClosedNews'
  BY JoinsKeepsDead DEF KeptInv
<1>2. UNCHANGED <<bubbles, waiting, maxKeep>>
  BY DEF banners
<1>3. /\ UNCHANGED <<made, notifying>> /\ stage = "replacing" /\ stage' = "stored"
      /\ mem' = mem \cup {notifying} /\ mem \subseteq 1..made /\ notifying \in 1..made
      /\ move["worker"].at = "finishing" /\ "worker" \in Threads
      /\ \A e \in 1..made : e # notifying => Aged(e)
      /\ entity'[notifying].bubble = entity[notifying].bubble
  BY MadeFacts DEF Joins, LinkInv, Threads
<1>4. HaveBanners'
  <2>1. ASSUME NEW f \in mem, f # notifying, Live(f)'
        PROVE  Unannounced(f)' \/ f \in (Panel!Shown \cup Panel!Queued)'
    <3>1. Aged(f) /\ entity'[f].type = "NotProcessed" /\ f \in 1..made
      BY <1>3, <2>1 DEF Live
    <3>2. entity'[f].id = entity[f].id /\ Live(f)
      BY <3>1, AgedFacts DEF LinkInv, Live
    <3>3. CASE f \in Panel!Shown \cup Panel!Queued
      BY <1>2, <3>3 DEF Panel!Shown, Panel!Queued
    <3>4. CASE Arriving(entity[f].id)
      BY <3>2, <3>4 DEF Arriving, Unannounced
    <3> QED
      BY <1>3, <3>2, <3>3, <3>4 DEF KeptInv, HaveBanners, Unannounced, Arriving
  <2>2. Unannounced(notifying)'
    BY <1>3 DEF Unannounced
  <2>3. ASSUME NEW f \in mem', Live(f)'
        PROVE  Unannounced(f)' \/ f \in (Panel!Shown \cup Panel!Queued)'
    <3>1. CASE f = notifying
      BY <1>3, <3>1 DEF Unannounced
    <3>2. CASE f # notifying
      BY <1>3, <2>1, <2>3, <3>2
    <3> QED
      BY <3>1, <3>2
  <2> QED
    BY <2>3 DEF HaveBanners, Live
<1>5. BubbleInv'
  <2>1. \A e \in mem : entity[e].bubble # entity[notifying].bubble
    <3>1. ASSUME NEW e \in mem, entity[e].bubble = entity[notifying].bubble
          PROVE  FALSE
      <4>1. e = move["worker"].ent
        BY <1>3, <3>1 DEF KeptInv, BubbleInv
      <4>2. entity[e].id = move["worker"].id
        BY <1>3, <4>1, HeldId DEF LinkInv
      <4> QED
        BY <1>3, <4>2 DEF LinkInv, Cleared, Reliable
    <3> QED
      BY <3>1
  <2>2. \A e \in 1..made : entity'[e].bubble = entity[e].bubble
    BY <1>3 DEF Aged
  <2>3. \A e, f \in mem : entity[e].bubble = entity[f].bubble => e = f
    BY DEF KeptInv, BubbleInv
  <2> QED
    BY <1>3, <2>1, <2>2, <2>3 DEF BubbleInv
<1>6. Counted'
  <2>1. Untold' = Untold
    BY <1>3 DEF Untold
  <2> QED
    BY <1>2, <1>3, <2>1 DEF KeptInv, Counted
<1> QED
  BY <1>1, <1>4, <1>5, <1>6 DEF KeptInv

\* The announcements of the worker.
LEMMA WorkerKeepsAll ==
  ASSUME Reliable, SystemInv, SystemInv', LinkInv, LinkInv', KeptInv, WorkerStep
  PROVE  KeptInv'
<1>1. /\ IInv /\ IInv' /\ PanelInv /\ PanelInv' /\ StoreInv /\ Cleared
      /\ events \in Seq(Ann) /\ events' \in Seq(Ann) /\ FALSE \notin DbOutcomes
  BY DEF SystemInv, LinkInv, Reliable
<1>2. Queue /\ UNCHANGED banners
  BY DEF WorkerStep
<1>3. CASE Announce
  BY <1>1, <1>2, <1>3, AnnounceKeepsAll
<1>4. CASE Arrived \/ Begins \/ Joins
  <2>1. changed' = <<>>
    BY <1>4 DEF Arrived, Begins, Joins
  <2>2. events' = events
    BY <1>1, <1>2, <2>1 DEF Queue
  <2> QED
    BY <1>1, <1>2, <1>4, <2>2, ArrivedKeepsAll, BeginsKeepsAll, JoinsKeepsAll
<1>5. CASE Moved /\ Told /\ SameCall
  <2>1. ClosedTold /\ NewsStay
    BY <1>1, <1>2, <1>5, ToldQueue
  <2>2. UNCHANGED <<bubbles, waiting, maxKeep, Panel!Shown, Panel!Queued>>
    BY <1>2 DEF banners, Panel!Shown, Panel!Queued
  <2>3. Len(bubbles') + Len(waiting') <= Len(bubbles) + Len(waiting)
    BY <1>1, <2>2, CountFacts
  <2>4. MaxEntities <= maxKeep'
    BY <2>2 DEF KeptInv, Counted
  <2> QED
    BY <1>1, <1>5, <2>1, <2>2, <2>3, <2>4, MovedKeepsAll
<1> QED
  BY <1>1, <1>3, <1>4, <1>5, WorkerMoves

\* A call on the main thread: what it announces takes no other banner with it.
LEMMA MainKeepsAll ==
  ASSUME Reliable, SystemInv, SystemInv', LinkInv, LinkInv', KeptInv,
         Moved, SameCall, Told, UNCHANGED events, NEW also,
         RowsAfter(entity', changed', also), \A f \in mem' : Live(f)' => f \notin also
  PROVE  KeptInv'
<1>1. /\ IInv /\ IInv' /\ PanelInv /\ PanelInv'
      /\ events \in Seq(Ann) /\ events' \in Seq(Ann) /\ FALSE \notin DbOutcomes
  BY DEF SystemInv, LinkInv, Reliable
<1>2. ClosedTold /\ NewsStay
  BY <1>1, SameQueue
<1>3. PICK ent, ch : ent = entity' /\ ch = changed'
  OBVIOUS
<1>4. RowsAfter(ent, ch, also)
  BY <1>3
<1>5. ASSUME NEW f \in mem', Live(f)', f \in Panel!Shown \cup Panel!Queued
      PROVE  f \in Panel!Shown' \cup Panel!Queued'
  <2>1. ch # <<>> => ent[f].id # Head(ch).id
    BY <1>1, <1>3 DEF Told
  <2>2. f \notin also
    BY <1>5
  <2> QED
    BY <1>4, <1>5, <2>1, <2>2 DEF RowsAfter
<1>6. Len(bubbles') + Len(waiting') <= Len(bubbles) + Len(waiting)
  <2>1. Len(bubbles) \in Nat /\ Len(bubbles') \in Nat /\ Len(waiting) \in Nat
    BY <1>1 DEF PanelInv, Panel!TypeOK
  <2> QED
    BY <1>4, <2>1 DEF RowsAfter
<1>7. MaxEntities <= maxKeep'
  BY <1>4 DEF RowsAfter, KeptInv, Counted
<1>8. \A f \in mem' : Live(f)' /\ f \in Panel!Shown \cup Panel!Queued
                        => f \in Panel!Shown' \cup Panel!Queued'
  BY <1>5 DEF Live
<1> QED
  BY <1>1, <1>2, <1>6, <1>7, <1>8, MovedKeepsAll

\* The panel's own steps drop nothing from a list that is large enough.
LEMMA PanelKeepsAll ==
  ASSUME Reliable, Ample, SystemInv, SystemInv', LinkInv, LinkInv', KeptInv, PanelStep
  PROVE  KeptInv'
<1>1. /\ IInv /\ IInv' /\ PanelInv /\ PanelInv'
      /\ events \in Seq(Ann) /\ events' \in Seq(Ann)
  BY DEF SystemInv, LinkInv
<1>2. Moved /\ SameCall /\ ClosedTold /\ NewsStay
  <2>1. UNCHANGED <<vars, events>>
    BY DEF PanelStep
  <2> QED
    BY <1>1, <2>1, SameQueue, StillMoves DEF vars
<1>3. /\ Len(bubbles) \in Nat /\ Len(waiting) \in Nat /\ maxKeep \in Nat
      /\ Cardinality(NewsOf(events)) \in Nat /\ Untold \in {0, 1} /\ made \in Nat
      /\ made <= MaxEntities /\ MaxEntities \in Nat
  BY <1>1, CountFacts
<1>4. waiting # <<>> => Len(waiting) > 0
  BY <1>1 DEF PanelInv, Panel!TypeOK
<1>5. Len(bubbles) < maxKeep \/ waiting = <<>>
  <2>1. /\ Len(bubbles) + Len(waiting) + Cardinality(NewsOf(events)) + Untold <= made
        /\ MaxEntities <= maxKeep
    BY DEF KeptInv, Counted
  <2> HIDE DEF Untold
  <2> QED
    BY <1>3, <1>4, <2>1
<1>6. /\ Panel!Shown \cup Panel!Queued \subseteq Panel!Shown' \cup Panel!Queued'
      /\ Len(bubbles') + Len(waiting') <= Len(bubbles) + Len(waiting)
      /\ maxKeep' = maxKeep \/ \E n \in BubbleCounts : maxKeep' = n + 2
  BY <1>1, <1>5, PanelStepRows
<1>7. MaxEntities <= maxKeep'
  BY <1>6 DEF Ample, KeptInv, Counted
<1> QED
  BY <1>1, <1>2, <1>6, <1>7, MovedKeepsAll

\* A delivery brings the banner of its notification, in the place of none that is
\* in memory: of a bubble only one is.
LEMMA DeliverKeepsAll ==
  ASSUME Reliable, SystemInv, SystemInv', LinkInv, LinkInv', KeptInv, Deliver
  PROVE  KeptInv'
<1>1. /\ IInv /\ IInv' /\ PanelInv /\ PanelInv' /\ StoreInv
      /\ events \in Seq(Ann) /\ events' \in Seq(Ann) /\ FALSE \notin DbOutcomes
  BY DEF SystemInv, LinkInv, Reliable
<1>2. /\ events # <<>> /\ events' = Tail(events) /\ UNCHANGED vars
      /\ move["main"] = NoMove
  BY DEF Deliver, Idle
<1>3. Moved /\ SameCall /\ UNCHANGED <<entity, mem, made>>
  BY <1>2, StillMoves DEF vars, heap, store
<1>4. /\ ClosedTold
      /\ \A i : Arriving(i) => \/ Arriving(i)'
                               \/ Head(events).type = "NotProcessed" /\ Head(events).id = i
      /\ Cardinality(NewsOf(events')) <= Cardinality(NewsOf(events))
      /\ Head(events).type = "NotProcessed" =>
           Cardinality(NewsOf(events')) + 1 <= Cardinality(NewsOf(events))
  BY <1>1, <1>2, TakenQueue
<1>5. Len(events) \in Nat /\ 1 \in 1..Len(events) /\ Head(events) = events[1]
  BY <1>1, <1>2
<1>6. CASE Head(events).type # "NotProcessed"
  <2>1. Panel!RemoveRow(Closes(entity, bubbles, events))
    BY <1>6 DEF Deliver
  <2>2. RowsAfter(entity, events, {})
    BY <1>1, <2>1, RemoveAfter
  <2>3. \A f \in mem : Live(f) => entity[f].id # Head(events).id
    <3>1. \A f \in mem : OwnId(f)
      <4>1. \A f \in mem : entity[f].id < 0 /\ entity[f].id \in Int
        BY <1>1, MadeFacts
      <4>2. move["main"].id = 0
        BY <1>2 DEF NoMove, None
      <4> QED
        BY <4>1, <4>2 DEF OwnId
    <3> QED
      BY <1>5, <1>6, <3>1 DEF KeptInv, ClosedNews
  <2>4. \A f \in mem' : Live(f)' /\ f \in Panel!Shown \cup Panel!Queued
                          => f \in Panel!Shown' \cup Panel!Queued'
    BY <1>3, <2>2, <2>3 DEF RowsAfter, Live
  <2>5. Len(bubbles') + Len(waiting') <= Len(bubbles) + Len(waiting)
    <3>1. Len(bubbles) \in Nat /\ Len(bubbles') \in Nat /\ Len(waiting) \in Nat
      BY <1>1 DEF PanelInv, Panel!TypeOK
    <3> QED
      BY <2>2, <3>1 DEF RowsAfter
  <2>6. MaxEntities <= maxKeep'
    BY <2>2 DEF RowsAfter, KeptInv, Counted
  <2>7. NewsStay
    BY <1>4, <1>6 DEF NewsStay
  <2> QED
    BY <1>1, <1>3, <1>4, <2>4, <2>5, <2>6, <2>7, MovedKeepsAll
<1>7. /\ Len(bubbles) \in Nat /\ Len(waiting) \in Nat /\ maxKeep \in Nat
      /\ Cardinality(NewsOf(events)) \in Nat /\ Untold \in {0, 1} /\ made \in Nat
      /\ made <= MaxEntities /\ MaxEntities \in Nat
      /\ Len(bubbles') \in Nat /\ Len(waiting') \in Nat
      /\ Cardinality(NewsOf(events')) \in Nat
  <2>1. PICK t : t = events'
    OBVIOUS
  <2>2. Cardinality(NewsOf(t)) \in Nat
    BY <1>1, <2>1, NewsCounted
  <2>3. Len(bubbles') \in Nat /\ Len(waiting') \in Nat
    BY <1>1 DEF PanelInv, Panel!TypeOK
  <2> HIDE DEF Untold
  <2> QED
    BY <1>1, <2>1, <2>2, <2>3, CountFacts
<1>8. ASSUME Head(events).type = "NotProcessed", UNCHANGED banners,
             Fetched(Head(events).id) = {}
      PROVE  KeptInv'
  <2>1. \A f \in mem : entity[f].id # Head(events).id
    BY <1>8 DEF Fetched, InMemory
  <2>2. UNCHANGED <<bubbles, waiting, maxKeep, Panel!Shown, Panel!Queued>>
    BY <1>8 DEF banners, Panel!Shown, Panel!Queued
  <2>3. ASSUME NEW f \in mem', Live(f)',
               f \in Panel!Shown \cup Panel!Queued \/ Arriving(entity[f].id)
        PROVE  f \in Panel!Shown' \cup Panel!Queued' \/ Arriving(entity[f].id)'
    <3>1. PICK i : i = entity[f].id
      OBVIOUS
    <3>2. Arriving(i) => Arriving(i)'
      BY <1>3, <1>4, <2>1, <3>1
    <3> QED
      BY <1>3, <2>2, <2>3, <3>1, <3>2 DEF Arriving
  <2>4. Len(bubbles') + Len(waiting') + Cardinality(NewsOf(events'))
          <= Len(bubbles) + Len(waiting) + Cardinality(NewsOf(events))
    BY <1>4, <1>7, <2>2
  <2>5. MaxEntities <= maxKeep'
    BY <2>2 DEF KeptInv, Counted
  <2>6. \A f \in mem' :
          Live(f)' /\ (f \in Panel!Shown \cup Panel!Queued \/ Arriving(entity[f].id))
            => f \in Panel!Shown' \cup Panel!Queued' \/ Arriving(entity[f].id)'
    BY <2>3 DEF Live
  <2> QED
    BY <1>1, <1>3, <1>4, <2>4, <2>5, <2>6, StepKeepsAll
<1>9. ASSUME Head(events).type = "NotProcessed", NEW e \in Fetched(Head(events).id),
             \/ ReplaceIndex(entity, e) = {} /\ Panel!AddBubble(e, 0)
             \/ \E n \in ReplaceIndex(entity, e) : Panel!AddBubble(e, n)
      PROVE  KeptInv'
  <2>1. e \in mem /\ entity[e].id = Head(events).id /\ e \in Entities
    BY <1>1, <1>2, <1>9, DeliveredNames
  <2>2. /\ Panel!Queued \subseteq Panel!Queued' /\ e \in Panel!Shown' \cup Panel!Queued'
        /\ \A f \in Panel!Shown : \/ f \in Panel!Shown' \/ Len(bubbles) >= maxKeep
                                  \/ entity[f].bubble = entity[e].bubble
        /\ Len(bubbles') + Len(waiting') <= Len(bubbles) + Len(waiting) + 1
        /\ maxKeep' = maxKeep
    BY <1>1, <1>9, <2>1, AddRows
  <2>3. ~(Len(bubbles) >= maxKeep)
    <3>1. /\ Len(bubbles) + Len(waiting) + Cardinality(NewsOf(events)) + Untold <= made
          /\ MaxEntities <= maxKeep
      BY DEF KeptInv, Counted
    <3>2. Cardinality(NewsOf(events')) + 1 <= Cardinality(NewsOf(events))
      BY <1>4, <1>9
    <3> HIDE DEF Untold
    <3> QED
      BY <1>7, <3>1, <3>2
  <2>4. ASSUME NEW f \in mem, entity[f].bubble = entity[e].bubble
        PROVE  f = e
    BY <2>1, <2>4 DEF KeptInv, BubbleInv
  <2>5. \A f \in mem : entity[f].id = entity[e].id => f = e
    BY <1>1, <2>1 DEF StoreInv, IdsInv
  <2>6. ASSUME NEW f \in mem', Live(f)',
               f \in Panel!Shown \cup Panel!Queued \/ Arriving(entity[f].id)
        PROVE  f \in Panel!Shown' \cup Panel!Queued' \/ Arriving(entity[f].id)'
    <3>1. PICK i : i = entity[f].id
      OBVIOUS
    <3>2. Arriving(i) => Arriving(i)' \/ i = entity[e].id
      BY <1>4, <2>1
    <3>3. f \in Panel!Shown \cup Panel!Queued => f \in Panel!Shown' \cup Panel!Queued'
      BY <1>3, <2>2, <2>3, <2>4
    <3> QED
      BY <1>3, <2>2, <2>5, <2>6, <3>1, <3>2, <3>3 DEF Arriving
  <2>7. Len(bubbles') + Len(waiting') + Cardinality(NewsOf(events'))
          <= Len(bubbles) + Len(waiting) + Cardinality(NewsOf(events))
    BY <1>4, <1>7, <1>9, <2>2
  <2>8. MaxEntities <= maxKeep'
    BY <2>2 DEF KeptInv, Counted
  <2>9. \A f \in mem' :
          Live(f)' /\ (f \in Panel!Shown \cup Panel!Queued \/ Arriving(entity[f].id))
            => f \in Panel!Shown' \cup Panel!Queued' \/ Arriving(entity[f].id)'
    BY <2>6 DEF Live
  <2> QED
    BY <1>1, <1>3, <1>4, <2>7, <2>8, <2>9, StepKeepsAll
<1>10. CASE Head(events).type = "NotProcessed"
  <2>1. \/ UNCHANGED banners /\ Fetched(Head(events).id) = {}
        \/ \E e \in Fetched(Head(events).id) :
             \/ ReplaceIndex(entity, e) = {} /\ Panel!AddBubble(e, 0)
             \/ \E n \in ReplaceIndex(entity, e) : Panel!AddBubble(e, n)
    BY <1>10 DEF Deliver
  <2> QED
    BY <1>8, <1>9, <1>10, <2>1
<1> QED
  BY <1>6, <1>10

\* Every step of the system.
LEMMA KeptStep ==
  ASSUME Reliable, Ample, SystemInv, SystemInv', LinkInv, LinkInv', KeptInv,
         [SystemNext]_all
  PROVE  KeptInv'
<1>1. /\ IInv /\ IInv' /\ PanelInv /\ PanelInv' /\ StoreInv /\ Cleared
      /\ events \in Seq(Ann) /\ events' \in Seq(Ann)
  BY DEF SystemInv, LinkInv
<1>2. ASSUME Moved, SameCall, UNCHANGED <<banners, events>>
      PROVE  KeptInv'
  <2>1. ClosedTold /\ NewsStay
    BY <1>1, <1>2, SameQueue
  <2>2. UNCHANGED <<bubbles, waiting, maxKeep, Panel!Shown, Panel!Queued>>
    BY <1>2 DEF banners, Panel!Shown, Panel!Queued
  <2>3. Len(bubbles') + Len(waiting') <= Len(bubbles) + Len(waiting)
    BY <1>1, <2>2, CountFacts
  <2>4. MaxEntities <= maxKeep'
    BY <2>2 DEF KeptInv, Counted
  <2> QED
    BY <1>1, <1>2, <2>1, <2>2, <2>3, <2>4, MovedKeepsAll
<1>3. CASE WorkerStep
  BY <1>3, WorkerKeepsAll
<1>4. CASE Deliver
  BY <1>4, DeliverKeepsAll
<1>5. CASE (Finish("main") \/ HandleDue("main") \/ Center) /\ Direct
  <2>1. Moved /\ Told /\ SameCall
    BY <1>1, <1>5, FinishMoves, DueMoves, CenterMoves DEF Threads, SameCall
  <2>2. RowsAfter(entity', changed', {}) /\ UNCHANGED events
    BY <1>1, <1>5, DirectRows
  <2> QED
    BY <2>1, <2>2, MainKeepsAll
<1>6. CASE (Insert("main") \/ Take("main")) /\ UNCHANGED <<banners, events>>
  <2>1. Moved /\ SameCall
    BY <1>1, <1>6, GoingMoves DEF Threads, SameCall
  <2> QED
    BY <1>2, <1>6, <2>1
<1>7. ASSUME NEW n \in 1..Len(bubbles), OnRow(n),
             ActionInvoked(entity[bubbles[n]].id)
                \/ \E reason : NotificationClosed(entity[bubbles[n]].id, reason)
      PROVE  KeptInv'
  <2>1. /\ Moved /\ Told /\ SameCall
        /\ \A f \in mem : entity[f].id = entity[bubbles[n]].id
                          => f \notin mem' \/ entity'[f].type # "NotProcessed"
    BY <1>1, <1>7, CallMoves DEF SameCall
  <2>2. PICK e : e = bubbles[n]
    OBVIOUS
  <2>3. RowsAfter(entity', changed', {e}) /\ UNCHANGED events
    BY <1>1, <1>7, <2>2, OnRowRows
  <2>4. \A f \in mem' : Live(f)' => f \notin {e}
    BY <2>1, <2>2 DEF Moved, Live
  <2> QED
    BY <2>1, <2>3, <2>4, MainKeepsAll
<1>8. CASE PanelStep
  BY <1>8, PanelKeepsAll
<1>9. CASE SetHoveredId \/ UNCHANGED all
  <2>1. UNCHANGED <<heap, store, call, banners, events>>
    BY <1>9 DEF SetHoveredId, SetBlockClosedId, all, vars
  <2> QED
    BY <1>2, <2>1, StillMoves
<1> QED
  BY <1>3, <1>4, <1>5, <1>6, <1>7, <1>8, <1>9
     DEF SystemNext, MainStep, Close, InvokeAction

\* Nothing is live, shown or announced at first.
LEMMA KeptInit == Ample /\ SystemInit => KeptInv
<1> SUFFICES ASSUME Ample, SystemInit PROVE KeptInv
  OBVIOUS
<1>1. Init /\ Panel!Init /\ events = <<>>
  BY DEF SystemInit
<1>2. made = 0 /\ mem = {} /\ stage = "idle" /\ bubbles = <<>> /\ waiting = <<>>
  BY <1>1 DEF Init, Panel!Init
<1>3. \E n \in BubbleCounts : maxKeep = n + 2
  BY <1>1 DEF Panel!Init
<1>4. NewsOf(events) = {}
  BY <1>1 DEF NewsOf
<1>5. DeadNames /\ ClosedNews /\ HaveBanners /\ BubbleInv
  BY <1>1, <1>2 DEF DeadNames, ClosedNews, HaveBanners, BubbleInv
<1>6. Counted
  BY <1>2, <1>3, <1>4, FS_EmptySet DEF Counted, Ample, Untold
<1> QED
  BY <1>5, <1>6 DEF KeptInv

\* A live notification that was announced has its banner, shown or waiting, through
\* every close, replacement and timer of another, whatever is still in the event
\* queue: as long as every row that is wanted is written and the list has room for
\* all that are made.
THEOREM LiveKeepsBanner == Reliable /\ Ample /\ SystemSpec => []LiveHasBanner
<1> SUFFICES ASSUME Reliable, Ample PROVE SystemSpec => []LiveHasBanner
  OBVIOUS
<1>1. SystemInit => KeptInv
  BY KeptInit
<1>2. SystemInv /\ SystemInv' /\ LinkInv /\ LinkInv' /\ KeptInv /\ [SystemNext]_all
        => KeptInv'
  BY KeptStep
<1>3. KeptInv => LiveHasBanner
  BY DEF KeptInv, HaveBanners, LiveHasBanner
<1> QED
  BY <1>1, <1>2, <1>3, SystemSafe, SystemLinks, PTL DEF SystemSpec
=============================================================================
