-------------------------- MODULE TaskWindows_proofs --------------------------
(***************************************************************************)
(* The taskbar's windows, groups and titles: whatever is read of the X server or      *)
(* queued while it, the user and the settings go on, in the end the rows are the       *)
(* server's windows, a click goes to the window it should, and the titles fit.        *)
(***************************************************************************)
EXTENDS MCTaskbarModels, SequenceTheorems, Lists_proofs

-----------------------------------------------------------------------------
(* The windows of the task manager.                                          *)

OpenTypes ==
  /\ open \subseteq Window /\ IsFiniteSet(open) /\ state \in [Window -> Windows!WindowState]
  /\ \A v, w \in Window : state[v].active /\ state[w].active => v = w
  /\ events \in Seq({"list", "state"} \X (Window \cup {NoWindow}))
  /\ docked \subseteq Windows!Apps /\ windowSplit \in BOOLEAN

MonitorTypes ==
  /\ selected \subseteq Window \ Own /\ listed \subseteq Window /\ known \subseteq Window
  /\ todo \in Seq({"select", "track", "rest"} \X (Window \cup {NoWindow}))
  /\ tracked \in Seq(Window \ Own) /\ IsInjective(tracked) /\ DOMAIN cache \subseteq known

\* The window of a request to be made, and one of a request before the nth.
ToTrack == {w \in Window : <<"track", w>> \in ToSet(todo)}
SelectedBy(n) == selected \cup {w \in Window : \E m \in 1..n - 1 : todo[m] = <<"select", w>>}

\* The last thing a handler does is to look for what is gone.  A window is read once, when
\* its events are selected.
RequestsInv ==
  /\ IsInjective(todo)
  /\ \A n \in DOMAIN todo :
       /\ todo[n][1] = "rest" <=> n = Len(todo)
       /\ todo[n][1] = "select" => todo[n][2] \in Window \ Own
       /\ todo[n][1] = "track" =>
            todo[n][2] \in (known \cap SelectedBy(n)) \ (ToSet(tracked) \cup Own)
  /\ todo # <<>> => listed \subseteq known

\* The monitor knows the rows, what it is about to track, and its own windows; unless a
\* client list is under way it has the server's.
KnownInv ==
  /\ known \ Own = ToSet(tracked) \cup ToTrack
  /\ ToSet(tracked) \subseteq selected
  /\ <<"list", NoWindow>> \notin ToSet(events) =>
       IF todo = <<>> THEN known = open ELSE listed = open

StatesInv ==
  \A w \in ToSet(tracked) :
    w \in DOMAIN cache /\ (cache[w] = state[w] \/ <<"state", w>> \in ToSet(events))

\* An AppItem shows a window of its own, the active one or news of that is under way; alone:
\* windows are split.
ItemRight(item, alone) ==
  /\ item \in Windows!ItemType /\ IsInjective(item.windows)
  /\ IF item.windows = <<>> THEN item.current = NoWindow
     ELSE item.current \in ToSet(item.windows)
  /\ alone => Len(item.windows) <= 1

ActiveIn(item, s, news) ==
  \A w \in ToSet(item.windows) : s[w].active => item.current = w \/ <<"state", w>> \in ToSet(news)

\* Two AppItems.
Apart(one, other, alone) ==
  /\ ToSet(one.windows) \cap ToSet(other.windows) = {}
  /\ ~alone => one.app # other.app

ItemsInv ==
  /\ items \in Seq(Windows!ItemType)
  /\ \A i \in DOMAIN items :
       /\ ItemRight(items[i], windowSplit) /\ ActiveIn(items[i], state, events)
       /\ ToSet(items[i].windows) \subseteq ToSet(tracked)
       /\ \A j \in DOMAIN items : i # j => Apart(items[i], items[j], windowSplit)

TasksInv ==
  OpenTypes /\ MonitorTypes /\ RequestsInv /\ KnownInv /\ StatesInv /\ ItemsInv

\* The operators are those of Lists.
LEMMA TaskLists ==
  /\ \A l, S : Windows!Only(l, S) = Only(l, S)
  /\ \A S : Windows!SetToSeq(S) = SetToSeq(S)
  /\ \A s : /\ Windows!ToSet(s) = ToSet(s) /\ Windows!Last(s) = Last(s)
             /\ Windows!IsInjective(s) = IsInjective(s)
  /\ \A s, i : Windows!RemoveAt(s, i) = RemoveAt(s, i)
<1>1. \A l, S : Windows!Only(l, S) = Only(l, S)
  BY Zenon DEF Windows!Only, Only
<1>2. \A S : Windows!SetToSeq(S) = SetToSeq(S)
  BY Zenon DEF Windows!SetToSeq, SetToSeq, Windows!Cardinality, Cardinality,
               Windows!IsInjective, IsInjective
<1>3. \A s : /\ Windows!ToSet(s) = ToSet(s) /\ Windows!Last(s) = Last(s)
             /\ Windows!IsInjective(s) = IsInjective(s)
  BY Zenon DEF Windows!ToSet, ToSet, Windows!Last, Last, Windows!IsInjective, IsInjective
<1>4. \A s, i : Windows!RemoveAt(s, i) = RemoveAt(s, i)
  BY Zenon DEF Windows!RemoveAt, RemoveAt
<1> QED
  BY <1>1, <1>2, <1>3, <1>4

\* Contains, of a list.
LEMMA InList ==
  ASSUME NEW A, NEW s \in Seq(A), NEW x
  PROVE  Windows!Contains(s, x) <=> x \in ToSet(s)
<1>1. DOMAIN s = 1..Len(s)
  OBVIOUS
<1> QED
  BY <1>1 DEF Windows!Contains, ToSet

-----------------------------------------------------------------------------
(* Requests.                                                                 *)

\* The two halves of a number.
LEMMA Pairs ==
  ASSUME NEW k \in Nat, NEW n \in 1..2 * k
  PROVE  /\ (n + 1) \div 2 \in 1..k /\ n % 2 \in {0, 1}
         /\ n = 2 * ((n + 1) \div 2) - (n % 2)
OBVIOUS

\* A list of requests that tracks each of S once, when its events are selected.
TracksAll(r, S) ==
  /\ r \in Seq({"select", "track"} \X S) /\ IsInjective(r)
  /\ \A w \in S : <<"track", w>> \in ToSet(r)
  /\ \A n \in 1..Len(r) : r[n][1] = "track" => \E m \in 1..n - 1 : r[m] = <<"select", r[n][2]>>

LEMMA RequestItems ==
  ASSUME NEW S, NEW l \in Seq(S), IsInjective(l), ToSet(l) = S, NEW r, r = Windows!Requests(l)
  PROVE  TracksAll(r, S)
<1> DEFINE k == Len(l)
           d(n) == (n + 1) \div 2
           p(n) == IF n % 2 = 1 THEN "select" ELSE "track"
<1>1. k \in Nat /\ DOMAIN l = 1..k /\ \A i \in 1..k : l[i] \in S
  OBVIOUS
<1>2. r = [n \in 1..2 * k |-> <<p(n), l[d(n)]>>]
  BY Zenon DEF Windows!Requests
<1>3. \A n \in 1..2 * k : d(n) \in 1..k /\ n % 2 \in {0, 1} /\ n = 2 * d(n) - (n % 2)
  BY <1>1, Pairs
<1> HIDE DEF k, d
<1>4. \A n \in 1..2 * k : r[n] = <<p(n), l[d(n)]>>
  BY <1>2
<1>5. \A n \in 1..2 * k : p(n) \in {"select", "track"} /\ l[d(n)] \in S
  BY <1>1, <1>3
<1>6. r \in [1..2 * k -> {"select", "track"} \X S]
  BY <1>2, <1>5
<1>7. r \in Seq({"select", "track"} \X S) /\ Len(r) = 2 * k /\ DOMAIN r = 1..2 * k
  BY <1>1, <1>6
<1>8. IsInjective(r)
  <2> SUFFICES ASSUME NEW m \in 1..2 * k, NEW n \in 1..2 * k, r[m] = r[n] PROVE m = n
    BY <1>7 DEF IsInjective
  <2>1. p(m) = p(n) /\ l[d(m)] = l[d(n)]
    BY <1>4
  <2>2. d(m) = d(n)
    BY <1>1, <1>3, <2>1 DEF IsInjective
  <2>3. m % 2 = n % 2
    BY <1>3, <2>1
  <2> QED
    BY <1>3, <2>2, <2>3
<1>9. ASSUME NEW w \in S PROVE <<"track", w>> \in ToSet(r)
  <2>1. PICK i \in 1..k : l[i] = w
    BY <1>1 DEF ToSet
  <2>2. 2 * i \in 1..2 * k /\ (2 * i) % 2 = 0 /\ d(2 * i) = i
    BY <1>1 DEF d
  <2>3. r[2 * i] = <<"track", w>>
    BY <1>4, <2>1, <2>2
  <2> QED
    BY <1>7, <2>2, <2>3 DEF ToSet
<1>10. ASSUME NEW n \in 1..Len(r), r[n][1] = "track"
       PROVE  \E m \in 1..n - 1 : r[m] = <<"select", r[n][2]>>
  <2>1. n \in 1..2 * k /\ r[n] = <<p(n), l[d(n)]>>
    BY <1>4, <1>7
  <2>2. n % 2 = 0
    BY <1>3, <1>10, <2>1
  <2>3. n - 1 \in 1..n - 1 /\ n - 1 \in 1..2 * k /\ (n - 1) % 2 = 1 /\ d(n - 1) = d(n)
    BY <1>1, <2>1, <2>2 DEF d
  <2>4. r[n - 1] = <<"select", l[d(n)]>>
    BY <1>4, <2>3
  <2> QED
    BY <2>1, <2>3, <2>4
<1> QED
  BY <1>7, <1>8, <1>9, <1>10 DEF TracksAll

-----------------------------------------------------------------------------
(* The X server.                                                             *)

\* News that is still under way.
LEMMA NewsStays ==
  ASSUME OpenTypes, events # <<>>, events' = Tail(events)
  PROVE  /\ events' \in Seq({"list", "state"} \X (Window \cup {NoWindow}))
         /\ Head(events) \in {"list", "state"} \X (Window \cup {NoWindow})
         /\ ToSet(events) = ToSet(events') \cup {Head(events)}
BY TailItems DEF OpenTypes

LEMMA NewsComesOf ==
  ASSUME OpenTypes, NEW e \in {"list", "state"} \X (Window \cup {NoWindow}),
         events' = Append(events, e)
  PROVE  /\ events' \in Seq({"list", "state"} \X (Window \cup {NoWindow}))
         /\ ToSet(events') = ToSet(events) \cup {e}
BY AppendItems DEF OpenTypes

LEMMA OpenStep ==
  ASSUME TasksInv, NEW w \in Window, Windows!Map(w) \/ Windows!Withdraw(w)
  PROVE  TasksInv'
<1>1. /\ open' = open \cup {w} \/ open' = open \ {w}
      /\ events' = Append(events, <<"list", NoWindow>>)
      /\ UNCHANGED <<state, selected, todo, listed, known, tracked, cache, items, docked,
                     windowSplit>>
  BY DEF Windows!Map, Windows!Withdraw, Windows!monitor
<1>2. /\ events' \in Seq({"list", "state"} \X (Window \cup {NoWindow}))
      /\ ToSet(events') = ToSet(events) \cup {<<"list", NoWindow>>}
  BY <1>1, NewsComesOf DEF TasksInv
<1>3. OpenTypes'
  <2>1. IsFiniteSet(open') /\ open' \subseteq Window
    BY <1>1, FS_AddElement, FS_RemoveElement DEF TasksInv, OpenTypes
  <2> QED
    BY <1>1, <1>2, <2>1 DEF TasksInv, OpenTypes
<1>4. MonitorTypes' /\ RequestsInv'
  BY <1>1 DEF TasksInv, MonitorTypes, RequestsInv, SelectedBy
<1>5. KnownInv'
  BY <1>1, <1>2 DEF TasksInv, KnownInv, ToTrack
<1>6. StatesInv' /\ ItemsInv'
  BY <1>1, <1>2 DEF TasksInv, StatesInv, ItemsInv, ActiveIn
<1> QED
  BY <1>3, <1>4, <1>5, <1>6 DEF TasksInv

\* The monitor has asked for the events of every row.
LEMMA SetStateStep ==
  ASSUME TasksInv, NEW w \in Window, NEW s \in Windows!WindowState, Windows!SetState(w, s)
  PROVE  TasksInv'
<1>1. /\ w \notin Own /\ (s.active => \A v \in Window \ {w} : ~state[v].active)
      /\ state' = [state EXCEPT ![w] = s]
      /\ events' = IF w \in selected THEN Append(events, <<"state", w>>) ELSE events
      /\ UNCHANGED <<open, selected, todo, listed, known, tracked, cache, items, docked,
                     windowSplit>>
  BY DEF Windows!SetState, Windows!monitor
<1>2. /\ events' \in Seq({"list", "state"} \X (Window \cup {NoWindow}))
      /\ ToSet(events') = ToSet(events) \cup (IF w \in selected THEN {<<"state", w>>} ELSE {})
  <2>1. CASE w \in selected
    BY <1>1, <2>1, NewsComesOf DEF TasksInv
  <2>2. CASE w \notin selected
    BY <1>1, <2>2 DEF TasksInv, OpenTypes
  <2> QED
    BY <2>1, <2>2
<1>3. /\ state' \in [Window -> Windows!WindowState] /\ state'[w] = s
      /\ \A v \in Window \ {w} : state'[v] = state[v]
  BY <1>1 DEF TasksInv, OpenTypes
<1>4. OpenTypes'
  <2>1. \A v, x \in Window : state'[v].active /\ state'[x].active => v = x
    BY <1>1, <1>3 DEF TasksInv, OpenTypes
  <2> QED
    BY <1>1, <1>2, <1>3, <2>1 DEF TasksInv, OpenTypes
<1>5. MonitorTypes' /\ RequestsInv'
  BY <1>1 DEF TasksInv, MonitorTypes, RequestsInv, SelectedBy
<1>6. KnownInv'
  BY <1>1, <1>2 DEF TasksInv, KnownInv, ToTrack
<1>7. \A v \in ToSet(tracked) :
        v \in Window /\ (state'[v] = state[v] \/ <<"state", v>> \in ToSet(events'))
  BY <1>2, <1>3 DEF TasksInv, KnownInv, MonitorTypes, ToSet
<1>8. StatesInv'
  BY <1>1, <1>2, <1>7 DEF TasksInv, StatesInv
<1>9. ItemsInv'
  <2>1. ASSUME NEW i \in DOMAIN items PROVE ActiveIn(items[i], state', events')
    BY <1>2, <1>7 DEF TasksInv, ItemsInv, ActiveIn
  <2> QED
    BY <1>1, <2>1 DEF TasksInv, ItemsInv
<1> QED
  BY <1>4, <1>5, <1>6, <1>8, <1>9 DEF TasksInv

-----------------------------------------------------------------------------
(* The monitor.                                                              *)

LEMMA ClientListStep ==
  ASSUME TasksInv, Windows!HandleClientList
  PROVE  TasksInv'
<1> DEFINE new == open \ (known \cup Own)
           l == SetToSeq(new)
           r == Windows!Requests(l)
<1>1. /\ todo = <<>> /\ events # <<>> /\ Head(events)[1] = "list" /\ events' = Tail(events)
      /\ listed' = open /\ known' = known \cup open /\ todo' = Append(r, <<"rest", NoWindow>>)
      /\ UNCHANGED <<open, state, selected, tracked, cache, items, docked, windowSplit>>
  BY TaskLists DEF Windows!HandleClientList, Windows!server
<1>2. /\ events' \in Seq({"list", "state"} \X (Window \cup {NoWindow}))
      /\ \A w : <<"state", w>> \in ToSet(events) => <<"state", w>> \in ToSet(events')
  BY <1>1, NewsStays DEF TasksInv
<1>3. IsFiniteSet(new) /\ new \subseteq Window
  BY FS_Subset DEF TasksInv, OpenTypes
<1>4. l \in Seq(new) /\ IsInjective(l) /\ ToSet(l) = new
  BY <1>3, ListOfSet
<1> HIDE DEF l, new
<1>14. TracksAll(r, new)
  BY <1>4, RequestItems
<1>5. /\ r \in Seq({"select", "track"} \X new) /\ IsInjective(r)
      /\ \A w \in new : <<"track", w>> \in ToSet(r)
      /\ \A n \in 1..Len(r) :
           r[n][1] = "track" => \E m \in 1..n - 1 : r[m] = <<"select", r[n][2]>>
  BY <1>14, Zenon DEF TracksAll
<1> HIDE DEF r
<1>6. /\ Len(r) \in Nat /\ Len(todo') = Len(r) + 1 /\ DOMAIN todo' = 1..Len(r) + 1
      /\ todo'[Len(r) + 1] = <<"rest", NoWindow>>
      /\ \A n \in 1..Len(r) : todo'[n] = r[n] /\ r[n] \in {"select", "track"} \X new
      /\ todo' # <<>>
  <2>1. \A n \in 1..Len(r) : r[n] \in {"select", "track"} \X new
    BY <1>5
  <2> DEFINE A == {"select", "track"} \X new
             x == <<"rest", NoWindow>>
  <2>2. r \in Seq(A) /\ todo' = Append(r, x)
    BY <1>1, <1>5
  <2> HIDE DEF A, x
  <2>3. /\ Len(r) \in Nat /\ Len(todo') = Len(r) + 1 /\ DOMAIN todo' = 1..Len(r) + 1
        /\ todo'[Len(r) + 1] = x /\ \A n \in 1..Len(r) : todo'[n] = r[n]
    BY <2>2
  <2>4. todo' # <<>>
    BY <2>3
  <2> QED
    BY <2>1, <2>3, <2>4 DEF x
<1>7. ToSet(todo') = ToSet(r) \cup {<<"rest", NoWindow>>}
  BY <1>1, <1>5, AppendItems
<1>8. \A e \in ToSet(r) : e \in {"select", "track"} \X new
  BY <1>5 DEF ToSet
<1>9. OpenTypes'
  BY <1>1, <1>2 DEF TasksInv, OpenTypes
<1>10. MonitorTypes'
  <2>1. todo' \in Seq({"select", "track", "rest"} \X (Window \cup {NoWindow}))
    <3>1. r \in Seq({"select", "track", "rest"} \X (Window \cup {NoWindow}))
      BY <1>3, <1>5
    <3> QED
      BY <1>1, <3>1
  <2> QED
    BY <1>1, <2>1 DEF TasksInv, MonitorTypes, OpenTypes
<1>11. RequestsInv'
  <2>1. IsInjective(todo')
    <3>1. r \in Seq({"select", "track", "rest"} \X (Window \cup {NoWindow}))
      BY <1>3, <1>5
    <3>2. <<"rest", NoWindow>> \notin ToSet(r)
      BY <1>8
    <3> QED
      BY <1>1, <1>5, <3>1, <3>2, AppendDiffers
  <2>2. ASSUME NEW n \in DOMAIN todo'
        PROVE  /\ todo'[n][1] = "rest" <=> n = Len(todo')
               /\ todo'[n][1] = "select" => todo'[n][2] \in Window \ Own
               /\ todo'[n][1] = "track" =>
                    todo'[n][2] \in (known' \cap SelectedBy(n)') \ (ToSet(tracked') \cup Own)
    <3>1. CASE n = Len(r) + 1
      BY <1>6, <3>1
    <3>2. CASE n # Len(r) + 1
      <4>1. /\ n \in 1..Len(r) /\ n # Len(todo') /\ todo'[n] = r[n]
            /\ r[n] \in {"select", "track"} \X new
        BY <1>6, <2>2, <3>2
      <4>2. PICK k \in {"select", "track"}, w \in new : r[n] = <<k, w>>
        BY <4>1
      <4>3. w \in known' /\ w \in Window /\ w \notin Own
        BY <1>1, <1>3 DEF new
      <4>4. w \notin ToSet(tracked)
        BY <4>2 DEF TasksInv, KnownInv, new
      <4>5. k = "track" => w \in SelectedBy(n)'
        <5>1. SUFFICES ASSUME k = "track" PROVE w \in SelectedBy(n)'
          OBVIOUS
        <5>4. r[n][1] = "track" /\ r[n][2] = w
          BY <4>2, <5>1
        <5>2. PICK m \in 1..n - 1 : r[m] = <<"select", w>>
          BY <1>5, <4>1, <5>4
        <5>3. m \in 1..Len(r)
          BY <1>6, <4>1
        <5> QED
          BY <1>6, <4>3, <5>2, <5>3 DEF SelectedBy
      <4> QED
        BY <1>1, <4>1, <4>2, <4>3, <4>4, <4>5
    <3> QED
      BY <3>1, <3>2
  <2>3. listed' \subseteq known'
    BY <1>1
  <2> QED
    BY <2>1, <2>2, <2>3 DEF RequestsInv
<1>12. KnownInv'
  <2>1. ToTrack = {}
    BY <1>1 DEF ToTrack, ToSet
  <2>2. ToTrack' = new
    BY <1>3, <1>5, <1>7, <1>8 DEF ToTrack
  <2> QED
    BY <1>1, <1>6, <2>1, <2>2 DEF TasksInv, KnownInv, OpenTypes, new
<1>13. StatesInv' /\ ItemsInv'
  BY <1>1, <1>2 DEF TasksInv, StatesInv, ItemsInv, ActiveIn
<1> QED
  BY <1>9, <1>10, <1>11, <1>12, <1>13 DEF TasksInv

\* A request that is not the last is done.
LEMMA RequestDone ==
  ASSUME MonitorTypes, RequestsInv, todo # <<>>, Head(todo)[1] # "rest", todo' = Tail(todo)
  PROVE  /\ todo' \in Seq({"select", "track", "rest"} \X (Window \cup {NoWindow}))
         /\ Head(todo) \in {"select", "track", "rest"} \X (Window \cup {NoWindow})
         /\ todo' # <<>> /\ IsInjective(todo') /\ Head(todo) \notin ToSet(todo')
         /\ ToSet(todo) = ToSet(todo') \cup {Head(todo)}
         /\ 1 \in DOMAIN todo /\ Head(todo) = todo[1]
         /\ \A n \in DOMAIN todo' :
              /\ n + 1 \in DOMAIN todo /\ todo'[n] = todo[n + 1]
              /\ n = Len(todo') <=> n + 1 = Len(todo)
<1> DEFINE A == {"select", "track", "rest"} \X (Window \cup {NoWindow})
<1>1. todo \in Seq(A) /\ IsInjective(todo)
  BY DEF MonitorTypes, RequestsInv
<1> HIDE DEF A
<1>2. /\ Head(todo) \in A /\ todo' \in Seq(A) /\ Len(todo') = Len(todo) - 1
      /\ \A k \in 1..Len(todo) - 1 : todo'[k] = todo[k + 1]
      /\ ToSet(todo) = ToSet(todo') \cup {Head(todo)}
      /\ IsInjective(todo') /\ Head(todo) \notin ToSet(todo')
  BY <1>1, TailItems
<1>3. /\ Len(todo) \in Nat /\ Len(todo) > 0 /\ DOMAIN todo = 1..Len(todo) /\ 1 \in DOMAIN todo
      /\ Head(todo) = todo[1] /\ DOMAIN todo' = 1..Len(todo) - 1
  BY <1>1, <1>2
<1>4. 1 # Len(todo)
  BY <1>3 DEF RequestsInv
<1>5. todo' # <<>>
  BY <1>2, <1>3, <1>4
<1>6. \A n \in DOMAIN todo' : n + 1 \in DOMAIN todo /\ (n = Len(todo') <=> n + 1 = Len(todo))
  BY <1>2, <1>3
<1> QED
  BY <1>2, <1>3, <1>5, <1>6 DEF A

\* Of a window that is read, the request for its events came before.
LEMMA SelectedStill ==
  ASSUME MonitorTypes, RequestsInv, todo # <<>>, Head(todo)[1] # "rest", todo' = Tail(todo),
         selected \subseteq selected',
         \A w \in Window : Head(todo) = <<"select", w>> => w \in selected',
         NEW n \in DOMAIN todo'
  PROVE  SelectedBy(n + 1) \subseteq SelectedBy(n)'
<1>1. /\ n + 1 \in DOMAIN todo /\ Head(todo) = todo[1]
      /\ \A m \in DOMAIN todo' : todo'[m] = todo[m + 1]
      /\ todo' \in Seq({"select", "track", "rest"} \X (Window \cup {NoWindow}))
  BY RequestDone
<1>2. /\ n \in Nat /\ n <= Len(todo') /\ DOMAIN todo' = 1..Len(todo') /\ Len(todo') \in Nat
  BY <1>1
<1> SUFFICES ASSUME NEW w \in Window, NEW m \in 1..(n + 1) - 1, todo[m] = <<"select", w>>
             PROVE  w \in SelectedBy(n)'
  BY DEF SelectedBy
<1>3. CASE m = 1
  BY <1>1, <1>3 DEF SelectedBy
<1>4. CASE m # 1
  <2>1. m - 1 \in 1..n - 1 /\ m - 1 \in DOMAIN todo' /\ (m - 1) + 1 = m
    BY <1>2, <1>4
  <2>2. todo'[m - 1] = <<"select", w>>
    BY <1>1, <2>1
  <2> QED
    BY <2>1, <2>2 DEF SelectedBy
<1> QED
  BY <1>3, <1>4

LEMMA SelectStep ==
  ASSUME TasksInv, Windows!Select
  PROVE  TasksInv'
<1> DEFINE v == Head(todo)[2]
<1>1. /\ todo # <<>> /\ Head(todo)[1] = "select" /\ selected' = selected \cup {v}
      /\ todo' = Tail(todo)
      /\ UNCHANGED <<open, state, events, listed, known, tracked, cache, items, docked,
                     windowSplit>>
  BY DEF Windows!Select
<1>2. /\ todo' \in Seq({"select", "track", "rest"} \X (Window \cup {NoWindow}))
      /\ Head(todo) \in {"select", "track", "rest"} \X (Window \cup {NoWindow})
      /\ todo' # <<>> /\ IsInjective(todo') /\ ToSet(todo) = ToSet(todo') \cup {Head(todo)}
      /\ 1 \in DOMAIN todo /\ Head(todo) = todo[1]
      /\ \A n \in DOMAIN todo' :
           /\ n + 1 \in DOMAIN todo /\ todo'[n] = todo[n + 1]
           /\ n = Len(todo') <=> n + 1 = Len(todo)
  BY <1>1, RequestDone DEF TasksInv
<1>3. v \in Window \ Own /\ Head(todo) = <<"select", v>>
  BY <1>1, <1>2 DEF TasksInv, RequestsInv
<1>4. OpenTypes' /\ MonitorTypes'
  BY <1>1, <1>2, <1>3 DEF TasksInv, OpenTypes, MonitorTypes
<1>5. RequestsInv'
  <2>1. ASSUME NEW n \in DOMAIN todo'
        PROVE  /\ todo'[n][1] = "rest" <=> n = Len(todo')
               /\ todo'[n][1] = "select" => todo'[n][2] \in Window \ Own
               /\ todo'[n][1] = "track" =>
                    todo'[n][2] \in (known' \cap SelectedBy(n)') \ (ToSet(tracked') \cup Own)
    <3>1. SelectedBy(n + 1) \subseteq SelectedBy(n)'
      BY <1>1, <1>3, SelectedStill DEF TasksInv
    <3>2. /\ n + 1 \in DOMAIN todo /\ todo'[n] = todo[n + 1]
          /\ n = Len(todo') <=> n + 1 = Len(todo)
      BY <1>2
    <3> QED
      BY <1>1, <3>1, <3>2 DEF TasksInv, RequestsInv
  <2> QED
    BY <1>1, <1>2, <2>1 DEF TasksInv, RequestsInv
<1>6. KnownInv'
  <2>1. ToTrack' = ToTrack
    BY <1>2, <1>3 DEF ToTrack
  <2> QED
    BY <1>1, <1>2, <2>1 DEF TasksInv, KnownInv
<1>7. StatesInv' /\ ItemsInv'
  BY <1>1 DEF TasksInv, StatesInv, ItemsInv
<1> QED
  BY <1>4, <1>5, <1>6, <1>7 DEF TasksInv

-----------------------------------------------------------------------------
(* AppItems.                                                                 *)

LEMMA FreshItem ==
  ASSUME NEW app \in Windows!Apps, NEW alone, NEW s, NEW posted
  PROVE  /\ ItemRight(Windows!AppItem(app), alone) /\ ActiveIn(Windows!AppItem(app), s, posted)
         /\ ToSet(Windows!AppItem(app).windows) = {} /\ Windows!AppItem(app).app = app
         /\ Windows!AppItem(app).windows = <<>>
<1>1. <<>> \in Seq(Window) /\ Len(<<>>) = 0
  OBVIOUS
<1>2. ToSet(<<>>) = {} /\ IsInjective(<<>>)
  BY DEF ToSet, IsInjective
<1> QED
  BY <1>1, <1>2 DEF Windows!AppItem, ItemRight, ActiveIn, Windows!ItemType

LEMMA CheckedItem ==
  ASSUME NEW item \in Windows!ItemType, NEW r, r = Windows!Checked(item)
  PROVE  /\ r \in Windows!ItemType /\ r.app = item.app /\ r.windows = item.windows
         /\ r.current = item.current
<1> DEFINE d == item.doomed \/ (item.windows = <<>> /\ item.app \notin docked')
<1>1. d \in BOOLEAN
  OBVIOUS
<1>2. r = [item EXCEPT !.doomed = d]
  BY Zenon DEF Windows!Checked
<1> HIDE DEF d
<1> QED
  BY <1>1, <1>2 DEF Windows!ItemType

\* A window is shown by its item if it is the only one or the active one.
LEMMA AppendedItem ==
  ASSUME OpenTypes, NEW item, ItemRight(item, windowSplit), ActiveIn(item, state, events),
         NEW w \in Window, w \notin ToSet(item.windows), windowSplit => item.windows = <<>>,
         NEW r, r = Windows!AppendWindow(item, w, state[w].active)
  PROVE  /\ ItemRight(r, windowSplit) /\ ActiveIn(r, state, events)
         /\ ToSet(r.windows) = ToSet(item.windows) \cup {w} /\ r.app = item.app
<1> DEFINE c == IF state[w].active \/ Len(item.windows) = 0 THEN w ELSE item.current
<1>1. /\ item.windows \in Seq(Window) /\ IsInjective(item.windows)
      /\ item \in Windows!ItemType
  BY DEF ItemRight, Windows!ItemType
<1>2. /\ Append(item.windows, w) \in Seq(Window) /\ Append(item.windows, w) # <<>>
      /\ Len(Append(item.windows, w)) = Len(item.windows) + 1
      /\ item.windows = <<>> <=> Len(item.windows) = 0
  BY <1>1
<1>3. /\ ToSet(Append(item.windows, w)) = ToSet(item.windows) \cup {w}
      /\ IsInjective(Append(item.windows, w))
  BY <1>1, AppendItems, AppendDiffers
<1>4. c \in ToSet(item.windows) \cup {w} /\ c \in Window
  <2>1. CASE state[w].active \/ Len(item.windows) = 0
    BY <2>1
  <2>2. CASE ~(state[w].active \/ Len(item.windows) = 0)
    BY <1>1, <1>2, <2>2 DEF ItemRight, ToSet
  <2> QED
    BY <2>1, <2>2
<1>5. r = [item EXCEPT !.windows = Append(@, w), !.current = c]
  BY Zenon DEF Windows!AppendWindow
<1> DEFINE s == Append(item.windows, w)
<1>6. /\ r \in Windows!ItemType /\ r.app = item.app /\ r.windows = s /\ r.current = c
  <2> HIDE DEF c
  <2> QED
    BY <1>1, <1>2, <1>4, <1>5 DEF Windows!ItemType
<1>7. ItemRight(r, windowSplit)
  <2>1. windowSplit => Len(s) <= 1
    BY <1>2
  <2> QED
    BY <1>2, <1>3, <1>4, <1>6, <2>1 DEF ItemRight
<1>8. ASSUME NEW v \in ToSet(item.windows) \cup {w}, state[v].active
      PROVE  c = v \/ <<"state", v>> \in ToSet(events)
  <2>1. CASE v = w
    BY <1>8, <2>1
  <2>2. CASE v # w
    <3>1. v \in ToSet(item.windows) /\ v \in Window
      BY <1>1, <2>2 DEF ToSet
    <3>2. ~state[w].active
      BY <1>8, <2>2, <3>1 DEF OpenTypes
    <3>3. Len(item.windows) # 0
      BY <1>1, <3>1 DEF ToSet
    <3> QED
      BY <1>8, <3>1, <3>2, <3>3 DEF ActiveIn
  <2> QED
    BY <2>1, <2>2
<1>9. ActiveIn(r, state, events)
  BY <1>3, <1>6, <1>8 DEF ActiveIn
<1> QED
  BY <1>3, <1>6, <1>7, <1>9

\* What is left of an item shows what is left.
LEMMA ReducedItem ==
  ASSUME NEW item, ItemRight(item, windowSplit), ActiveIn(item, state, events), NEW gone,
         NEW r, r = Windows!RemoveWindow(item, gone)
  PROVE  /\ ItemRight(r, windowSplit) /\ ActiveIn(r, state, events)
         /\ ToSet(r.windows) = ToSet(item.windows) \ gone /\ r.app = item.app
<1> DEFINE rest == Only(item.windows, Window \ gone)
           c == IF item.current \notin gone THEN item.current
                ELSE IF rest = <<>> THEN NoWindow ELSE Last(rest)
<1>1. item \in Windows!ItemType /\ item.windows \in Seq(Window) /\ IsInjective(item.windows)
  BY DEF ItemRight, Windows!ItemType
<1>2. rest \in Seq(Window) /\ ToSet(rest) = ToSet(item.windows) \cap (Window \ gone)
  BY <1>1, OnlyItems
<1>3. IsInjective(rest) /\ Len(rest) <= Len(item.windows)
  BY <1>1, OnlyDiffers
<1>4. ToSet(rest) = ToSet(item.windows) \ gone
  <2>1. \A v \in ToSet(item.windows) : v \in Window
    BY <1>1 DEF ToSet
  <2> HIDE DEF rest
  <2> QED
    BY <1>2, <2>1
<1>5. r = [item EXCEPT !.windows = rest, !.current = c]
  BY TaskLists, Zenon DEF Windows!RemoveWindow
<1> HIDE DEF rest
<1>6. rest = <<>> => ToSet(rest) = {}
  BY DEF ToSet
<1>7. rest # <<>> => Last(rest) \in ToSet(rest) /\ Last(rest) \in Window
  BY <1>2, LastItem
<1>8. c \in Window \cup {NoWindow}
  BY <1>1, <1>7 DEF Windows!ItemType
<1>9. /\ r \in Windows!ItemType /\ r.app = item.app /\ r.windows = rest /\ r.current = c
  <2> HIDE DEF c
  <2> QED
    BY <1>1, <1>2, <1>5, <1>8 DEF Windows!ItemType
<1>10. ItemRight(r, windowSplit)
  <2>1. Len(rest) \in Nat /\ Len(item.windows) \in Nat
    BY <1>1, <1>2
  <2>2. windowSplit => Len(rest) <= 1
    BY <1>3, <2>1 DEF ItemRight
  <2> QED
    BY <1>3, <1>4, <1>6, <1>7, <1>9, <2>2 DEF ItemRight
<1>11. ActiveIn(r, state, events)
  BY <1>4, <1>9 DEF ActiveIn
<1> QED
  BY <1>4, <1>9, <1>10, <1>11

\* Items that keep their places and get no other windows.
LEMMA ItemsStay ==
  ASSUME ItemsInv, NEW r, r = [i \in DOMAIN items |-> r[i]], items' = r,
         windowSplit' = windowSplit,
         \A i \in DOMAIN items :
           /\ ItemRight(r[i], windowSplit') /\ ActiveIn(r[i], state', events')
           /\ r[i].app = items[i].app
           /\ ToSet(r[i].windows) \subseteq ToSet(items[i].windows) \cap ToSet(tracked')
  PROVE  ItemsInv'
<1>1. items \in Seq(Windows!ItemType) /\ DOMAIN r = DOMAIN items
  BY Zenon DEF ItemsInv
<1>2. r \in Seq(Windows!ItemType)
  <2>1. \A i \in DOMAIN items : r[i] \in Windows!ItemType
    BY DEF ItemRight
  <2>2. DOMAIN items = 1..Len(items) /\ Len(items) \in Nat
    BY <1>1
  <2>3. r \in [1..Len(items) -> Windows!ItemType]
    BY <2>1, <2>2
  <2> QED
    BY <2>2, <2>3
<1>3. ASSUME NEW i \in DOMAIN items, NEW j \in DOMAIN items, i # j
      PROVE  Apart(r[i], r[j], windowSplit')
  <2>1. Apart(items[i], items[j], windowSplit)
    BY <1>3 DEF ItemsInv
  <2> QED
    BY <2>1 DEF Apart
<1> QED
  BY <1>1, <1>2, <1>3 DEF ItemsInv

\* One more item, of an app that has none or when windows are split.
LEMMA ItemsGrow ==
  ASSUME ItemsInv, NEW item, items' = Append(items, item),
         UNCHANGED <<windowSplit, state, events>>,
         ItemRight(item, windowSplit), ActiveIn(item, state, events),
         ToSet(item.windows) \subseteq ToSet(tracked'), ToSet(tracked) \subseteq ToSet(tracked'),
         ToSet(item.windows) \cap ToSet(tracked) = {},
         windowSplit \/ \A i \in DOMAIN items : items[i].app # item.app
  PROVE  ItemsInv'
<1>1. /\ items \in Seq(Windows!ItemType) /\ item \in Windows!ItemType
  BY DEF ItemsInv, ItemRight
<1>2. /\ items' \in Seq(Windows!ItemType) /\ Len(items) \in Nat /\ DOMAIN items = 1..Len(items)
      /\ DOMAIN items' = 1..Len(items) + 1 /\ items'[Len(items) + 1] = item
      /\ \A i \in DOMAIN items : items'[i] = items[i]
  BY <1>1
<1>3. DOMAIN items' = DOMAIN items \cup {Len(items) + 1} /\ Len(items) + 1 \notin DOMAIN items
  BY <1>2
<1>4. ASSUME NEW i \in DOMAIN items
      PROVE  Apart(items[i], item, windowSplit) /\ Apart(item, items[i], windowSplit)
  BY DEF ItemsInv, Apart
<1>5. ASSUME NEW i \in DOMAIN items'
      PROVE  /\ ItemRight(items'[i], windowSplit') /\ ActiveIn(items'[i], state', events')
             /\ ToSet(items'[i].windows) \subseteq ToSet(tracked')
             /\ \A j \in DOMAIN items' : i # j => Apart(items'[i], items'[j], windowSplit')
  <2>1. CASE i = Len(items) + 1
    <3>1. \A j \in DOMAIN items' : i # j => Apart(items'[i], items'[j], windowSplit')
      BY <1>2, <1>3, <1>4, <2>1
    <3> QED
      BY <1>2, <2>1, <3>1
  <2>2. CASE i \in DOMAIN items
    <3>1. \A j \in DOMAIN items' : i # j => Apart(items'[i], items'[j], windowSplit')
      BY <1>2, <1>3, <1>4, <2>2 DEF ItemsInv
    <3> QED
      BY <1>2, <2>2, <3>1 DEF ItemsInv
  <2> QED
    BY <1>3, <2>1, <2>2
<1> QED
  BY <1>2, <1>5 DEF ItemsInv

-----------------------------------------------------------------------------
(* Rows come and go.                                                         *)

LEMMA FirstItemOf ==
  ASSUME items \in Seq(Windows!ItemType), NEW app, Windows!ItemsOf(items, app) # {}
  PROVE  /\ Windows!FirstItem(items, app) \in DOMAIN items
         /\ items[Windows!FirstItem(items, app)].app = app
<1> DEFINE S == Windows!ItemsOf(items, app)
<1>1. S \subseteq Nat /\ \A i \in S : i \in DOMAIN items /\ items[i].app = app
  BY DEF Windows!ItemsOf
<1>2. \E i \in S : \A j \in S : i <= j
  <2> HIDE DEF S
  <2>1. S # {}
    BY DEF S
  <2> QED
    BY <1>1, <2>1, LeastNumber
<1>3. Windows!FirstItem(items, app) \in S
  BY <1>2 DEF Windows!FirstItem
<1> QED
  BY <1>1, <1>3

\* A window comes to the item of its app, or to one of its own.
LEMMA WindowAddedStep ==
  ASSUME OpenTypes, ItemsInv, NEW w \in Window \ Own, w \notin ToSet(tracked),
         ToSet(tracked') = ToSet(tracked) \cup {w}, UNCHANGED <<windowSplit, state, events>>,
         items' = Windows!HandleWindowAdded(w, state[w].skip, state[w].active)
  PROVE  ItemsInv'
<1> DEFINE app == AppOf[w]
           mine == Windows!ItemsOf(items, app)
           k == Windows!FirstItem(items, app)
           fresh == Windows!AppendWindow(Windows!AppItem(app), w, state[w].active)
           more == Windows!AppendWindow(items[k], w, state[w].active)
<1>1. app \in Windows!Apps
  BY DEF Windows!Apps
<1>2. items \in Seq(Windows!ItemType)
  BY DEF ItemsInv
<1>3. CASE state[w].skip
  BY <1>3 DEF Windows!HandleWindowAdded, ItemsInv
<1>4. CASE ~state[w].skip /\ (mine = {} \/ (windowSplit /\ items[k].windows # <<>>))
  <2>1. items' = Append(items, fresh)
    BY <1>4, Zenon DEF Windows!HandleWindowAdded
  <2>2. /\ ItemRight(Windows!AppItem(app), windowSplit)
        /\ ActiveIn(Windows!AppItem(app), state, events)
        /\ ToSet(Windows!AppItem(app).windows) = {} /\ Windows!AppItem(app).app = app
        /\ Windows!AppItem(app).windows = <<>>
    BY <1>1, FreshItem
  <2>3. /\ ItemRight(fresh, windowSplit) /\ ActiveIn(fresh, state, events)
        /\ ToSet(fresh.windows) = {w} /\ fresh.app = app
    <3> HIDE DEF app
    <3>1. w \in Window /\ w \notin ToSet(Windows!AppItem(app).windows)
      BY <2>2
    <3>2. /\ ItemRight(fresh, windowSplit) /\ ActiveIn(fresh, state, events)
          /\ ToSet(fresh.windows) = ToSet(Windows!AppItem(app).windows) \cup {w}
          /\ fresh.app = Windows!AppItem(app).app
      BY <2>2, <3>1, AppendedItem
    <3> QED
      BY <2>2, <3>2
  <2>4. windowSplit \/ \A i \in DOMAIN items : items[i].app # fresh.app
    BY <1>4, <2>3 DEF Windows!ItemsOf
  <2> HIDE DEF fresh
  <2> QED
    BY <2>1, <2>3, <2>4, ItemsGrow
<1>5. CASE ~state[w].skip /\ mine # {} /\ (windowSplit => items[k].windows = <<>>)
  <2>1. items' = [items EXCEPT ![k] = more]
    BY <1>5, Zenon DEF Windows!HandleWindowAdded
  <2>2. k \in DOMAIN items /\ items[k].app = app
    BY <1>2, <1>5, FirstItemOf
  <2> HIDE DEF k
  <2>3. /\ ItemRight(items[k], windowSplit) /\ ActiveIn(items[k], state, events)
        /\ ToSet(items[k].windows) \subseteq ToSet(tracked)
    BY <2>2 DEF ItemsInv
  <2>4. /\ ItemRight(more, windowSplit) /\ ActiveIn(more, state, events)
        /\ ToSet(more.windows) = ToSet(items[k].windows) \cup {w} /\ more.app = items[k].app
    BY <1>5, <2>3, AppendedItem
  <2> HIDE DEF more
  <2>5. /\ items' \in Seq(Windows!ItemType) /\ DOMAIN items' = DOMAIN items
        /\ items'[k] = more /\ \A i \in DOMAIN items : i # k => items'[i] = items[i]
    <3>1. more \in Windows!ItemType
      BY <2>4 DEF ItemRight
    <3> QED
      BY <1>2, <2>1, <2>2, <3>1
  <2>6. ASSUME NEW i \in DOMAIN items, i # k
        PROVE  /\ Apart(items[i], more, windowSplit) /\ Apart(more, items[i], windowSplit)
    <3>1. Apart(items[i], items[k], windowSplit) /\ ToSet(items[i].windows) \subseteq ToSet(tracked)
      BY <2>2, <2>6 DEF ItemsInv
    <3> QED
      BY <2>4, <3>1 DEF Apart
  <2>7. ASSUME NEW i \in DOMAIN items
        PROVE  /\ ItemRight(items'[i], windowSplit') /\ ActiveIn(items'[i], state', events')
               /\ ToSet(items'[i].windows) \subseteq ToSet(tracked')
               /\ \A j \in DOMAIN items : i # j => Apart(items'[i], items'[j], windowSplit')
    <3>1. CASE i = k
      BY <2>3, <2>4, <2>5, <2>6, <3>1
    <3>2. CASE i # k
      <4>1. \A j \in DOMAIN items : i # j => Apart(items'[i], items'[j], windowSplit')
        BY <2>5, <2>6, <3>2 DEF ItemsInv
      <4> QED
        BY <2>5, <3>2, <4>1 DEF ItemsInv
    <3> QED
      BY <3>1, <3>2
  <2> QED
    BY <2>5, <2>7 DEF ItemsInv
<1> QED
  BY <1>3, <1>4, <1>5

LEMMA TrackStep ==
  ASSUME TasksInv, Windows!Track
  PROVE  TasksInv'
<1> DEFINE w == Head(todo)[2]
<1>1. /\ todo # <<>> /\ Head(todo)[1] = "track" /\ tracked' = Append(tracked, w)
      /\ cache' = Windows!UpdateWindowState(w)
      /\ items' = Windows!HandleWindowAdded(w, state[w].skip, state[w].active)
      /\ todo' = Tail(todo)
      /\ UNCHANGED <<open, state, selected, events, listed, known, docked, windowSplit>>
  BY DEF Windows!Track, Windows!server
<1>2. /\ todo' \in Seq({"select", "track", "rest"} \X (Window \cup {NoWindow}))
      /\ Head(todo) \in {"select", "track", "rest"} \X (Window \cup {NoWindow})
      /\ todo' # <<>> /\ IsInjective(todo') /\ Head(todo) \notin ToSet(todo')
      /\ ToSet(todo) = ToSet(todo') \cup {Head(todo)}
      /\ 1 \in DOMAIN todo /\ Head(todo) = todo[1]
      /\ \A n \in DOMAIN todo' :
           /\ n + 1 \in DOMAIN todo /\ todo'[n] = todo[n + 1]
           /\ n = Len(todo') <=> n + 1 = Len(todo)
  BY <1>1, RequestDone DEF TasksInv
<1>3. /\ Head(todo) = <<"track", w>> /\ w \in known /\ w \in Window \ Own
      /\ w \notin ToSet(tracked) /\ w \in selected
  <2>1. Head(todo) = <<"track", w>>
    BY <1>1, <1>2
  <2>2. w \in (known \cap SelectedBy(1)) \ (ToSet(tracked) \cup Own)
    BY <1>1, <1>2 DEF TasksInv, RequestsInv
  <2>3. SelectedBy(1) = selected
    BY DEF SelectedBy
  <2> QED
    BY <2>1, <2>2, <2>3 DEF TasksInv, MonitorTypes
<1> HIDE DEF w
<1>4. /\ tracked' \in Seq(Window \ Own) /\ IsInjective(tracked')
      /\ ToSet(tracked') = ToSet(tracked) \cup {w}
  BY <1>1, <1>3, AppendItems, AppendDiffers DEF TasksInv, MonitorTypes
<1>5. DOMAIN cache' = DOMAIN cache \cup {w} /\ cache'[w] = state[w]
      /\ \A v \in DOMAIN cache : v # w => cache'[v] = cache[v]
  BY <1>1 DEF Windows!UpdateWindowState
<1>6. OpenTypes' /\ MonitorTypes'
  BY <1>1, <1>2, <1>3, <1>4, <1>5 DEF TasksInv, OpenTypes, MonitorTypes
<1>7. RequestsInv'
  <2>1. ASSUME NEW n \in DOMAIN todo'
        PROVE  /\ todo'[n][1] = "rest" <=> n = Len(todo')
               /\ todo'[n][1] = "select" => todo'[n][2] \in Window \ Own
               /\ todo'[n][1] = "track" =>
                    todo'[n][2] \in (known' \cap SelectedBy(n)') \ (ToSet(tracked') \cup Own)
    <3>1. SelectedBy(n + 1) \subseteq SelectedBy(n)'
      <4>1. \A v \in Window : Head(todo) = <<"select", v>> => v \in selected'
        BY <1>3
      <4> QED
        BY <1>1, <4>1, SelectedStill DEF TasksInv
    <3>2. /\ n + 1 \in DOMAIN todo /\ todo'[n] = todo[n + 1]
          /\ n = Len(todo') <=> n + 1 = Len(todo)
      BY <1>2
    <3>3. todo'[n][1] = "track" => todo'[n][2] # w
      <4>1. todo'[n] \in {"select", "track", "rest"} \X (Window \cup {NoWindow})
        BY <1>2
      <4>2. todo'[n] \in ToSet(todo')
        BY DEF ToSet
      <4>3. PICK k, v : todo'[n] = <<k, v>>
        BY <4>1
      <4>4. <<"track", w>> \notin ToSet(todo')
        BY <1>2, <1>3
      <4> QED
        BY <4>2, <4>3, <4>4
    <3> QED
      BY <1>1, <1>4, <3>1, <3>2, <3>3 DEF TasksInv, RequestsInv
  <2> QED
    BY <1>1, <1>2, <2>1 DEF TasksInv, RequestsInv
<1>8. KnownInv'
  <2>1. ToTrack = ToTrack' \cup {w} /\ w \notin ToTrack'
    <3>1. <<"track", w>> \notin ToSet(todo') /\ <<"track", w>> \in ToSet(todo) /\ w \in Window
      BY <1>2, <1>3
    <3>2. \A v : v # w =>
            (<<"track", v>> \in ToSet(todo) <=> <<"track", v>> \in ToSet(todo'))
      BY <1>2, <1>3
    <3> QED
      BY <3>1, <3>2 DEF ToTrack
  <2> QED
    BY <1>1, <1>2, <1>3, <1>4, <2>1 DEF TasksInv, KnownInv
<1>9. StatesInv'
  BY <1>1, <1>4, <1>5 DEF TasksInv, StatesInv
<1>10. ItemsInv'
  BY <1>1, <1>3, <1>4, WindowAddedStep DEF TasksInv
<1> QED
  BY <1>6, <1>7, <1>8, <1>9, <1>10 DEF TasksInv

LEMMA RestStep ==
  ASSUME TasksInv, Windows!Rest
  PROVE  TasksInv'
<1> DEFINE gone == known \ listed
           f(i) == IF ToSet(items[i].windows) \cap gone = {} THEN items[i]
                   ELSE Windows!Checked(Windows!RemoveWindow(items[i], gone))
           r == [i \in DOMAIN items |-> f(i)]
<1>1. /\ todo # <<>> /\ Head(todo)[1] = "rest" /\ todo' = <<>> /\ known' = known \ gone
      /\ tracked' = Only(tracked, Window \ gone)
      /\ cache' = [w \in DOMAIN cache \ gone |-> cache[w]]
      /\ docked' = docked
      /\ UNCHANGED <<open, state, selected, events, listed, windowSplit>>
  BY TaskLists DEF Windows!Rest, Windows!Gone, Windows!Rows, Windows!server
<1>2. items' = r
  <2>1. items' = Windows!WindowsDestroyed(gone)
    BY DEF Windows!Rest, Windows!Gone
  <2> QED
    BY <2>1, TaskLists, Zenon DEF Windows!WindowsDestroyed
<1>3. listed \subseteq known /\ ToTrack = {} /\ ToTrack' = {}
  <2>1. /\ DOMAIN todo = 1..Len(todo) /\ Len(todo) \in Nat /\ Len(todo) > 0
        /\ Head(todo) = todo[1] /\ \A n \in DOMAIN todo : todo[n] \in ToSet(todo)
    BY <1>1 DEF TasksInv, MonitorTypes, ToSet
  <2>2. 1 = Len(todo)
    BY <1>1, <2>1 DEF TasksInv, RequestsInv
  <2>3. \A e \in ToSet(todo) : e[1] = "rest"
    <3>3. DOMAIN todo = 1..1
      BY <2>1, <2>2
    <3>1. \A n \in DOMAIN todo : n = 1
      BY <3>3
    <3>2. \A e \in ToSet(todo) : e = todo[1]
      BY <3>1 DEF ToSet
    <3> QED
      BY <1>1, <2>1, <3>2
  <2>4. ToTrack = {}
    BY <2>3 DEF ToTrack
  <2>5. ToTrack' = {}
    BY <1>1 DEF ToTrack, ToSet
  <2> QED
    BY <1>1, <2>4, <2>5 DEF TasksInv, RequestsInv
<1>4. /\ tracked' \in Seq(Window \ Own) /\ IsInjective(tracked')
      /\ ToSet(tracked') = ToSet(tracked) \ gone
  <2>1. tracked \in Seq(Window \ Own) /\ IsInjective(tracked)
    BY DEF TasksInv, MonitorTypes
  <2>2. \A w \in ToSet(tracked) : w \in Window
    BY <2>1 DEF ToSet
  <2>3. /\ tracked' \in Seq(Window \ Own) /\ IsInjective(tracked')
        /\ ToSet(tracked') = ToSet(tracked) \cap (Window \ gone)
    BY <1>1, <2>1, OnlyItems, OnlyDiffers
  <2> HIDE DEF gone
  <2> QED
    BY <2>2, <2>3
<1>5. OpenTypes' /\ MonitorTypes'
  BY <1>1, <1>4 DEF TasksInv, OpenTypes, MonitorTypes
<1>6. RequestsInv'
  BY <1>1 DEF RequestsInv, IsInjective
<1>7. KnownInv'
  BY <1>1, <1>3, <1>4 DEF TasksInv, KnownInv
<1>8. StatesInv'
  <2>1. ASSUME NEW w \in ToSet(tracked) \ gone
        PROVE  w \in DOMAIN cache' /\ cache'[w] = cache[w]
    BY <1>1 DEF TasksInv, StatesInv
  <2> HIDE DEF gone
  <2> QED
    BY <1>1, <1>4, <2>1 DEF TasksInv, StatesInv
<1> HIDE DEF gone
<1>9. ItemsInv'
  <2>1. ASSUME NEW i \in DOMAIN items
        PROVE  /\ ItemRight(f(i), windowSplit) /\ ActiveIn(f(i), state, events)
               /\ f(i).app = items[i].app
               /\ ToSet(f(i).windows) \subseteq ToSet(items[i].windows) \ gone
    <3>1. ItemRight(items[i], windowSplit) /\ ActiveIn(items[i], state, events)
      BY DEF TasksInv, ItemsInv
    <3>2. CASE ToSet(items[i].windows) \cap gone = {}
      BY <3>1, <3>2
    <3>3. CASE ToSet(items[i].windows) \cap gone # {}
      <4> DEFINE less == Windows!RemoveWindow(items[i], gone)
                 c == Windows!Checked(less)
      <4>1. /\ ItemRight(less, windowSplit) /\ ActiveIn(less, state, events)
            /\ ToSet(less.windows) = ToSet(items[i].windows) \ gone /\ less.app = items[i].app
        BY <3>1, ReducedItem
      <4>2. less \in Windows!ItemType
        BY <4>1 DEF ItemRight
      <4> HIDE DEF less
      <4>3. /\ c \in Windows!ItemType /\ c.app = less.app /\ c.windows = less.windows
            /\ c.current = less.current
        BY <4>2, CheckedItem
      <4>4. f(i) = c
        BY <3>3, Zenon DEF less
      <4> HIDE DEF c, f
      <4>5. ItemRight(c, windowSplit) /\ ActiveIn(c, state, events)
        BY <4>1, <4>3 DEF ItemRight, ActiveIn
      <4> QED
        BY <4>1, <4>3, <4>4, <4>5
    <3> QED
      BY <3>2, <3>3
  <2> HIDE DEF f
  <2>2. r = [i \in DOMAIN items |-> r[i]] /\ \A i \in DOMAIN items : r[i] = f(i)
    OBVIOUS
  <2> HIDE DEF r
  <2>3. ASSUME NEW i \in DOMAIN items
        PROVE  /\ ItemRight(r[i], windowSplit') /\ ActiveIn(r[i], state', events')
               /\ r[i].app = items[i].app
               /\ ToSet(r[i].windows) \subseteq ToSet(items[i].windows) \cap ToSet(tracked')
    <3>1. ToSet(items[i].windows) \subseteq ToSet(tracked)
      BY DEF TasksInv, ItemsInv
    <3> QED
      BY <1>1, <1>4, <2>1, <2>2, <3>1
  <2>4. ItemsInv
    BY DEF TasksInv
  <2> QED
    BY <1>1, <1>2, <2>2, <2>3, <2>4, ItemsStay
<1> QED
  BY <1>5, <1>6, <1>7, <1>8, <1>9 DEF TasksInv

LEMMA HandleStateStep ==
  ASSUME TasksInv, Windows!HandleState
  PROVE  TasksInv'
<1> DEFINE w == Head(events)[2]
           r == [i \in DOMAIN items |-> Windows!StateChanged(items[i], w)]
<1>1. /\ todo = <<>> /\ events # <<>> /\ Head(events)[1] = "state" /\ events' = Tail(events)
      /\ IF w \notin known THEN UNCHANGED <<cache, items>>
         ELSE cache' = Windows!UpdateWindowState(w) /\ items' = r
      /\ UNCHANGED <<open, state, selected, todo, listed, known, tracked, docked, windowSplit>>
  BY DEF Windows!HandleState, Windows!server
<1>2. /\ events' \in Seq({"list", "state"} \X (Window \cup {NoWindow}))
      /\ Head(events) = <<"state", w>> /\ ToSet(events) = ToSet(events') \cup {Head(events)}
  BY <1>1, NewsStays DEF TasksInv
<1> HIDE DEF w
<1>3. /\ <<"list", NoWindow>> \in ToSet(events) => <<"list", NoWindow>> \in ToSet(events')
      /\ \A v : v # w /\ <<"state", v>> \in ToSet(events) => <<"state", v>> \in ToSet(events')
  BY <1>2
<1>4. OpenTypes' /\ RequestsInv'
  BY <1>1, <1>2 DEF TasksInv, OpenTypes, RequestsInv, SelectedBy
<1>5. KnownInv'
  BY <1>1, <1>3 DEF TasksInv, KnownInv, ToTrack
<1>6. ToSet(tracked) \subseteq known
  BY DEF TasksInv, KnownInv
<1>7. CASE w \notin known
  <2>1. w \notin ToSet(tracked)
    BY <1>6, <1>7
  <2>2. MonitorTypes'
    BY <1>1, <1>7 DEF TasksInv, MonitorTypes
  <2>3. StatesInv'
    BY <1>1, <1>3, <1>7, <2>1 DEF TasksInv, StatesInv
  <2>4. ItemsInv'
    <3>1. ASSUME NEW i \in DOMAIN items PROVE ActiveIn(items[i], state', events')
      BY <1>1, <1>3, <2>1 DEF TasksInv, ItemsInv, ActiveIn
    <3> QED
      BY <1>1, <1>7, <3>1 DEF TasksInv, ItemsInv
  <2> QED
    BY <1>4, <1>5, <2>2, <2>3, <2>4 DEF TasksInv
<1>8. CASE w \in known
  <2>1. /\ DOMAIN cache' = DOMAIN cache \cup {w} /\ cache'[w] = state[w]
        /\ \A v \in DOMAIN cache : v # w => cache'[v] = cache[v]
    BY <1>1, <1>8 DEF Windows!UpdateWindowState
  <2>2. MonitorTypes'
    BY <1>1, <1>8, <2>1 DEF TasksInv, MonitorTypes
  <2>3. StatesInv'
    BY <1>1, <1>3, <2>1 DEF TasksInv, StatesInv
  <2>4. ASSUME NEW i \in DOMAIN items, NEW t, t = Windows!StateChanged(items[i], w)
        PROVE  /\ ItemRight(t, windowSplit) /\ ActiveIn(t, state, events')
               /\ t.app = items[i].app /\ t.windows = items[i].windows
    <3>1. /\ ItemRight(items[i], windowSplit) /\ ActiveIn(items[i], state, events)
          /\ items[i] \in Windows!ItemType
      BY DEF TasksInv, ItemsInv, ItemRight
    <3>2. items[i].windows \in Seq(Window) /\ \A v \in ToSet(items[i].windows) : v \in Window
      BY <3>1 DEF Windows!ItemType, ToSet
    <3>3. CASE w \in ToSet(items[i].windows) /\ state[w].active
      <4>1. Windows!Contains(items[i].windows, w)
        BY <3>2, <3>3, InList
      <4>2. t = [items[i] EXCEPT !.current = w]
        BY <2>4, <3>3, <4>1, Zenon DEF Windows!StateChanged
      <4>3. /\ t \in Windows!ItemType /\ t.app = items[i].app
            /\ t.windows = items[i].windows /\ t.current = w
        BY <3>1, <3>2, <3>3, <4>2 DEF Windows!ItemType
      <4>4. \A v \in ToSet(items[i].windows) : state[v].active => v = w
        BY <3>2, <3>3 DEF TasksInv, OpenTypes
      <4>5. items[i].windows # <<>>
        BY <3>3 DEF ToSet
      <4> QED
        BY <3>1, <3>3, <4>3, <4>4, <4>5 DEF ItemRight, ActiveIn
    <3>4. CASE ~(w \in ToSet(items[i].windows) /\ state[w].active)
      <4>1. t = items[i]
        BY <2>4, <3>2, <3>4, InList DEF Windows!StateChanged
      <4>2. ActiveIn(t, state, events')
        BY <1>3, <3>1, <3>4, <4>1 DEF ActiveIn
      <4> QED
        BY <3>1, <4>1, <4>2
    <3> QED
      BY <3>3, <3>4
  <2>5. r = [i \in DOMAIN items |-> r[i]] /\ items' = r
    BY <1>1, <1>8
  <2>6. \A i \in DOMAIN items : r[i] = Windows!StateChanged(items[i], w)
    OBVIOUS
  <2> HIDE DEF r
  <2>7. ASSUME NEW i \in DOMAIN items
        PROVE  /\ ItemRight(r[i], windowSplit') /\ ActiveIn(r[i], state', events')
               /\ r[i].app = items[i].app
               /\ ToSet(r[i].windows) \subseteq ToSet(items[i].windows) \cap ToSet(tracked')
    <3>1. ToSet(items[i].windows) \subseteq ToSet(tracked)
      BY DEF TasksInv, ItemsInv
    <3>2. /\ ItemRight(r[i], windowSplit) /\ ActiveIn(r[i], state, events')
          /\ r[i].app = items[i].app /\ r[i].windows = items[i].windows
      BY <2>4, <2>6
    <3> QED
      BY <1>1, <3>1, <3>2
  <2>8. ItemsInv'
    <3>1. ItemsInv
      BY DEF TasksInv
    <3> QED
      BY <1>1, <2>5, <2>7, <3>1, ItemsStay
  <2> QED
    BY <1>4, <1>5, <2>2, <2>3, <2>8 DEF TasksInv
<1> QED
  BY <1>7, <1>8

-----------------------------------------------------------------------------
(* Docking.                                                                  *)

\* What docking an app leaves as it is.
LEMMA DockedKeeps ==
  ASSUME TasksInv, docked' \subseteq Windows!Apps, ItemsInv',
         UNCHANGED <<open, state, selected, events, todo, listed, known, tracked, cache,
                     windowSplit>>
  PROVE  TasksInv'
BY DEF TasksInv, OpenTypes, MonitorTypes, RequestsInv, SelectedBy, KnownInv, ToTrack,
       StatesInv

LEMMA AllCheckedStep ==
  ASSUME ItemsInv, NEW app, items' = Windows!AllChecked(app),
         UNCHANGED <<state, events, tracked, windowSplit>>
  PROVE  ItemsInv'
<1> DEFINE f(i) == IF items[i].app = app THEN Windows!Checked(items[i]) ELSE items[i]
           r == [i \in DOMAIN items |-> f(i)]
<1>1. items' = r
  BY Zenon DEF Windows!AllChecked
<1>2. ASSUME NEW i \in DOMAIN items
      PROVE  /\ ItemRight(f(i), windowSplit) /\ ActiveIn(f(i), state, events)
             /\ f(i).app = items[i].app /\ f(i).windows = items[i].windows
  <2>1. /\ ItemRight(items[i], windowSplit) /\ ActiveIn(items[i], state, events)
        /\ items[i] \in Windows!ItemType
    BY DEF ItemsInv, ItemRight
  <2>2. CASE items[i].app = app
    <3> DEFINE c == Windows!Checked(items[i])
    <3>1. /\ c \in Windows!ItemType /\ c.app = items[i].app /\ c.windows = items[i].windows
          /\ c.current = items[i].current
      BY <2>1, CheckedItem
    <3>2. f(i) = c
      BY <2>2, Zenon
    <3> HIDE DEF c, f
    <3> QED
      BY <2>1, <3>1, <3>2 DEF ItemRight, ActiveIn
  <2>3. CASE items[i].app # app
    BY <2>1, <2>3
  <2> QED
    BY <2>2, <2>3
<1> HIDE DEF f
<1>3. r = [i \in DOMAIN items |-> r[i]] /\ \A i \in DOMAIN items : r[i] = f(i)
  OBVIOUS
<1> HIDE DEF r
<1>4. ASSUME NEW i \in DOMAIN items
      PROVE  /\ ItemRight(r[i], windowSplit') /\ ActiveIn(r[i], state', events')
             /\ r[i].app = items[i].app
             /\ ToSet(r[i].windows) \subseteq ToSet(items[i].windows) \cap ToSet(tracked')
  <2>1. ToSet(items[i].windows) \subseteq ToSet(tracked)
    BY DEF ItemsInv
  <2> QED
    BY <1>2, <1>3, <2>1
<1> QED
  BY <1>1, <1>3, <1>4, ItemsStay

LEMMA DockStep ==
  ASSUME TasksInv, NEW app \in Windows!Apps,
         Windows!RequestDock(app) \/ Windows!RequestUndock(app) \/ Windows!ToggleDocked(app)
  PROVE  TasksInv'
<1>1. /\ docked' \subseteq Windows!Apps
      /\ UNCHANGED <<open, state, selected, events, todo, listed, known, tracked, cache,
                     windowSplit>>
  BY DEF TasksInv, OpenTypes, Windows!RequestDock, Windows!RequestUndock, Windows!ToggleDocked,
         Windows!server, Windows!monitor
<1>2. CASE items' = Windows!AllChecked(app)
  BY <1>1, <1>2, AllCheckedStep, DockedKeeps DEF TasksInv
<1>3. CASE items' = items
  <2>1. ItemsInv'
    BY <1>1, <1>3 DEF TasksInv, ItemsInv
  <2> QED
    BY <1>1, <2>1, DockedKeeps
<1>4. CASE Windows!ItemsOf(items, app) = {} /\ items' = Append(items, Windows!AppItem(app))
  <2> DEFINE new == Windows!AppItem(app)
  <2>1. /\ ItemRight(new, windowSplit) /\ ActiveIn(new, state, events)
        /\ ToSet(new.windows) = {} /\ new.app = app
    BY FreshItem
  <2>2. \A i \in DOMAIN items : items[i].app # new.app
    BY <1>4, <2>1 DEF Windows!ItemsOf
  <2> HIDE DEF new
  <2>3. ItemsInv'
    BY <1>1, <1>4, <2>1, <2>2, ItemsGrow DEF TasksInv, new
  <2> QED
    BY <1>1, <2>3, DockedKeeps
<1> QED
  BY <1>2, <1>3, <1>4 DEF Windows!RequestDock, Windows!RequestUndock, Windows!ToggleDocked

LEMMA DeletedStep ==
  ASSUME TasksInv, NEW i \in DOMAIN items, Windows!Deleted(i)
  PROVE  TasksInv'
<1>1. /\ items' = RemoveAt(items, i)
      /\ UNCHANGED <<open, state, selected, events, todo, listed, known, tracked, cache,
                     windowSplit, docked>>
  BY TaskLists DEF Windows!Deleted, Windows!server, Windows!monitor
<1>2. items \in Seq(Windows!ItemType) /\ i \in 1..Len(items)
  BY DEF TasksInv, ItemsInv
<1>3. /\ items' \in Seq(Windows!ItemType) /\ Len(items') = Len(items) - 1
      /\ \A k \in 1..Len(items) - 1 : items'[k] = items[IF k < i THEN k ELSE k + 1]
  BY <1>1, <1>2, RemoveAtItems
<1>4. /\ Len(items) \in Nat /\ DOMAIN items = 1..Len(items) /\ DOMAIN items' = 1..Len(items) - 1
  BY <1>2, <1>3
<1> DEFINE at(k) == IF k < i THEN k ELSE k + 1
<1>5. \A k \in DOMAIN items' : at(k) \in DOMAIN items /\ items'[k] = items[at(k)]
  BY <1>2, <1>3, <1>4
<1>6. \A j, k \in DOMAIN items' : j # k => at(j) # at(k)
  BY <1>2, <1>4
<1> HIDE DEF at
<1>7. ItemsInv'
  BY <1>1, <1>3, <1>5, <1>6 DEF TasksInv, ItemsInv
<1> QED
  BY <1>1, <1>7, DockedKeeps DEF TasksInv, OpenTypes

-----------------------------------------------------------------------------
(* The task manager's theorems.                                              *)

LEMMA TasksStep == TasksInv /\ [Windows!Next]_Windows!vars => TasksInv'
<1> SUFFICES ASSUME TasksInv, [Windows!Next]_Windows!vars PROVE TasksInv'
  OBVIOUS
<1>1. CASE UNCHANGED Windows!vars
  BY <1>1 DEF Windows!vars, Windows!server, Windows!monitor, TasksInv, OpenTypes, MonitorTypes,
              RequestsInv, SelectedBy, KnownInv, ToTrack, StatesInv, ItemsInv
<1>2. ASSUME NEW w \in Window,
             Windows!Map(w) \/ Windows!Withdraw(w)
               \/ \E s \in Windows!WindowState : Windows!SetState(w, s)
      PROVE  TasksInv'
  BY <1>2, OpenStep, SetStateStep
<1>3. CASE Windows!HandleClientList
  BY <1>3, ClientListStep
<1>4. CASE Windows!Select
  BY <1>4, SelectStep
<1>5. CASE Windows!Track
  BY <1>5, TrackStep
<1>6. CASE Windows!Rest
  BY <1>6, RestStep
<1>7. CASE Windows!HandleState
  BY <1>7, HandleStateStep
<1>8. ASSUME NEW app \in Windows!Apps,
             Windows!RequestDock(app) \/ Windows!RequestUndock(app)
               \/ Windows!ToggleDocked(app)
      PROVE  TasksInv'
  BY <1>8, DockStep
<1>9. ASSUME NEW i \in DOMAIN items, Windows!Deleted(i) PROVE TasksInv'
  BY <1>9, DeletedStep
<1> QED
  BY <1>1, <1>2, <1>3, <1>4, <1>5, <1>6, <1>7, <1>8, <1>9 DEF Windows!Next

LEMMA TasksInit == Windows!Init => TasksInv
<1> SUFFICES ASSUME Windows!Init PROVE TasksInv
  OBVIOUS
<1>1. /\ open = {} /\ state = [w \in Window |-> [skip |-> FALSE, active |-> FALSE]]
      /\ selected = {} /\ events = << <<"list", NoWindow>> >>
      /\ todo = <<>> /\ listed = {} /\ known = {} /\ tracked = <<>> /\ cache = <<>>
      /\ items = <<>> /\ docked = {} /\ windowSplit \in BOOLEAN
  BY DEF Windows!Init
<1>2. ToSet(tracked) = {} /\ ToSet(todo) = {} /\ IsInjective(tracked) /\ IsInjective(todo)
      /\ DOMAIN cache = {} /\ DOMAIN items = {} /\ DOMAIN todo = {}
  BY <1>1 DEF ToSet, IsInjective
<1>3. ToSet(events) = {<<"list", NoWindow>>}
  BY <1>1 DEF ToSet
<1>4. OpenTypes
  BY <1>1, FS_EmptySet DEF OpenTypes, Windows!WindowState
<1>5. MonitorTypes /\ RequestsInv /\ KnownInv
  BY <1>1, <1>2, <1>3 DEF MonitorTypes, RequestsInv, KnownInv, ToTrack
<1>6. StatesInv /\ ItemsInv
  BY <1>1, <1>2 DEF StatesInv, ItemsInv
<1> QED
  BY <1>4, <1>5, <1>6 DEF TasksInv

LEMMA TasksSound == TasksInv => Windows!WindowsSound
<1> SUFFICES ASSUME TasksInv PROVE Windows!WindowsSound
  OBVIOUS
<1>1. ASSUME NEW k, NEW v PROVE Windows!Pending(k, v) <=> <<k, v>> \in ToSet(events)
  BY InList DEF TasksInv, OpenTypes, Windows!Pending
<1>2. Windows!TypeOK
  <2>1. ToSet(tracked) \subseteq known
    BY DEF TasksInv, KnownInv
  <2>2. ASSUME NEW i \in DOMAIN items
        PROVE  /\ items[i] \in Windows!ItemType /\ IsInjective(items[i].windows)
               /\ ToSet(items[i].windows) \subseteq ToSet(tracked)
               /\ \A j \in DOMAIN items \ {i} :
                    ToSet(items[i].windows) \cap ToSet(items[j].windows) = {}
    BY DEF TasksInv, ItemsInv, ItemRight, Apart
  <2> QED
    BY <2>1, <2>2, TaskLists DEF TasksInv, OpenTypes, MonitorTypes, Windows!TypeOK
<1>3. Windows!WindowsFollow
  <2>1. todo = <<>> => ToTrack = {}
    BY DEF ToTrack, ToSet
  <2> QED
    BY <1>1, <2>1, TaskLists DEF TasksInv, KnownInv, Windows!WindowsFollow
<1>4. Windows!StateFollows
  BY <1>1, TaskLists DEF TasksInv, StatesInv, Windows!StateFollows
<1>5. Windows!CurrentIsOwn
  <2>1. ASSUME NEW i \in DOMAIN items, items[i].windows # <<>>
        PROVE  Windows!Contains(items[i].windows, items[i].current)
    <3>1. items[i].windows \in Seq(Window) /\ items[i].current \in ToSet(items[i].windows)
      BY <2>1 DEF TasksInv, ItemsInv, ItemRight, Windows!ItemType
    <3> QED
      BY <3>1, InList
  <2> QED
    BY <2>1 DEF TasksInv, ItemsInv, ItemRight, Windows!CurrentIsOwn
<1>6. Windows!ActiveShown
  <2>1. events = <<>> => \A v : <<"state", v>> \notin ToSet(events)
    BY DEF ToSet
  <2> QED
    BY <2>1, TaskLists DEF TasksInv, ItemsInv, ActiveIn, Windows!ActiveShown
<1>7. Windows!ItemShape
  BY DEF TasksInv, ItemsInv, ItemRight, Apart, Windows!ItemShape, Windows!ItemsOf
<1> QED
  BY <1>2, <1>3, <1>4, <1>5, <1>6, <1>7 DEF Windows!WindowsSound

\* However the X server goes on while the monitor asks it: the rows are the windows of the
\* last client list, what is known of their state is right or news of it is under way,
\* each is in at most one AppItem, an AppItem shows a window of its own, and once all is handled
\* the active one if it has that.
THEOREM WindowsKeepSound == Windows!Spec => []Windows!WindowsSound
  BY TasksInit, TasksStep, TasksSound, PTL DEF Windows!Spec

-----------------------------------------------------------------------------
(* The groups of windows.                                                    *)

Places == Nat \ {0}
GroupSignal == [kind : {"removed", "changed"}, row : Places, place : Places]

\* What a signal makes of the place that a row has.
Moved(v, s, r) ==
  IF s.row # r THEN v
  ELSE IF s.kind = "changed" THEN s.place
  ELSE IF v = s.place THEN 1 ELSE IF v > s.place THEN v - 1 ELSE v

\* The places of row r one after the other, from v and as the signals come.
Leads(f, v, posted, r) ==
  /\ f \in [0..Len(posted) -> Places] /\ f[0] = v
  /\ \A n \in 1..Len(posted) : f[n] = Moved(f[n - 1], posted[n], r)

Reaches(v, posted, r, e) == \E f : Leads(f, v, posted, r) /\ f[Len(posted)] = e

LEMMA MovedType ==
  ASSUME NEW v \in Places, NEW s \in GroupSignal, NEW r
  PROVE  Moved(v, s, r) \in Places
BY DEF Moved, GroupSignal, Places

LEMMA ReachesOn ==
  ASSUME NEW posted \in Seq(GroupSignal), NEW v, NEW r, NEW e, Reaches(v, posted, r, e),
         NEW s \in GroupSignal
  PROVE  Reaches(v, Append(posted, s), r, Moved(e, s, r))
<1> DEFINE k == Len(posted)
           q == Append(posted, s)
<1>1. /\ k \in Nat /\ Len(q) = k + 1 /\ q[k + 1] = s /\ \A n \in 1..k : q[n] = posted[n]
  OBVIOUS
<1> HIDE DEF q, k
<1>2. PICK f : /\ f \in [0..k -> Places] /\ f[0] = v /\ f[k] = e
               /\ \A n \in 1..k : f[n] = Moved(f[n - 1], posted[n], r)
  BY DEF Reaches, Leads, k
<1> DEFINE g == [n \in 0..k + 1 |-> IF n = k + 1 THEN Moved(e, s, r) ELSE f[n]]
<1>3. Moved(e, s, r) \in Places
  <2>1. e \in Places
    BY <1>1, <1>2
  <2> QED
    BY <2>1, MovedType
<1>4. \A n \in 0..k : n \in 0..k + 1 /\ n # k + 1 /\ f[n] \in Places
  BY <1>1, <1>2
<1>5. /\ g[k + 1] = Moved(e, s, r) /\ \A n \in 0..k : g[n] = f[n]
      /\ g \in [0..k + 1 -> Places]
  <2>1. \A n \in 0..k + 1 : n = k + 1 \/ n \in 0..k
    BY <1>1
  <2>2. k + 1 \in 0..k + 1
    BY <1>1
  <2> QED
    BY <1>3, <1>4, <2>1, <2>2
<1> HIDE DEF g
<1>6. ASSUME NEW n \in 1..k + 1 PROVE g[n] = Moved(g[n - 1], q[n], r)
  <2>1. CASE n = k + 1
    <3>1. n - 1 = k /\ k \in 0..k
      BY <1>1, <2>1
    <3> QED
      BY <1>1, <1>2, <1>5, <2>1, <3>1
  <2>2. CASE n # k + 1
    <3>1. n \in 1..k /\ n \in 0..k /\ n - 1 \in 0..k
      BY <1>1, <2>2
    <3> QED
      BY <1>1, <1>2, <1>5, <3>1
  <2> QED
    BY <2>1, <2>2
<1>7. g[0] = v
  <2>1. 0 \in 0..k
    BY <1>1
  <2> QED
    BY <1>2, <1>5, <2>1
<1>8. Leads(g, v, q, r) /\ g[Len(q)] = Moved(e, s, r)
  BY <1>1, <1>5, <1>6, <1>7 DEF Leads
<1> QED
  BY <1>8 DEF Reaches, q

LEMMA ReachesTail ==
  ASSUME NEW posted \in Seq(GroupSignal), posted # <<>>, NEW v, NEW r, NEW e,
         Reaches(v, posted, r, e)
  PROVE  Reaches(Moved(v, Head(posted), r), Tail(posted), r, e)
<1> DEFINE k == Len(posted)
           q == Tail(posted)
<1>1. /\ k \in Nat /\ k > 0 /\ Len(q) = k - 1 /\ Head(posted) = posted[1]
      /\ \A n \in 1..k - 1 : q[n] = posted[n + 1]
  OBVIOUS
<1> HIDE DEF q, k
<1>2. PICK f : /\ f \in [0..k -> Places] /\ f[0] = v /\ f[k] = e
               /\ \A n \in 1..k : f[n] = Moved(f[n - 1], posted[n], r)
  BY DEF Reaches, Leads, k
<1> DEFINE g == [n \in 0..k - 1 |-> f[n + 1]]
<1>3. g \in [0..k - 1 -> Places] /\ \A n \in 0..k - 1 : g[n] = f[n + 1]
  <2>1. \A n \in 0..k - 1 : n + 1 \in 0..k
    BY <1>1
  <2> QED
    BY <1>2, <2>1
<1> HIDE DEF g
<1>4. g[0] = Moved(v, Head(posted), r)
  <2>1. 0 \in 0..k - 1 /\ 1 \in 1..k /\ 0 + 1 = 1 /\ 1 - 1 = 0
    BY <1>1
  <2> QED
    BY <1>1, <1>2, <1>3, <2>1
<1>5. ASSUME NEW n \in 1..k - 1 PROVE g[n] = Moved(g[n - 1], q[n], r)
  <2>1. /\ n \in 0..k - 1 /\ n - 1 \in 0..k - 1 /\ n + 1 \in 1..k /\ (n - 1) + 1 = n
        /\ (n + 1) - 1 = n
    BY <1>1
  <2> QED
    BY <1>1, <1>2, <1>3, <2>1
<1>6. g[k - 1] = e
  <2>1. k - 1 \in 0..k - 1 /\ (k - 1) + 1 = k
    BY <1>1
  <2> QED
    BY <1>2, <1>3, <2>1
<1>7. Leads(g, Moved(v, Head(posted), r), q, r) /\ g[Len(q)] = e
  BY <1>1, <1>3, <1>4, <1>5, <1>6 DEF Leads
<1> QED
  BY <1>7 DEF Reaches, q

\* A row no signal is of keeps its place.
LEMMA ReachesIdle ==
  ASSUME NEW posted \in Seq(GroupSignal), NEW v \in Places, NEW r,
         \A n \in DOMAIN posted : posted[n].row # r
  PROVE  Reaches(v, posted, r, v)
<1> DEFINE k == Len(posted)
           f == [n \in 0..k |-> v]
<1>1. k \in Nat /\ DOMAIN posted = 1..k
  OBVIOUS
<1> HIDE DEF k
<1>2. \A n \in 1..k : n \in 0..k /\ n - 1 \in 0..k
  BY <1>1
<1>3. f \in [0..k -> Places] /\ f[0] = v /\ f[k] = v /\ \A n \in 0..k : f[n] = v
  BY <1>1
<1> HIDE DEF f
<1>4. \A n \in 1..k : f[n] = Moved(f[n - 1], posted[n], r)
  BY <1>1, <1>2, <1>3 DEF Moved
<1>5. Leads(f, v, posted, r) /\ f[Len(posted)] = v
  BY <1>3, <1>4 DEF Leads, k
<1> QED
  BY <1>5 DEF Reaches

\* Wherever a row is, the signals bring it somewhere: else take the fewest that do not.
LEMMA ReachesSome ==
  ASSUME NEW posted \in Seq(GroupSignal), NEW v \in Places, NEW r
  PROVE  \E e \in Places : Reaches(v, posted, r, e)
<1> DEFINE Lost(q) == \A e \in Places : ~Reaches(v, q, r, e)
           T == {k \in Nat : \E q \in Seq(GroupSignal) : Len(q) = k /\ Lost(q)}
<1>1. SUFFICES ASSUME Lost(posted) PROVE FALSE
  OBVIOUS
<1>2. T \subseteq Nat /\ T # {}
  <2>1. Len(posted) \in T
    BY <1>1
  <2> QED
    BY <2>1
<1>3. PICK k \in T : \A m \in T : k <= m
  <2> HIDE DEF T
  <2> QED
    BY <1>2, LeastNumber
<1>4. PICK q \in Seq(GroupSignal) : Len(q) = k /\ Lost(q)
  OBVIOUS
<1>5. q # <<>>
  <2>1. ASSUME q = <<>> PROVE FALSE
    <3>1. \A n \in DOMAIN q : q[n].row # r
      BY <2>1
    <3>2. Reaches(v, q, r, v)
      BY <3>1, ReachesIdle
    <3> QED
      BY <1>4, <3>2
  <2> QED
    BY <2>1
<1> DEFINE p == SubSeq(q, 1, k - 1)
           s == q[k]
<1>6. /\ k \in Nat /\ k - 1 \in Nat /\ ~(k <= k - 1) /\ s \in GroupSignal
      /\ p \in Seq(GroupSignal) /\ Len(p) = k - 1 /\ q = Append(p, s)
  BY <1>4, <1>5
<1> HIDE DEF p, s
<1>7. ~Lost(p)
  BY <1>3, <1>6
<1>8. PICK e \in Places : Reaches(v, p, r, e)
  BY <1>7
<1>9. Reaches(v, q, r, Moved(e, s, r)) /\ Moved(e, s, r) \in Places
  BY <1>6, <1>8, ReachesOn, MovedType
<1> QED
  BY <1>4, <1>9

LEMMA ReachesNow ==
  ASSUME NEW v, NEW r, NEW e, Reaches(v, <<>>, r, e)
  PROVE  e = v
BY DEF Reaches, Leads

-----------------------------------------------------------------------------
(* The groups' invariant.                                                    *)

\* A window's group, and its place there, are its own; a group is of one app.
OneEach(g) ==
  /\ \A k \in DOMAIN g : g[k] # <<>> /\ IsInjective(g[k])
  /\ \A k, j \in DOMAIN g : \A i \in DOMAIN g[k], m \in DOMAIN g[j] :
       k = j <=> AppOf[g[k][i]] = AppOf[g[j][m]]

Holds(g, w) == \E k \in DOMAIN g : \E i \in DOMAIN g[k] : g[k][i] = w

GroupTypes ==
  /\ groups \in Seq(Seq(Window)) /\ OneEach(groups)
  /\ active = NoWindow \/ (active \in Window /\ Holds(groups, active))
  /\ \A r \in DOMAIN current : current[r] \in Places
  /\ signals \in Seq(GroupSignal)

PlaceIn(c, r) == IF r \in DOMAIN c THEN c[r] ELSE 1

\* The place where the click should go of a group g.
Ends(e, g, w) == e \in 1..Len(g) /\ \A i \in 1..Len(g) : g[i] = w => e = i

\* Where a row will be when all is delivered.
PathInv ==
  \A r \in Places : \E e \in Places :
    /\ Reaches(PlaceIn(current, r), signals, r, e)
    /\ r \in DOMAIN groups /\ AppOf[groups[r][1]] \notin astray => Ends(e, groups[r], active)

GroupInv == GroupTypes /\ PathInv

LEMMA GroupFacts ==
  ASSUME groups \in Seq(Seq(Window))
  PROVE  /\ Len(groups) \in Nat /\ DOMAIN groups = 1..Len(groups) /\ DOMAIN groups \subseteq Places
         /\ \A k \in DOMAIN groups :
              /\ groups[k] \in Seq(Window) /\ Len(groups[k]) \in Nat
              /\ DOMAIN groups[k] = 1..Len(groups[k])
              /\ groups[k] # <<>> => 1 \in DOMAIN groups[k]
              /\ \A i \in DOMAIN groups[k] : groups[k][i] \in Window /\ i \in Places
BY DEF Places

LEMMA OpenIs ==
  ASSUME groups \in Seq(Seq(Window))
  PROVE  \A w : w \in Groups!Open <=> Holds(groups, w)
BY DEF Groups!Open, Groups!ToSet, Holds

\* Where a window is.
LEMMA WhereIs ==
  ASSUME groups \in Seq(Seq(Window)), OneEach(groups), NEW w, Holds(groups, w)
  PROVE  /\ Groups!RowOf(w) \in DOMAIN groups
         /\ Groups!PlaceOf(w) \in DOMAIN groups[Groups!RowOf(w)]
         /\ groups[Groups!RowOf(w)][Groups!PlaceOf(w)] = w
         /\ \A k \in DOMAIN groups : \A i \in DOMAIN groups[k] :
              groups[k][i] = w => k = Groups!RowOf(w) /\ i = Groups!PlaceOf(w)
<1> DEFINE k == Groups!RowOf(w)
           i == Groups!PlaceOf(w)
<1>1. \A j \in DOMAIN groups : Groups!Contains(groups[j], w) <=> \E m \in DOMAIN groups[j] : groups[j][m] = w
  <2>1. ASSUME NEW j \in DOMAIN groups
        PROVE  Groups!Contains(groups[j], w) <=> \E m \in DOMAIN groups[j] : groups[j][m] = w
    <3>1. DOMAIN groups[j] = 1..Len(groups[j])
      BY GroupFacts
    <3> QED
      BY <3>1 DEF Groups!Contains
  <2> QED
    BY <2>1
<1>2. k \in DOMAIN groups /\ Groups!Contains(groups[k], w)
  <2>1. \E j \in DOMAIN groups : Groups!Contains(groups[j], w)
    BY <1>1 DEF Holds
  <2> QED
    BY <2>1 DEF Groups!RowOf
<1> HIDE DEF k
<1>3. i \in DOMAIN groups[k] /\ groups[k][i] = w
  <2>1. \E m \in DOMAIN groups[k] : groups[k][m] = w
    BY <1>1, <1>2
  <2> QED
    BY <2>1 DEF Groups!PlaceOf, k
<1> HIDE DEF i
<1>4. ASSUME NEW j \in DOMAIN groups, NEW m \in DOMAIN groups[j], groups[j][m] = w
      PROVE  j = k /\ m = i
  <2>1. j = k
    BY <1>2, <1>3, <1>4 DEF OneEach
  <2>2. IsInjective(groups[k])
    BY <1>2 DEF OneEach
  <2> QED
    BY <1>3, <1>4, <2>1, <2>2 DEF IsInjective
<1> QED
  BY <1>2, <1>3, <1>4 DEF k, i

LEMMA MatesAre ==
  ASSUME groups \in Seq(Seq(Window)), NEW w
  PROVE  \A v : v \in Groups!Mates(w) <=> Holds(groups, v) /\ AppOf[v] = AppOf[w]
BY OpenIs DEF Groups!Mates

\* A window comes that no row has: a row of its own.
LEMMA OpensAlone ==
  ASSUME GroupInv, NEW w \in Window, Groups!Opens(w), Groups!Mates(w) = {}
  PROVE  GroupInv'
<1> DEFINE n == Len(groups)
<1>1. /\ groups \in Seq(Seq(Window)) /\ OneEach(groups) /\ signals \in Seq(GroupSignal)
      /\ n \in Nat /\ DOMAIN groups = 1..n
  BY DEF GroupInv, GroupTypes
<1>2. /\ groups' = Append(groups, <<w>>) /\ active' = active /\ current' = current
      /\ signals' = signals
      /\ astray' = IF n + 1 \in Groups!Rowed THEN astray \cup {AppOf[w]} ELSE astray
  BY DEF Groups!Opens
<1>3. /\ groups' \in Seq(Seq(Window)) /\ DOMAIN groups' = 1..n + 1
      /\ groups'[n + 1] = <<w>> /\ \A k \in 1..n : groups'[k] = groups[k]
  BY <1>1, <1>2
<1>4. \A k \in 1..n : \A i \in DOMAIN groups[k] : AppOf[groups[k][i]] # AppOf[w]
  BY <1>1, MatesAre DEF Holds
<1>5. DOMAIN <<w>> = {1} /\ <<w>>[1] = w /\ Len(<<w>>) = 1 /\ <<w>> # <<>>
  OBVIOUS
<1> HIDE DEF n
<1>6. \A k \in 1..n + 1 : k \in 1..n \/ k = n + 1
  BY <1>1
<1>7. OneEach(groups')
  <2>1. ASSUME NEW k \in 1..n + 1 PROVE groups'[k] # <<>> /\ IsInjective(groups'[k])
    <3>1. CASE k \in 1..n
      BY <1>1, <1>3, <3>1 DEF OneEach
    <3>2. CASE k = n + 1
      <4>1. IsInjective(<<w>>)
        BY <1>5 DEF IsInjective
      <4>2. groups'[k] = <<w>>
        BY <1>3, <3>2
      <4> QED
        BY Zenon, <1>5, <4>1, <4>2
    <3> QED
      BY <1>6, <3>1, <3>2
  <2>2. ASSUME NEW k \in 1..n + 1, NEW j \in 1..n + 1, NEW i \in DOMAIN groups'[k],
               NEW m \in DOMAIN groups'[j]
        PROVE  k = j <=> AppOf[groups'[k][i]] = AppOf[groups'[j][m]]
    <3>1. n + 1 \notin 1..n
      BY <1>1
    <3>2. CASE k \in 1..n /\ j \in 1..n
      <4>1. groups'[k] = groups[k] /\ groups'[j] = groups[j]
        BY <1>3, <3>2
      <4>2. k \in DOMAIN groups /\ j \in DOMAIN groups
        BY <1>1, <3>2
      <4>3. i \in DOMAIN groups[k] /\ m \in DOMAIN groups[j]
        BY Zenon, <2>2, <4>1
      <4>4. k = j <=> AppOf[groups[k][i]] = AppOf[groups[j][m]]
        <5>1. OneEach(groups)
          BY <1>1
        <5> QED
          BY <4>2, <4>3, <5>1 DEF OneEach
      <4> QED
        BY Zenon, <4>1, <4>4
    <3>3. CASE k = n + 1 /\ j = n + 1
      BY <1>3, <1>5, <3>3
    <3>4. CASE k \in 1..n /\ j = n + 1
      <4>1. groups'[k] = groups[k] /\ groups'[j] = <<w>> /\ k # j
        BY <1>3, <3>1, <3>4
      <4>2. i \in DOMAIN groups[k] /\ m \in DOMAIN <<w>>
        BY Zenon, <2>2, <4>1
      <4> QED
        BY <1>4, <1>5, <3>4, <4>1, <4>2
    <3>5. CASE k = n + 1 /\ j \in 1..n
      <4>1. groups'[k] = <<w>> /\ groups'[j] = groups[j] /\ k # j
        BY <1>3, <3>1, <3>5
      <4>2. i \in DOMAIN <<w>> /\ m \in DOMAIN groups[j]
        BY Zenon, <2>2, <4>1
      <4> QED
        BY <1>4, <1>5, <3>5, <4>1, <4>2
    <3> QED
      BY <1>6, <3>2, <3>3, <3>4, <3>5
  <2> QED
    BY <1>3, <2>1, <2>2 DEF OneEach
<1>8. active = NoWindow \/ (active \in Window /\ Holds(groups', active))
  <2>1. \A k \in 1..n : k \in 1..n + 1
    BY <1>1
  <2> QED
    BY <1>1, <1>3, <2>1 DEF GroupInv, GroupTypes, Holds
<1>9. GroupTypes'
  BY <1>2, <1>3, <1>7, <1>8 DEF GroupInv, GroupTypes
<1>10. ASSUME NEW r \in Places
       PROVE  \E e \in Places :
                /\ Reaches(PlaceIn(current, r), signals, r, e)
                /\ r \in DOMAIN groups' /\ AppOf[groups'[r][1]] \notin astray' =>
                     Ends(e, groups'[r], active)
  <2>1. PICK e \in Places :
          /\ Reaches(PlaceIn(current, r), signals, r, e)
          /\ r \in DOMAIN groups /\ AppOf[groups[r][1]] \notin astray =>
               Ends(e, groups[r], active)
    BY DEF GroupInv, PathInv
  <2>2. astray \subseteq astray'
    BY <1>2
  <2>3. CASE r \in 1..n
    BY <1>1, <1>3, <2>1, <2>2, <2>3
  <2>4. CASE r \notin 1..n + 1
    BY <1>3, <2>1, <2>4
  <2>5. CASE r = n + 1 /\ r \in Groups!Rowed
    <3>1. AppOf[groups'[r][1]] \in astray'
      BY <1>2, <1>3, <1>5, <2>5
    <3> QED
      BY <2>1, <3>1
  <2>6. CASE r = n + 1 /\ r \notin Groups!Rowed
    <3>1. PlaceIn(current, r) = 1 /\ \A m \in DOMAIN signals : signals[m].row # r
      BY <2>6 DEF Groups!Rowed, PlaceIn
    <3>2. 1 \in Places /\ Reaches(1, signals, r, 1)
      <4>1. 1 \in Places
        BY DEF Places
      <4> QED
        BY <1>1, <3>1, <4>1, ReachesIdle
    <3>3. Ends(1, <<w>>, active)
      BY <1>5 DEF Ends
    <3> QED
      BY <1>3, <2>6, <3>1, <3>2, <3>3
  <2> QED
    BY <1>6, <2>3, <2>4, <2>5, <2>6
<1>11. PathInv'
  BY <1>2, <1>10 DEF PathInv
<1> QED
  BY <1>9, <1>11 DEF GroupInv
\* One group with other windows of its app.
LEMMA GroupChanged ==
  ASSUME NEW g \in Seq(Seq(Window)), OneEach(g), NEW k \in DOMAIN g,
         NEW h \in Seq(Window), h # <<>>, IsInjective(h),
         \A i \in DOMAIN h : AppOf[h[i]] = AppOf[g[k][1]],
         NEW q, q = [g EXCEPT ![k] = h]
  PROVE  /\ q \in Seq(Seq(Window)) /\ DOMAIN q = DOMAIN g /\ OneEach(q)
         /\ q[k] = h /\ \A j \in DOMAIN g : j # k => q[j] = g[j]
<1>1. /\ DOMAIN g = 1..Len(g) /\ Len(g) \in Nat /\ q \in Seq(Seq(Window)) /\ DOMAIN q = DOMAIN g
      /\ q[k] = h /\ \A j \in DOMAIN g : j # k => q[j] = g[j]
  OBVIOUS
<1>2. \A j \in DOMAIN g : \A i \in DOMAIN q[j] : AppOf[q[j][i]] = AppOf[g[j][1]]
  <2>1. ASSUME NEW j \in DOMAIN g, NEW i \in DOMAIN q[j]
        PROVE  AppOf[q[j][i]] = AppOf[g[j][1]]
    <3>1. CASE j = k
      BY <1>1, <2>1, <3>1
    <3>2. CASE j # k
      <4>1. q[j] = g[j] /\ g[j] \in Seq(Window) /\ g[j] # <<>> /\ i \in DOMAIN g[j]
        BY <1>1, <2>1, <3>2 DEF OneEach
      <4>2. 1 \in DOMAIN g[j]
        BY <4>1
      <4> QED
        BY <4>1, <4>2 DEF OneEach
    <3> QED
      BY <3>1, <3>2
  <2> QED
    BY <2>1
<1>3. \A j, m \in DOMAIN g : j = m <=> AppOf[g[j][1]] = AppOf[g[m][1]]
  <2>1. \A j \in DOMAIN g : 1 \in DOMAIN g[j]
    <3>1. ASSUME NEW j \in DOMAIN g PROVE 1 \in DOMAIN g[j]
      <4>1. g[j] \in Seq(Window) /\ g[j] # <<>>
        BY <1>1 DEF OneEach
      <4> QED
        BY <4>1
    <3> QED
      BY <3>1
  <2> QED
    BY <2>1 DEF OneEach
<1>4. \A j \in DOMAIN g : q[j] # <<>> /\ IsInjective(q[j])
  <2>1. ASSUME NEW j \in DOMAIN g PROVE q[j] # <<>> /\ IsInjective(q[j])
    <3>1. CASE j = k
      BY Zenon, <1>1, <3>1
    <3>2. CASE j # k
      <4>1. q[j] = g[j] /\ g[j] # <<>> /\ IsInjective(g[j])
        BY <1>1, <3>2 DEF OneEach
      <4> QED
        BY Zenon, <4>1
    <3> QED
      BY <3>1, <3>2
  <2> QED
    BY <2>1
<1>5. OneEach(q)
  BY <1>1, <1>2, <1>3, <1>4 DEF OneEach
<1> QED
  BY <1>1, <1>5

\* A window comes to its group.
LEMMA OpensBeside ==
  ASSUME GroupInv, NEW w \in Window, Groups!Opens(w), Groups!Mates(w) # {}
  PROVE  GroupInv'
<1>1. /\ groups \in Seq(Seq(Window)) /\ OneEach(groups) /\ w \notin Groups!Open
      /\ active = NoWindow \/ (active \in Window /\ Holds(groups, active))
  BY DEF GroupInv, GroupTypes, Groups!Opens
<1>2. PICK v \in Groups!Mates(w) : groups' = [groups EXCEPT ![Groups!RowOf(v)] = Append(@, w)]
  BY Zenon DEF Groups!Opens
<1>3. Holds(groups, v) /\ AppOf[v] = AppOf[w]
  BY <1>1, <1>2, MatesAre
<1> DEFINE k == Groups!RowOf(v)
           h == Append(groups[k], w)
           n == Len(groups[k])
<1>4. /\ k \in DOMAIN groups /\ groups[k] \in Seq(Window) /\ n \in Nat
      /\ DOMAIN groups[k] = 1..n /\ n >= 1 /\ 1 \in DOMAIN groups[k]
      /\ AppOf[groups[k][1]] = AppOf[w]
  <2>1. k \in DOMAIN groups /\ \E i \in DOMAIN groups[k] : groups[k][i] = v
    BY <1>1, <1>3, WhereIs
  <2>2. groups[k] \in Seq(Window) /\ groups[k] # <<>>
    BY <1>1, <2>1 DEF OneEach
  <2>3. n \in Nat /\ DOMAIN groups[k] = 1..n /\ n >= 1 /\ 1 \in DOMAIN groups[k]
    BY <2>2
  <2>4. AppOf[groups[k][1]] = AppOf[v]
    BY <1>1, <2>1, <2>3 DEF OneEach
  <2> QED
    BY <1>3, <2>1, <2>2, <2>3, <2>4
<1> HIDE DEF k
<1>5. /\ h \in Seq(Window) /\ h # <<>> /\ DOMAIN h = 1..n + 1 /\ h[n + 1] = w /\ Len(h) = n + 1
      /\ \A i \in 1..n : h[i] = groups[k][i]
  BY <1>4
<1>6. /\ active' = active /\ current' = current /\ signals' = signals /\ astray' = astray
      /\ groups' = [groups EXCEPT ![k] = h]
  BY <1>2 DEF Groups!Opens, k
<1> HIDE DEF h, n
<1>7. \A i \in 1..n + 1 : i \in 1..n \/ i = n + 1
  BY <1>4
<1>8. \A i \in 1..n : h[i] # w
  BY <1>1, <1>4, <1>5, OpenIs DEF Holds
<1>9. IsInjective(h)
  <2>1. IsInjective(groups[k])
    BY <1>1, <1>4 DEF OneEach
  <2> QED
    BY <1>4, <1>5, <1>7, <1>8, <2>1 DEF IsInjective
<1>10. \A i \in DOMAIN h : AppOf[h[i]] = AppOf[groups[k][1]]
  <2>1. \A i \in 1..n : AppOf[groups[k][i]] = AppOf[groups[k][1]]
    BY <1>1, <1>4 DEF OneEach
  <2> QED
    BY <1>4, <1>5, <1>7, <2>1
<1>11. /\ groups' \in Seq(Seq(Window)) /\ DOMAIN groups' = DOMAIN groups /\ OneEach(groups')
       /\ groups'[k] = h /\ \A j \in DOMAIN groups : j # k => groups'[j] = groups[j]
  BY <1>1, <1>4, <1>5, <1>6, <1>9, <1>10, GroupChanged
<1>12. active = NoWindow \/ (active \in Window /\ Holds(groups', active))
  <2>1. ASSUME Holds(groups, active) PROVE Holds(groups', active)
    <3>1. PICK j \in DOMAIN groups : \E i \in DOMAIN groups[j] : groups[j][i] = active
      BY <2>1 DEF Holds
    <3>2. CASE j = k
      <4>1. PICK i \in 1..n : h[i] = active
        BY <1>4, <1>5, <3>1, <3>2
      <4>2. i \in DOMAIN h
        BY <1>4, <1>5
      <4> QED
        BY <1>4, <1>11, <4>1, <4>2 DEF Holds
    <3>3. CASE j # k
      BY <1>11, <3>1, <3>3 DEF Holds
    <3> QED
      BY <3>2, <3>3
  <2> QED
    BY <1>1, <2>1
<1>13. GroupTypes'
  BY <1>6, <1>11, <1>12 DEF GroupInv, GroupTypes
<1>14. ASSUME NEW r \in Places
       PROVE  \E e \in Places :
                /\ Reaches(PlaceIn(current, r), signals, r, e)
                /\ r \in DOMAIN groups' /\ AppOf[groups'[r][1]] \notin astray =>
                     Ends(e, groups'[r], active)
  <2>1. PICK e \in Places :
          /\ Reaches(PlaceIn(current, r), signals, r, e)
          /\ r \in DOMAIN groups /\ AppOf[groups[r][1]] \notin astray =>
               Ends(e, groups[r], active)
    BY DEF GroupInv, PathInv
  <2>2. CASE r # k
    BY <1>11, <2>1, <2>2
  <2>3. ASSUME r = k, AppOf[groups'[r][1]] \notin astray
        PROVE  Ends(e, groups'[r], active)
    <3>1. 1 \in 1..n
      BY <1>4
    <3>2. Ends(e, groups[k], active)
      BY <1>4, <1>5, <1>11, <2>1, <2>3, <3>1
    <3>3. e \in 1..n /\ \A i \in 1..n : h[i] = active => e = i
      BY <1>5, <3>2 DEF Ends, n
    <3>4. active # w
      BY <1>1, OpenIs, GroupsAssumption
    <3> QED
      BY <1>4, <1>5, <1>7, <1>11, <2>3, <3>3, <3>4 DEF Ends
  <2> QED
    BY <2>1, <2>2, <2>3
<1>15. PathInv'
  BY <1>6, <1>14 DEF PathInv
<1> QED
  BY <1>13, <1>15 DEF GroupInv
LEMMA GroupLists == \A s, i : Groups!RemoveAt(s, i) = RemoveAt(s, i)
BY Zenon DEF Groups!RemoveAt, RemoveAt

LEMMA SignalIs ==
  ASSUME groups \in Seq(Seq(Window)), OneEach(groups), NEW w, Holds(groups, w),
         NEW what, what \in {"removed", "changed"}
  PROVE  /\ Groups!Signal(what, w) \in GroupSignal
         /\ Groups!Signal(what, w).row = Groups!RowOf(w)
         /\ Groups!Signal(what, w).place = Groups!PlaceOf(w)
         /\ Groups!Signal(what, w).kind = what
<1>1. Groups!RowOf(w) \in DOMAIN groups /\ Groups!PlaceOf(w) \in DOMAIN groups[Groups!RowOf(w)]
  BY WhereIs
<1>2. Groups!RowOf(w) \in Places /\ Groups!PlaceOf(w) \in Places
  BY <1>1, GroupFacts
<1>3. Groups!Signal(what, w) = [kind |-> what, row |-> Groups!RowOf(w), place |-> Groups!PlaceOf(w)]
  BY Zenon DEF Groups!Signal
<1> QED
  BY <1>2, <1>3 DEF GroupSignal

\* The last window of a group goes, and with it the row.
LEMMA ClosesAlone ==
  ASSUME GroupInv, NEW w \in Window, Groups!Closes(w), Groups!Mates(w) = {w}
  PROVE  GroupInv'
<1> DEFINE k == Groups!RowOf(w)
           n == Len(groups)
           s == Groups!Signal("removed", w)
<1>1. /\ groups \in Seq(Seq(Window)) /\ OneEach(groups) /\ signals \in Seq(GroupSignal)
      /\ active = NoWindow \/ (active \in Window /\ Holds(groups, active))
      /\ n \in Nat /\ DOMAIN groups = 1..n
      /\ \A r \in DOMAIN current : current[r] \in Places
  BY DEF GroupInv, GroupTypes
<1>2. Holds(groups, w)
  BY <1>1, OpenIs DEF Groups!Closes
<1>3. k \in 1..n /\ s \in GroupSignal /\ s.row = k
  <2>1. k \in DOMAIN groups
    BY Zenon, <1>1, <1>2, WhereIs
  <2>2. s \in GroupSignal /\ s.row = k
    <3>1. "removed" \in {"removed", "changed"}
      OBVIOUS
    <3> QED
      BY Zenon, <1>1, <1>2, <3>1, SignalIs
  <2> QED
    BY <1>1, <2>1, <2>2
<1>4. /\ groups' = RemoveAt(groups, k) /\ signals' = Append(signals, s) /\ current' = current
      /\ active' = IF active = w THEN NoWindow ELSE active
      /\ astray' = (astray \ {AppOf[w]}) \cup {AppOf[groups[j][1]] : j \in k + 1..n}
  BY GroupLists DEF Groups!Closes
<1>5. /\ groups' \in Seq(Seq(Window)) /\ Len(groups') = n - 1 /\ DOMAIN groups' = 1..n - 1
      /\ \A r \in 1..n - 1 : groups'[r] = groups[IF r < k THEN r ELSE r + 1]
  <2> HIDE DEF k
  <2>1. /\ groups' \in Seq(Seq(Window)) /\ Len(groups') = n - 1
        /\ \A r \in 1..n - 1 : groups'[r] = groups[IF r < k THEN r ELSE r + 1]
    <3>1. groups \in Seq(Seq(Window)) /\ k \in 1..Len(groups)
      BY <1>1, <1>3
    <3>2. groups' = RemoveAt(groups, k)
      BY <1>4
    <3> HIDE DEF n
    <3>3. /\ groups' \in Seq(Seq(Window)) /\ Len(groups') = Len(groups) - 1
          /\ \A r \in 1..Len(groups) - 1 : groups'[r] = groups[IF r < k THEN r ELSE r + 1]
      BY <3>1, <3>2, RemoveAtItems
    <3> QED
      BY <3>3 DEF n
  <2> QED
    BY <2>1
<1>6. \A j \in 1..n : groups[j] \in Seq(Window) /\ groups[j] # <<>> /\ 1 \in DOMAIN groups[j]
  <2>1. ASSUME NEW j \in 1..n
        PROVE  groups[j] \in Seq(Window) /\ groups[j] # <<>> /\ 1 \in DOMAIN groups[j]
    <3>1. groups[j] \in Seq(Window) /\ groups[j] # <<>>
      <4>1. j \in DOMAIN groups
        BY <1>1
      <4> QED
        BY <1>1, <4>1, GroupFacts DEF OneEach
    <3> QED
      BY <3>1
  <2> QED
    BY <2>1
<1>7. \A i \in DOMAIN groups[k] : groups[k][i] = w
  <2>1. ASSUME NEW i \in DOMAIN groups[k] PROVE groups[k][i] = w
    <3>1. Holds(groups, groups[k][i])
      BY <1>1, <1>3 DEF Holds
    <3>2. AppOf[groups[k][i]] = AppOf[w]
      BY <1>1, <1>2, <1>3, WhereIs DEF OneEach
    <3> QED
      BY <1>1, <3>1, <3>2, MatesAre
  <2> QED
    BY <2>1
<1> HIDE DEF k, n, s
<1> DEFINE at(r) == IF r < k THEN r ELSE r + 1
<1>0. n \in Nat /\ k \in 1..n
  BY <1>1, <1>3
<1>8. \A r \in 1..n - 1 : at(r) \in 1..n /\ at(r) # k /\ groups'[r] = groups[at(r)]
  <2>1. \A r \in 1..n - 1 : at(r) \in 1..n /\ at(r) # k
    BY <1>0
  <2>2. \A r \in 1..n - 1 : groups'[r] = groups[at(r)]
    BY Zenon, <1>5
  <2> QED
    BY <2>1, <2>2
<1>9. \A r, j \in 1..n - 1 : r = j <=> at(r) = at(j)
  BY <1>1, <1>3
<1> HIDE DEF at
<1>10. OneEach(groups')
  <2>1. ASSUME NEW r \in 1..n - 1 PROVE groups'[r] # <<>> /\ IsInjective(groups'[r])
    <3>1. groups'[r] = groups[at(r)] /\ at(r) \in DOMAIN groups
      BY <1>1, <1>8
    <3>2. groups[at(r)] # <<>> /\ IsInjective(groups[at(r)])
      BY <1>1, <3>1 DEF OneEach
    <3> QED
      BY Zenon, <3>1, <3>2
  <2>2. ASSUME NEW r \in 1..n - 1, NEW j \in 1..n - 1, NEW i \in DOMAIN groups'[r],
               NEW m \in DOMAIN groups'[j]
        PROVE  r = j <=> AppOf[groups'[r][i]] = AppOf[groups'[j][m]]
    <3>1. /\ groups'[r] = groups[at(r)] /\ groups'[j] = groups[at(j)]
          /\ at(r) \in DOMAIN groups /\ at(j) \in DOMAIN groups
      BY <1>1, <1>8
    <3>2. i \in DOMAIN groups[at(r)] /\ m \in DOMAIN groups[at(j)]
      BY Zenon, <2>2, <3>1
    <3>3. at(r) = at(j) <=> AppOf[groups[at(r)][i]] = AppOf[groups[at(j)][m]]
      <4>1. OneEach(groups)
        BY <1>1
      <4> QED
        BY <3>1, <3>2, <4>1 DEF OneEach
    <3>4. r = j <=> at(r) = at(j)
      BY <1>9
    <3> QED
      BY Zenon, <3>1, <3>3, <3>4
  <2> QED
    BY <1>5, <2>1, <2>2 DEF OneEach
<1>11. active' = NoWindow \/ (active' \in Window /\ Holds(groups', active'))
  <2>1. ASSUME active # w, active \in Window, Holds(groups, active)
        PROVE  Holds(groups', active)
    <3>1. PICK j \in 1..n : \E i \in DOMAIN groups[j] : groups[j][i] = active
      BY <1>1, <2>1 DEF Holds
    <3>2. j # k
      BY <1>7, <2>1, <3>1
    <3> DEFINE r == IF j < k THEN j ELSE j - 1
    <3>3. r \in 1..n - 1 /\ groups'[r] = groups[j]
      <4>1. r \in 1..n - 1 /\ (IF r < k THEN r ELSE r + 1) = j
        BY <1>1, <1>3, <3>2
      <4> QED
        BY <1>5, <4>1
    <3> HIDE DEF r
    <3> QED
      BY <1>5, <3>1, <3>3 DEF Holds
  <2>2. CASE active = w \/ active = NoWindow
    BY <1>4, <2>2
  <2>3. CASE active # w /\ active # NoWindow
    <3>1. active' = active
      BY <1>4, <2>3
    <3>2. active \in Window /\ Holds(groups', active)
      BY <1>1, <2>1, <2>3
    <3> QED
      BY Zenon, <3>1, <3>2
  <2> QED
    BY <2>2, <2>3
<1>12. GroupTypes'
  <2>1. signals' \in Seq(GroupSignal)
    BY <1>1, <1>3, <1>4
  <2> QED
    BY <1>1, <1>4, <1>5, <1>10, <1>11, <2>1 DEF GroupTypes
<1>13. ASSUME NEW r \in Places
       PROVE  \E e \in Places :
                /\ Reaches(PlaceIn(current', r), signals', r, e)
                /\ r \in DOMAIN groups' /\ AppOf[groups'[r][1]] \notin astray' =>
                     Ends(e, groups'[r], active')
  <2>1. PICK e \in Places :
          /\ Reaches(PlaceIn(current, r), signals, r, e)
          /\ r \in DOMAIN groups /\ AppOf[groups[r][1]] \notin astray =>
               Ends(e, groups[r], active)
    BY DEF GroupInv, PathInv
  <2>2. /\ Reaches(PlaceIn(current', r), signals', r, Moved(e, s, r))
        /\ Moved(e, s, r) \in Places
    BY <1>1, <1>3, <1>4, <2>1, ReachesOn, MovedType
  <2>3. ASSUME r \in DOMAIN groups', AppOf[groups'[r][1]] \notin astray'
        PROVE  Ends(Moved(e, s, r), groups'[r], active')
    <3>1. CASE r < k
      <4>1. Moved(e, s, r) = e
        BY <1>1, <1>3, <3>1 DEF Moved, Places
      <4>2. groups'[r] = groups[r] /\ r \in 1..n /\ r # k
        <5>1. r \in 1..n - 1 /\ r \in 1..n /\ r # k
          BY <1>0, <1>5, <2>3, <3>1
        <5>2. groups'[r] = groups[IF r < k THEN r ELSE r + 1]
          BY Zenon, <1>5, <5>1
        <5> QED
          BY <3>1, <5>1, <5>2
      <4>3. AppOf[groups[r][1]] # AppOf[w]
        <5>1. 1 \in DOMAIN groups[r] /\ 1 \in DOMAIN groups[k] /\ groups[k][1] = w
          BY <1>3, <1>6, <1>7, <4>2
        <5>2. r \in DOMAIN groups /\ k \in DOMAIN groups /\ OneEach(groups)
          BY <1>1, <1>3, <4>2
        <5>3. r = k <=> AppOf[groups[r][1]] = AppOf[groups[k][1]]
          BY <5>1, <5>2 DEF OneEach
        <5> QED
          BY <4>2, <5>1, <5>3
      <4>4. Ends(e, groups[r], active)
        <5>1. r \in DOMAIN groups
          BY <1>1, <4>2
        <5>2. AppOf[groups[r][1]] \notin astray
          <6>1. astray \ {AppOf[w]} \subseteq astray'
            BY <1>4
          <6> QED
            BY Zenon, <2>3, <4>2, <4>3, <6>1
        <5> QED
          BY Zenon, <2>1, <5>1, <5>2
      <4>5. \A i \in 1..Len(groups[r]) : groups[r][i] # NoWindow
        BY <1>6, <4>2, GroupsAssumption
      <4> QED
        BY <1>4, <4>1, <4>2, <4>4, <4>5 DEF Ends
    <3>2. CASE r >= k
      <4>1. r + 1 \in k + 1..n /\ groups'[r] = groups[r + 1]
        <5>1. r \in 1..n - 1
          BY <1>5, <2>3
        <5>2. r + 1 \in k + 1..n /\ ~(r < k)
          BY <1>0, <3>2, <5>1
        <5>3. groups'[r] = groups[IF r < k THEN r ELSE r + 1]
          BY Zenon, <1>5, <5>1
        <5> QED
          BY <5>2, <5>3
      <4>2. AppOf[groups'[r][1]] \in astray'
        BY <1>4, <4>1
      <4> QED
        BY <2>3, <4>2
    <3> QED
      BY <1>1, <1>3, <3>1, <3>2 DEF Places
  <2> QED
    BY <2>2, <2>3
<1>14. PathInv'
  BY <1>13 DEF PathInv
<1> QED
  BY <1>12, <1>14 DEF GroupInv
\* A window goes and leaves others of its group.
LEMMA ClosesBeside ==
  ASSUME GroupInv, NEW w \in Window, Groups!Closes(w), Groups!Mates(w) # {w}
  PROVE  GroupInv'
<1> DEFINE k == Groups!RowOf(w)
           i == Groups!PlaceOf(w)
           n == Len(groups[k])
           h == RemoveAt(groups[k], i)
           s == Groups!Signal("removed", w)
<1>1. /\ groups \in Seq(Seq(Window)) /\ OneEach(groups) /\ signals \in Seq(GroupSignal)
      /\ active = NoWindow \/ (active \in Window /\ Holds(groups, active))
      /\ \A r \in DOMAIN current : current[r] \in Places
  BY DEF GroupInv, GroupTypes
<1>2. Holds(groups, w)
  BY <1>1, OpenIs DEF Groups!Closes
<1>3. /\ k \in DOMAIN groups /\ i \in DOMAIN groups[k] /\ groups[k][i] = w
      /\ \A j \in DOMAIN groups : \A m \in DOMAIN groups[j] :
           groups[j][m] = w => j = k /\ m = i
  BY Zenon, <1>1, <1>2, WhereIs
<1>4. s \in GroupSignal /\ s.row = k /\ s.place = i /\ s.kind = "removed"
  <2>1. "removed" \in {"removed", "changed"}
    OBVIOUS
  <2> QED
    BY Zenon, <1>1, <1>2, <2>1, SignalIs
<1>5. /\ groups' = [groups EXCEPT ![k] = h] /\ signals' = Append(signals, s)
      /\ current' = current /\ active' = IF active = w THEN NoWindow ELSE active
      /\ astray' = astray
  <2>1. /\ groups' = [groups EXCEPT ![k] = Groups!RemoveAt(@, i)] /\ astray' = astray
        /\ signals' = Append(signals, s) /\ current' = current
        /\ active' = IF active = w THEN NoWindow ELSE active
    BY Zenon DEF Groups!Closes
  <2>2. Groups!RemoveAt(groups[k], i) = h
    BY GroupLists
  <2> QED
    BY <2>1, <2>2
<1>6. /\ groups[k] \in Seq(Window) /\ n \in Nat /\ DOMAIN groups[k] = 1..n /\ i \in 1..n
      /\ IsInjective(groups[k])
  <2>1. groups[k] \in Seq(Window) /\ IsInjective(groups[k])
    BY <1>1, <1>3, GroupFacts DEF OneEach
  <2> QED
    BY <1>3, <2>1
<1>7. n > 1
  <2>1. PICK v \in Groups!Mates(w) : v # w
    <3>1. w \in Groups!Mates(w)
      BY <1>1, <1>2, MatesAre
    <3> QED
      BY <3>1
  <2>2. Holds(groups, v) /\ AppOf[v] = AppOf[w]
    BY <1>1, <2>1, MatesAre
  <2>3. PICK j \in DOMAIN groups : \E m \in DOMAIN groups[j] : groups[j][m] = v
    BY <2>2 DEF Holds
  <2>4. j = k
    BY <1>1, <1>3, <2>2, <2>3 DEF OneEach
  <2>5. PICK m \in 1..n : groups[k][m] = v
    BY <1>6, <2>3, <2>4
  <2> QED
    BY <1>3, <1>6, <2>1, <2>5
<1> HIDE DEF k, i, n, s
<1>8. /\ h \in Seq(Window) /\ Len(h) = n - 1 /\ DOMAIN h = 1..n - 1 /\ IsInjective(h)
      /\ \A m \in 1..n - 1 : h[m] = groups[k][IF m < i THEN m ELSE m + 1]
  <2>1. Len(groups[k]) = n
    BY DEF n
  <2>2. /\ h \in Seq(Window) /\ Len(h) = n - 1 /\ IsInjective(h)
        /\ \A m \in 1..n - 1 : h[m] = groups[k][IF m < i THEN m ELSE m + 1]
    BY <1>6, <2>1, RemoveAtItems
  <2> QED
    BY <1>6, <2>2
<1> HIDE DEF h
<1>9. \A m \in 1..n - 1 : h[m] \in Window /\ (IF m < i THEN m ELSE m + 1) \in 1..n
  BY <1>6, <1>8
<1>10. h # <<>> /\ \A m \in DOMAIN h : AppOf[h[m]] = AppOf[groups[k][1]]
  <2>1. h # <<>>
    BY <1>6, <1>7, <1>8
  <2>2. \A m \in 1..n : AppOf[groups[k][m]] = AppOf[groups[k][1]]
    <3>1. 1 \in DOMAIN groups[k]
      BY <1>6, <1>7
    <3>2. OneEach(groups) /\ k \in DOMAIN groups
      BY <1>1, <1>3
    <3>3. \A m \in DOMAIN groups[k] : AppOf[groups[k][m]] = AppOf[groups[k][1]]
      BY <3>1, <3>2 DEF OneEach
    <3> QED
      BY <1>6, <3>3
  <2> QED
    BY <1>8, <1>9, <2>1, <2>2
<1>11. /\ groups' \in Seq(Seq(Window)) /\ DOMAIN groups' = DOMAIN groups /\ OneEach(groups')
       /\ groups'[k] = h /\ \A j \in DOMAIN groups : j # k => groups'[j] = groups[j]
  BY <1>1, <1>3, <1>5, <1>8, <1>10, GroupChanged
<1>12. active' = NoWindow \/ (active' \in Window /\ Holds(groups', active'))
  <2>1. ASSUME active # w, Holds(groups, active) PROVE Holds(groups', active)
    <3>1. PICK j \in DOMAIN groups : \E m \in DOMAIN groups[j] : groups[j][m] = active
      BY <2>1 DEF Holds
    <3>2. CASE j = k
      <4>1. PICK m \in 1..n : groups[k][m] = active
        BY <1>6, <3>1, <3>2
      <4>2. m # i
        BY <1>3, <2>1, <4>1
      <4> DEFINE z == IF m < i THEN m ELSE m - 1
      <4>3. z \in 1..n - 1 /\ (IF z < i THEN z ELSE z + 1) = m
        BY <1>6, <4>2
      <4> HIDE DEF z
      <4>4. z \in DOMAIN h /\ h[z] = active
        BY <1>8, <4>1, <4>3
      <4> QED
        BY <1>3, <1>11, <4>4 DEF Holds
    <3>3. CASE j # k
      BY <1>11, <3>1, <3>3 DEF Holds
    <3> QED
      BY <3>2, <3>3
  <2>2. CASE active = w \/ active = NoWindow
    BY <1>5, <2>2
  <2>3. CASE active # w /\ active # NoWindow
    <3>1. active' = active
      BY <1>5, <2>3
    <3>2. active \in Window /\ Holds(groups', active)
      BY <1>1, <2>1, <2>3
    <3> QED
      BY Zenon, <3>1, <3>2
  <2> QED
    BY <2>2, <2>3
<1>13. GroupTypes'
  <2>1. signals' \in Seq(GroupSignal)
    BY <1>1, <1>4, <1>5
  <2> QED
    BY <1>1, <1>5, <1>11, <1>12, <2>1 DEF GroupTypes
<1>14. ASSUME NEW r \in Places
       PROVE  \E e \in Places :
                /\ Reaches(PlaceIn(current', r), signals', r, e)
                /\ r \in DOMAIN groups' /\ AppOf[groups'[r][1]] \notin astray' =>
                     Ends(e, groups'[r], active')
  <2>1. PICK e \in Places :
          /\ Reaches(PlaceIn(current, r), signals, r, e)
          /\ r \in DOMAIN groups /\ AppOf[groups[r][1]] \notin astray =>
               Ends(e, groups[r], active)
    BY DEF GroupInv, PathInv
  <2>2. /\ Reaches(PlaceIn(current', r), signals', r, Moved(e, s, r))
        /\ Moved(e, s, r) \in Places
    BY <1>1, <1>4, <1>5, <2>1, ReachesOn, MovedType
  <2>3. ASSUME r \in DOMAIN groups', AppOf[groups'[r][1]] \notin astray'
        PROVE  Ends(Moved(e, s, r), groups'[r], active')
    <3>1. CASE r # k
      <4>1. Moved(e, s, r) = e
        BY <1>4, <3>1 DEF Moved
      <4>2. groups'[r] = groups[r] /\ r \in DOMAIN groups
        BY <1>11, <2>3, <3>1
      <4>3. Ends(e, groups[r], active)
        BY <1>5, <2>1, <2>3, <4>2
      <4>4. \A m \in 1..Len(groups[r]) : groups[r][m] # NoWindow
        BY <1>1, <4>2, GroupFacts, GroupsAssumption
      <4> QED
        BY <1>5, <4>1, <4>2, <4>3, <4>4 DEF Ends
    <3>2. CASE r = k
      <4>1. AppOf[groups[k][1]] \notin astray
        <5>1. 1 \in DOMAIN h
          BY <1>6, <1>7, <1>8
        <5> QED
          BY <1>5, <1>10, <1>11, <2>3, <3>2, <5>1
      <4>2. Ends(e, groups[k], active)
        BY <1>3, <2>1, <3>2, <4>1
      <4>3. e \in 1..n /\ \A m \in 1..n : groups[k][m] = active => e = m
        BY <4>2 DEF Ends, n
      <4> DEFINE z == Moved(e, s, r)
      <4>4. z = IF e = i THEN 1 ELSE IF e > i THEN e - 1 ELSE e
        BY <1>4, <3>2 DEF Moved
      <4> HIDE DEF z
      <4>5. z \in 1..n - 1
        BY <1>6, <1>7, <4>3, <4>4
      <4>6. ASSUME NEW m \in 1..n - 1, h[m] = active' PROVE z = m
        <5>1. active' = active
          BY <1>5, <1>9, <4>6, GroupsAssumption
        <5> DEFINE at == IF m < i THEN m ELSE m + 1
        <5>2. at \in 1..n /\ groups[k][at] = active
          BY <1>8, <1>9, <4>6, <5>1
        <5>3. e = at
          BY <4>3, <5>2
        <5> QED
          BY <1>6, <4>4, <5>3
      <4> QED
        BY <1>8, <1>11, <3>2, <4>5, <4>6 DEF Ends, z
    <3> QED
      BY <3>1, <3>2
  <2> QED
    BY <2>2, <2>3
<1>15. PathInv'
  BY <1>14 DEF PathInv
<1> QED
  BY <1>13, <1>15 DEF GroupInv
\* One window loses the focus, and then another gets it.
LEMMA FocusTurns ==
  ASSUME GroupInv, NEW w, w = NoWindow \/ Holds(groups, w), Groups!Focus(w)
  PROVE  GroupInv'
<1>1. /\ groups \in Seq(Seq(Window)) /\ OneEach(groups) /\ signals \in Seq(GroupSignal)
      /\ active = NoWindow \/ (active \in Window /\ Holds(groups, active))
      /\ \A r \in DOMAIN current : current[r] \in Places
  BY DEF GroupInv, GroupTypes
<1>2. "changed" \in {"removed", "changed"}
  OBVIOUS
<1> DEFINE s1 == Groups!Signal("changed", active)
           s2 == Groups!Signal("changed", w)
           p1 == IF active = NoWindow THEN signals ELSE Append(signals, s1)
           p2 == IF w = NoWindow THEN p1 ELSE Append(p1, s2)
           v == active
<1>3. v # NoWindow =>
        /\ s1 \in GroupSignal /\ s1.row = Groups!RowOf(v) /\ s1.place = Groups!PlaceOf(v)
        /\ s1.kind = "changed" /\ s1.row \in DOMAIN groups
        /\ s1.place \in DOMAIN groups[s1.row] /\ groups[s1.row][s1.place] = v
  <2>1. SUFFICES ASSUME v # NoWindow
                 PROVE  /\ s1 \in GroupSignal /\ s1.row = Groups!RowOf(v)
                        /\ s1.place = Groups!PlaceOf(v) /\ s1.kind = "changed"
                        /\ s1.row \in DOMAIN groups /\ s1.place \in DOMAIN groups[s1.row]
                        /\ groups[s1.row][s1.place] = v
    OBVIOUS
  <2>2. Holds(groups, v)
    BY <1>1, <2>1
  <2>3. /\ s1 \in GroupSignal /\ s1.row = Groups!RowOf(v) /\ s1.place = Groups!PlaceOf(v)
        /\ s1.kind = "changed"
    BY Zenon, <1>1, <1>2, <2>2, SignalIs
  <2>4. /\ Groups!RowOf(v) \in DOMAIN groups /\ Groups!PlaceOf(v) \in DOMAIN groups[Groups!RowOf(v)]
        /\ groups[Groups!RowOf(v)][Groups!PlaceOf(v)] = v
    BY Zenon, <1>1, <2>2, WhereIs
  <2> QED
    BY <2>3, <2>4
<1>4. w # NoWindow =>
        /\ s2 \in GroupSignal /\ s2.kind = "changed" /\ s2.row \in DOMAIN groups
        /\ s2.place \in DOMAIN groups[s2.row] /\ groups[s2.row][s2.place] = w
        /\ \A k \in DOMAIN groups : \A i \in DOMAIN groups[k] :
             groups[k][i] = w => k = s2.row /\ i = s2.place
  <2>1. ASSUME w # NoWindow
        PROVE  /\ s2 \in GroupSignal /\ s2.kind = "changed" /\ s2.row \in DOMAIN groups
               /\ s2.place \in DOMAIN groups[s2.row] /\ groups[s2.row][s2.place] = w
               /\ \A k \in DOMAIN groups : \A i \in DOMAIN groups[k] :
                    groups[k][i] = w => k = s2.row /\ i = s2.place
    <3>1. Holds(groups, w)
      BY <2>1
    <3>2. /\ s2 \in GroupSignal /\ s2.row = Groups!RowOf(w) /\ s2.place = Groups!PlaceOf(w)
          /\ s2.kind = "changed"
      BY Zenon, <1>1, <1>2, <3>1, SignalIs
    <3>3. /\ Groups!RowOf(w) \in DOMAIN groups
          /\ Groups!PlaceOf(w) \in DOMAIN groups[Groups!RowOf(w)]
          /\ groups[Groups!RowOf(w)][Groups!PlaceOf(w)] = w
          /\ \A k \in DOMAIN groups : \A i \in DOMAIN groups[k] :
               groups[k][i] = w => k = Groups!RowOf(w) /\ i = Groups!PlaceOf(w)
      BY Zenon, <1>1, <3>1, WhereIs
    <3> QED
      BY <3>2, <3>3
  <2> QED
    BY <2>1
<1> HIDE DEF s1, s2, p1, p2
<1>5. p1 \in Seq(GroupSignal) /\ p2 \in Seq(GroupSignal)
  <2>1. p1 \in Seq(GroupSignal)
    BY <1>1, <1>3 DEF p1
  <2> QED
    BY <1>4, <2>1 DEF p2
<1>6. /\ groups' = groups /\ current' = current /\ active' = w /\ signals' = p2
      /\ astray' = IF w = NoWindow THEN astray ELSE astray \ {AppOf[w]}
  <2>1. /\ groups' = groups /\ current' = current /\ active' = w
        /\ astray' = IF w = NoWindow THEN astray ELSE astray \ {AppOf[w]}
        /\ signals' = signals \o (IF active = NoWindow THEN <<>> ELSE <<s1>>)
                         \o (IF w = NoWindow THEN <<>> ELSE <<s2>>)
    BY Zenon DEF Groups!Focus, s1, s2
  <2>2. signals \o (IF active = NoWindow THEN <<>> ELSE <<s1>>) = p1
    <3>1. CASE active = NoWindow
      BY <1>1, <3>1 DEF p1
    <3>2. CASE active # NoWindow
      <4>1. signals \o <<s1>> = Append(signals, s1)
        BY <1>1, <1>3, <3>2
      <4> QED
        BY <3>2, <4>1 DEF p1
    <3> QED
      BY <3>1, <3>2
  <2>3. p1 \o (IF w = NoWindow THEN <<>> ELSE <<s2>>) = p2
    <3>1. CASE w = NoWindow
      BY <1>5, <3>1 DEF p2
    <3>2. CASE w # NoWindow
      <4>1. p1 \o <<s2>> = Append(p1, s2)
        BY <1>4, <1>5, <3>2
      <4> QED
        BY <3>2, <4>1 DEF p2
    <3> QED
      BY <3>1, <3>2
  <2> QED
    BY <2>1, <2>2, <2>3
<1>7. GroupTypes'
  <2>1. ASSUME NEW k \in DOMAIN groups, NEW i \in DOMAIN groups[k] PROVE groups[k][i] \in Window
    BY <1>1, <2>1, GroupFacts
  <2>2. w = NoWindow \/ (w \in Window /\ Holds(groups, w))
    BY <2>1 DEF Holds
  <2> QED
    BY <1>1, <1>5, <1>6, <2>2 DEF GroupTypes
<1>8. ASSUME NEW r \in Places
      PROVE  \E e \in Places :
               /\ Reaches(PlaceIn(current, r), p1, r, e)
               /\ r \in DOMAIN groups /\ AppOf[groups[r][1]] \notin astray =>
                    e \in 1..Len(groups[r])
  <2>1. PICK e \in Places :
          /\ Reaches(PlaceIn(current, r), signals, r, e)
          /\ r \in DOMAIN groups /\ AppOf[groups[r][1]] \notin astray =>
               Ends(e, groups[r], active)
    BY DEF GroupInv, PathInv
  <2>2. CASE active = NoWindow
    BY <2>1, <2>2 DEF p1, Ends
  <2>3. CASE active # NoWindow
    <3>1. /\ Reaches(PlaceIn(current, r), p1, r, Moved(e, s1, r)) /\ Moved(e, s1, r) \in Places
      BY <1>1, <1>3, <2>1, <2>3, ReachesOn, MovedType DEF p1
    <3>2. ASSUME r \in DOMAIN groups, AppOf[groups[r][1]] \notin astray
          PROVE  Moved(e, s1, r) \in 1..Len(groups[r])
      <4>1. DOMAIN groups[r] = 1..Len(groups[r])
        BY <1>1, <3>2, GroupFacts
      <4>2. CASE s1.row = r
        BY <1>3, <2>3, <4>1, <4>2 DEF Moved
      <4>3. CASE s1.row # r
        BY <2>1, <3>2, <4>3 DEF Moved, Ends
      <4> QED
        BY <4>2, <4>3
    <3> QED
      BY <3>1, <3>2
  <2> QED
    BY <2>2, <2>3
<1>9. ASSUME NEW r \in Places
      PROVE  \E e \in Places :
               /\ Reaches(PlaceIn(current, r), p2, r, e)
               /\ r \in DOMAIN groups /\ AppOf[groups[r][1]] \notin astray' =>
                    Ends(e, groups[r], w)
  <2>1. PICK e \in Places :
          /\ Reaches(PlaceIn(current, r), p1, r, e)
          /\ r \in DOMAIN groups /\ AppOf[groups[r][1]] \notin astray =>
               e \in 1..Len(groups[r])
    BY <1>8
  <2>2. CASE w = NoWindow
    <3>1. p2 = p1 /\ astray' = astray
      BY <1>6, <2>2 DEF p2
    <3>2. r \in DOMAIN groups => \A m \in 1..Len(groups[r]) : groups[r][m] # NoWindow
      BY <1>1, GroupFacts, GroupsAssumption
    <3> QED
      BY <2>1, <2>2, <3>1, <3>2 DEF Ends
  <2>3. CASE w # NoWindow
    <3>1. /\ Reaches(PlaceIn(current, r), p2, r, Moved(e, s2, r)) /\ Moved(e, s2, r) \in Places
      BY <1>4, <1>5, <2>1, <2>3, ReachesOn, MovedType DEF p2
    <3>2. ASSUME r \in DOMAIN groups, AppOf[groups[r][1]] \notin astray'
          PROVE  Ends(Moved(e, s2, r), groups[r], w)
      <4>1. /\ DOMAIN groups[r] = 1..Len(groups[r])
            /\ \A i \in 1..Len(groups[r]) : groups[r][i] = w => r = s2.row /\ i = s2.place
        <5>1. DOMAIN groups[r] = 1..Len(groups[r])
          BY <1>1, <3>2, GroupFacts
        <5> QED
          BY <1>4, <2>3, <3>2, <5>1
      <4>2. CASE s2.row = r
        <5>1. Moved(e, s2, r) = s2.place /\ s2.place \in 1..Len(groups[r])
          BY <1>4, <2>3, <4>1, <4>2 DEF Moved
        <5> QED
          BY <4>1, <5>1 DEF Ends
      <4>3. CASE s2.row # r
        <5>1. Moved(e, s2, r) = e
          BY <4>3 DEF Moved
        <5>2. AppOf[groups[r][1]] # AppOf[w]
          <6>1. 1 \in DOMAIN groups[r]
            BY <1>1, <3>2, GroupFacts DEF OneEach
          <6>2. r = s2.row <=> AppOf[groups[r][1]] = AppOf[groups[s2.row][s2.place]]
            BY <1>1, <1>4, <2>3, <3>2, <6>1 DEF OneEach
          <6> QED
            BY <1>4, <2>3, <4>3, <6>2
        <5>3. e \in 1..Len(groups[r])
          BY <1>6, <2>1, <2>3, <3>2, <5>2
        <5> QED
          BY <4>1, <4>3, <5>1, <5>3 DEF Ends
      <4> QED
        BY <4>2, <4>3
    <3> QED
      BY <3>1, <3>2
  <2> QED
    BY <2>2, <2>3
<1>10. PathInv'
  BY <1>6, <1>9 DEF PathInv
<1> QED
  BY <1>7, <1>10 DEF GroupInv

\* A window wants attention, which its app's place then is about.
LEMMA AttendsKeeps ==
  ASSUME GroupInv, NEW w \in Window, Groups!Attends(w)
  PROVE  GroupInv'
<1> DEFINE s == Groups!Signal("changed", w)
<1>1. /\ groups \in Seq(Seq(Window)) /\ OneEach(groups) /\ signals \in Seq(GroupSignal)
      /\ active = NoWindow \/ (active \in Window /\ Holds(groups, active))
      /\ \A r \in DOMAIN current : current[r] \in Places
  BY DEF GroupInv, GroupTypes
<1>2. Holds(groups, w)
  BY <1>1, OpenIs DEF Groups!Attends
<1>3. /\ s \in GroupSignal /\ s.row \in DOMAIN groups /\ s.place \in DOMAIN groups[s.row]
      /\ groups[s.row][s.place] = w
  <2>1. "changed" \in {"removed", "changed"}
    OBVIOUS
  <2>2. s \in GroupSignal /\ s.row = Groups!RowOf(w) /\ s.place = Groups!PlaceOf(w)
    BY Zenon, <1>1, <1>2, <2>1, SignalIs
  <2>3. /\ Groups!RowOf(w) \in DOMAIN groups
        /\ Groups!PlaceOf(w) \in DOMAIN groups[Groups!RowOf(w)]
        /\ groups[Groups!RowOf(w)][Groups!PlaceOf(w)] = w
    BY Zenon, <1>1, <1>2, WhereIs
  <2> QED
    BY <2>2, <2>3
<1>4. /\ groups' = groups /\ current' = current /\ active' = active
      /\ signals' = Append(signals, s) /\ astray' = astray \cup {AppOf[w]}
  BY DEF Groups!Attends
<1> HIDE DEF s
<1>5. GroupTypes'
  <2>1. signals' \in Seq(GroupSignal)
    BY <1>1, <1>3, <1>4
  <2> QED
    BY <1>1, <1>4, <2>1 DEF GroupTypes
<1>6. ASSUME NEW r \in Places
      PROVE  \E e \in Places :
               /\ Reaches(PlaceIn(current, r), signals', r, e)
               /\ r \in DOMAIN groups /\ AppOf[groups[r][1]] \notin astray' =>
                    Ends(e, groups[r], active)
  <2>1. PICK e \in Places :
          /\ Reaches(PlaceIn(current, r), signals, r, e)
          /\ r \in DOMAIN groups /\ AppOf[groups[r][1]] \notin astray =>
               Ends(e, groups[r], active)
    BY DEF GroupInv, PathInv
  <2>2. /\ Reaches(PlaceIn(current, r), signals', r, Moved(e, s, r)) /\ Moved(e, s, r) \in Places
    BY <1>1, <1>3, <1>4, <2>1, ReachesOn, MovedType
  <2>3. CASE s.row = r
    <3>1. AppOf[groups[r][1]] = AppOf[w]
      <4>1. 1 \in DOMAIN groups[r]
        BY <1>1, <1>3, <2>3, GroupFacts DEF OneEach
      <4> QED
        BY <1>1, <1>3, <2>3, <4>1 DEF OneEach
    <3> QED
      BY <1>4, <2>2, <3>1
  <2>4. CASE s.row # r
    <3>1. Moved(e, s, r) = e
      BY <2>4 DEF Moved
    <3> QED
      BY <1>4, <2>1, <2>2, <3>1
  <2> QED
    BY <2>3, <2>4
<1>7. PathInv'
  BY <1>4, <1>6 DEF PathInv
<1> QED
  BY <1>5, <1>7 DEF GroupInv
LEMMA DeliverKeeps ==
  ASSUME GroupInv, Groups!Deliver
  PROVE  GroupInv'
<1> DEFINE s == Head(signals)
<1>1. /\ signals \in Seq(GroupSignal) /\ \A r \in DOMAIN current : current[r] \in Places
  BY DEF GroupInv, GroupTypes
<1>2. /\ groups' = groups /\ active' = active /\ astray' = astray /\ signals # <<>>
      /\ signals' = Tail(signals) /\ s \in GroupSignal /\ signals' \in Seq(GroupSignal)
      /\ current' = IF s.kind = "removed" THEN Groups!Removed(s.row, s.place)
                    ELSE Groups!Changed(s.row, s.place)
  BY <1>1 DEF Groups!Deliver
<1>3. s.kind \in {"removed", "changed"} /\ s.row \in Places /\ s.place \in Places
  BY <1>2 DEF GroupSignal
<1> HIDE DEF s
<1>4. 1 \in Places
  BY DEF Places
<1>5. \A r : PlaceIn(current, r) \in Places
  BY <1>1, <1>4 DEF PlaceIn
<1>6. /\ \A r \in DOMAIN current' : current'[r] \in Places
      /\ \A r : \/ PlaceIn(current', r) = Moved(PlaceIn(current, r), s, r)
               \/ r \notin DOMAIN groups
  <2>4. CASE s.kind = "changed" /\ s.row \notin DOMAIN groups
    <3>1. current' = current
      BY <1>2, <2>4 DEF Groups!Changed
    <3>2. \A r : r \notin DOMAIN groups \/ Moved(PlaceIn(current, r), s, r) = PlaceIn(current, r)
      BY <2>4 DEF Moved
    <3> QED
      BY <1>1, <3>1, <3>2
  <2>1. CASE s.kind = "changed" /\ s.row \in DOMAIN groups
    <3>1. current' = [r \in DOMAIN current \cup {s.row} |-> IF r = s.row THEN s.place ELSE current[r]]
      BY <1>2, <2>1 DEF Groups!Changed
    <3> QED
      BY <1>1, <1>3, <2>1, <3>1 DEF PlaceIn, Moved
  <2>2. CASE s.kind = "removed" /\ s.row \notin DOMAIN current
    <3>1. current' = current
      BY <1>2, <2>2 DEF Groups!Removed
    <3>2. \A r : Moved(PlaceIn(current, r), s, r) = PlaceIn(current, r)
      BY <1>3, <2>2 DEF PlaceIn, Moved, Places
    <3> QED
      BY <1>1, <3>1, <3>2
  <2>3. CASE s.kind = "removed" /\ s.row \in DOMAIN current
    <3>1. current' = IF current[s.row] = s.place THEN Groups!ResetActiveWindow(s.row)
                     ELSE IF current[s.row] > s.place THEN [current EXCEPT ![s.row] = @ - 1]
                     ELSE current
      BY <1>2, <2>3 DEF Groups!Removed
    <3>2. CASE current[s.row] = s.place
      <4>1. \/ current' = [current EXCEPT ![s.row] = 1]
            \/ current' = [r \in DOMAIN current \ {s.row} |-> current[r]]
        BY <3>1, <3>2 DEF Groups!ResetActiveWindow
      <4>2. CASE current' = [current EXCEPT ![s.row] = 1]
        BY <1>1, <1>4, <2>3, <3>2, <4>2 DEF PlaceIn, Moved
      <4>3. CASE current' = [r \in DOMAIN current \ {s.row} |-> current[r]]
        BY <1>1, <2>3, <3>2, <4>3 DEF PlaceIn, Moved
      <4> QED
        BY <4>1, <4>2, <4>3
    <3>3. CASE current[s.row] # s.place /\ current[s.row] > s.place
      <4>1. current' = [current EXCEPT ![s.row] = current[s.row] - 1]
        BY <3>1, <3>3
      <4>2. current[s.row] - 1 \in Places
        BY <1>1, <1>3, <2>3, <3>3 DEF Places
      <4> QED
        BY <1>1, <2>3, <3>3, <4>1, <4>2 DEF PlaceIn, Moved
    <3>4. CASE current[s.row] # s.place /\ ~(current[s.row] > s.place)
      BY <1>1, <2>3, <3>1, <3>4 DEF PlaceIn, Moved
    <3> QED
      BY <3>2, <3>3, <3>4
  <2> QED
    BY <1>3, <2>1, <2>2, <2>3, <2>4
<1>7. GroupTypes'
  BY <1>2, <1>6 DEF GroupInv, GroupTypes
<1>8. ASSUME NEW r \in Places
      PROVE  \E e \in Places :
               /\ Reaches(PlaceIn(current', r), signals', r, e)
               /\ r \in DOMAIN groups /\ AppOf[groups[r][1]] \notin astray =>
                    Ends(e, groups[r], active)
  <2>1. PICK e \in Places :
          /\ Reaches(PlaceIn(current, r), signals, r, e)
          /\ r \in DOMAIN groups /\ AppOf[groups[r][1]] \notin astray =>
               Ends(e, groups[r], active)
    BY DEF GroupInv, PathInv
  <2>2. CASE PlaceIn(current', r) = Moved(PlaceIn(current, r), s, r)
    <3>1. Reaches(Moved(PlaceIn(current, r), s, r), Tail(signals), r, e)
      BY <1>1, <1>2, <2>1, ReachesTail DEF s
    <3>2. Reaches(PlaceIn(current', r), signals', r, e)
      BY <1>2, <2>2, <3>1
    <3> QED
      BY <2>1, <3>2
  <2>3. CASE r \notin DOMAIN groups
    <3>1. PlaceIn(current', r) \in Places
      BY <1>4, <1>6 DEF PlaceIn
    <3> QED
      BY <1>2, <2>3, <3>1, ReachesSome
  <2> QED
    BY <1>6, <2>2, <2>3
<1>9. PathInv'
  BY <1>2, <1>8 DEF PathInv
<1> QED
  BY <1>7, <1>9 DEF GroupInv

LEMMA OneAfter ==
  ASSUME NEW x \in Nat, NEW n \in Nat, n > 0
  PROVE  (x % n) + 1 \in 1..n
OBVIOUS

LEMMA RequestKeeps ==
  ASSUME GroupInv, NEW k \in DOMAIN groups, Groups!RequestActivate(k)
  PROVE  GroupInv'
<1> DEFINE t == Groups!Target(k)
           w == groups[k][t]
           n == Len(groups[k])
<1>1. /\ groups \in Seq(Seq(Window)) /\ OneEach(groups)
      /\ \A r \in DOMAIN current : current[r] \in Places
  BY DEF GroupInv, GroupTypes
<1>2. t <= n /\ Groups!Focus(IF w = active THEN NoWindow ELSE w)
  BY DEF Groups!RequestActivate
<1>3. DOMAIN groups[k] = 1..n /\ n \in Nat /\ n > 0
  BY <1>1, GroupFacts DEF OneEach
<1>4. Groups!Current(k) \in Nat \ {0}
  BY <1>1 DEF Groups!Current, Places
<1>5. t \in 1..n
  <2> DEFINE x == Groups!Current(k)
  <2>1. t = IF Groups!IsActive(k) THEN (x % n) + 1 ELSE x
    BY Zenon DEF Groups!Target
  <2> HIDE DEF t, x, n
  <2>2. (x % n) + 1 \in 1..n
    BY <1>3, <1>4, OneAfter DEF x
  <2> QED
    BY <1>2, <1>3, <1>4, <2>1, <2>2 DEF x
<1> HIDE DEF t
<1>6. Holds(groups, w)
  BY <1>3, <1>5 DEF Holds
<1> DEFINE z == IF w = active THEN NoWindow ELSE w
<1>7. z = NoWindow \/ Holds(groups, z)
  BY <1>6
<1> HIDE DEF z, w
<1>8. Groups!Focus(z)
  BY <1>2 DEF z
<1> QED
  BY <1>7, <1>8, FocusTurns

LEMMA GroupsInit == Groups!Init => GroupInv
<1> SUFFICES ASSUME Groups!Init PROVE GroupInv
  OBVIOUS
<1>1. groups = <<>> /\ active = NoWindow /\ current = <<>> /\ signals = <<>>
  BY DEF Groups!Init
<1>2. DOMAIN groups = {} /\ DOMAIN current = {} /\ DOMAIN signals = {}
  BY <1>1
<1>3. GroupTypes
  BY <1>1, <1>2 DEF GroupTypes, OneEach
<1>4. PathInv
  <2>1. 1 \in Places
    BY DEF Places
  <2>2. ASSUME NEW r \in Places PROVE Reaches(PlaceIn(current, r), signals, r, 1)
    <3>1. PlaceIn(current, r) = 1
      BY <1>2 DEF PlaceIn
    <3>2. signals \in Seq(GroupSignal)
      BY <1>3 DEF GroupTypes
    <3> QED
      BY <1>2, <2>1, <3>1, <3>2, ReachesIdle
  <2> QED
    BY <1>2, <2>1, <2>2 DEF PathInv
<1> QED
  BY <1>3, <1>4 DEF GroupInv

LEMMA GroupsStep == GroupInv /\ [Groups!Next]_(Groups!vars) => GroupInv'
<1> SUFFICES ASSUME GroupInv, [Groups!Next]_(Groups!vars) PROVE GroupInv'
  OBVIOUS
<1>1. groups \in Seq(Seq(Window))
  BY DEF GroupInv, GroupTypes
<1>2. ASSUME NEW w \in Window, Groups!Opens(w) PROVE GroupInv'
  BY <1>2, OpensAlone, OpensBeside
<1>3. ASSUME NEW w \in Window, Groups!Closes(w) PROVE GroupInv'
  BY <1>3, ClosesAlone, ClosesBeside
<1>4. ASSUME NEW w \in Window, Groups!Attends(w) PROVE GroupInv'
  BY <1>4, AttendsKeeps
<1>5. ASSUME NEW w \in Window \cup {NoWindow}, Groups!Turns(w) PROVE GroupInv'
  <2>1. Groups!Focus(w) /\ (w = NoWindow \/ Holds(groups, w))
    BY <1>1, <1>5, OpenIs DEF Groups!Turns
  <2> QED
    BY <2>1, FocusTurns
<1>6. ASSUME NEW k \in DOMAIN groups, Groups!RequestActivate(k) PROVE GroupInv'
  BY <1>6, RequestKeeps
<1>7. CASE Groups!Deliver
  BY <1>7, DeliverKeeps
<1>8. CASE UNCHANGED Groups!vars
  <2>1. /\ groups' = groups /\ active' = active /\ current' = current /\ signals' = signals
        /\ astray' = astray
    BY <1>8 DEF Groups!vars
  <2>2. GroupTypes'
    BY <2>1 DEF GroupInv, GroupTypes
  <2>3. PathInv'
    BY <2>1 DEF GroupInv, PathInv
  <2> QED
    BY <2>2, <2>3 DEF GroupInv
<1> QED
  BY <1>2, <1>3, <1>4, <1>5, <1>6, <1>7, <1>8 DEF Groups!Next

LEMMA GroupsAreSound == GroupInv => Groups!GroupsSound
<1> SUFFICES ASSUME GroupInv PROVE Groups!GroupsSound
  OBVIOUS
<1>1. /\ groups \in Seq(Seq(Window)) /\ OneEach(groups) /\ signals \in Seq(GroupSignal)
      /\ active = NoWindow \/ (active \in Window /\ Holds(groups, active))
      /\ \A r \in DOMAIN current : current[r] \in Places
  BY DEF GroupInv, GroupTypes
<1>2. Groups!TypeOK
  <2>1. groups \in Seq(Seq(Window) \ {<<>>})
    <3> DEFINE A == Seq(Window) \ {<<>>}
    <3>1. \A k \in 1..Len(groups) : groups[k] \in A
      BY <1>1, GroupFacts DEF OneEach
    <3> HIDE DEF A
    <3>2. groups \in Seq(Seq(Window))
      BY <1>1
    <3>3. groups \in [1..Len(groups) -> A] /\ Len(groups) \in Nat
      BY <3>1, <3>2
    <3>4. groups \in Seq(A)
      BY <3>3
    <3> QED
      BY <3>4 DEF A
  <2>2. active \in Groups!Open \cup {NoWindow}
    BY <1>1, OpenIs
  <2>3. \A k, j \in DOMAIN groups :
          \A v \in Groups!ToSet(groups[k]), w \in Groups!ToSet(groups[j]) :
            k = j <=> AppOf[v] = AppOf[w]
    BY <1>1 DEF OneEach, Groups!ToSet
  <2> QED
    BY <1>1, <2>1, <2>2, <2>3 DEF Groups!TypeOK, Places
<1>3. ASSUME signals = <<>>, NEW k \in DOMAIN groups, AppOf[groups[k][1]] \notin astray
      PROVE  /\ Groups!Target(k) <= Len(groups[k])
             /\ Groups!IsActive(k) => Groups!Current(k) = Groups!PlaceOf(active)
  <2> DEFINE x == Groups!Current(k)
             n == Len(groups[k])
  <2>1. /\ k \in Places /\ DOMAIN groups[k] = 1..n /\ n \in Nat
    BY <1>1, GroupFacts
  <2>2. PICK e \in Places : /\ Reaches(PlaceIn(current, k), signals, k, e)
                            /\ Ends(e, groups[k], active)
    BY <1>3, <2>1 DEF GroupInv, PathInv
  <2>3. x = e
    <3>1. x = PlaceIn(current, k)
      BY DEF Groups!Current, PlaceIn
    <3>2. e = PlaceIn(current, k)
      BY <1>3, <2>2, ReachesNow
    <3> QED
      BY <3>1, <3>2
  <2> HIDE DEF x
  <2>4. x \in 1..n /\ \A i \in 1..n : groups[k][i] = active => x = i
    BY <2>2, <2>3 DEF Ends
  <2>5. Groups!Target(k) <= n
    <3>1. Groups!Target(k) = IF Groups!IsActive(k) THEN (x % n) + 1 ELSE x
      BY Zenon DEF Groups!Target, x
    <3> HIDE DEF n
    <3>2. (x % n) + 1 \in 1..n
      BY <2>1, <2>4, OneAfter
    <3> QED
      BY <2>1, <2>4, <3>1, <3>2
  <2>6. ASSUME Groups!IsActive(k) PROVE x = Groups!PlaceOf(active)
    <3>1. PICK i \in 1..n : groups[k][i] = active
      BY <2>1, <2>6 DEF Groups!IsActive, Groups!Contains
    <3>2. Holds(groups, active)
      BY <2>1, <3>1 DEF Holds
    <3>3. i = Groups!PlaceOf(active)
      BY Zenon, <1>1, <2>1, <3>1, <3>2, WhereIs
    <3> QED
      BY <2>4, <3>1, <3>3
  <2> QED
    BY <2>5, <2>6 DEF x
<1>4. Groups!TakesTurns
  BY <1>3 DEF Groups!TakesTurns
<1> QED
  BY <1>2, <1>4 DEF Groups!GroupsSound

\* Once all that is queued has been delivered, a click on a group goes to the window behind
\* the active one, and otherwise to a window the group has; but for the groups whose place
\* may be another's, since a group before them closed or their row had signals of another
\* under way, or one that a window's call for attention moved, until one of their windows gets
\* the focus.
THEOREM GroupsKeepTurns == Groups!Spec => []Groups!GroupsSound
<1>1. Groups!Spec => []GroupInv
  BY GroupsInit, GroupsStep, PTL DEF Groups!Spec
<1> QED
  BY <1>1, GroupsAreSound, PTL

-----------------------------------------------------------------------------
(* Sums.                                                                     *)

\* One step of a sum's recursion; the recursion has a solution, and any is of whole numbers.
Adds(g, f, n) == IF n = 0 THEN 0 ELSE f[n - 1] + g[n]

LEMMA SumExists ==
  ASSUME NEW k \in Nat, NEW g \in [1..k -> Int]
  PROVE  \E f : f = [n \in 0..k |-> Adds(g, f, n)]
<1> DEFINE Good == {m \in Nat : m <= k => \E f : f = [n \in 0..m |-> Adds(g, f, n)]}
<1>1. 0 \in Good
  <2> DEFINE f == [n \in 0..0 |-> 0]
  <2>1. f = [n \in 0..0 |-> Adds(g, f, n)]
    <3> HIDE DEF f
    <3>1. \A n \in 0..0 : Adds(g, f, n) = 0
      BY DEF Adds
    <3> QED
      BY <3>1 DEF f
  <2> QED
    BY <2>1
<1>2. ASSUME NEW m \in Nat, m \in Good PROVE m + 1 \in Good
  <2> SUFFICES ASSUME m + 1 <= k PROVE \E f : f = [n \in 0..m + 1 |-> Adds(g, f, n)]
    OBVIOUS
  <2>1. PICK f : f = [n \in 0..m |-> Adds(g, f, n)]
    BY <1>2
  <2> DEFINE h == [n \in 0..m + 1 |-> IF n = m + 1 THEN f[m] + g[m + 1] ELSE f[n]]
  <2>2. \A n \in 0..m : h[n] = f[n] /\ f[n] = Adds(g, f, n)
    <3>1. \A n \in 0..m : n \in 0..m + 1 /\ n # m + 1
      OBVIOUS
    <3>2. \A n \in 0..m : f[n] = Adds(g, f, n)
      BY <2>1
    <3> QED
      BY <3>1, <3>2
  <2>3. ASSUME NEW n \in 0..m + 1 PROVE h[n] = Adds(g, h, n)
    <3>1. CASE n = m + 1
      <4>1. h[n] = f[m] + g[m + 1] /\ m \in 0..m /\ n # 0 /\ n - 1 = m
        BY <3>1
      <4> HIDE DEF h
      <4> QED
        BY <2>2, <3>1, <4>1 DEF Adds
    <3>2. CASE n = 0
      <4>1. 0 \in 0..m
        OBVIOUS
      <4> HIDE DEF h
      <4> QED
        BY <2>2, <3>2, <4>1 DEF Adds
    <3>3. CASE n # 0 /\ n # m + 1
      <4>1. n \in 0..m /\ n - 1 \in 0..m
        BY <3>3
      <4> HIDE DEF h
      <4> QED
        BY <2>2, <3>3, <4>1 DEF Adds
    <3> QED
      BY <3>1, <3>2, <3>3
  <2>4. h = [n \in 0..m + 1 |-> h[n]]
    OBVIOUS
  <2> HIDE DEF h
  <2>5. h = [n \in 0..m + 1 |-> Adds(g, h, n)]
    BY <2>3, <2>4
  <2> QED
    BY <2>5
<1>3. Nat \subseteq Good
  <2> HIDE DEF Good
  <2> QED
    BY <1>1, <1>2, NumberInduction
<1> QED
  BY <1>3

LEMMA SumIsWhole ==
  ASSUME NEW k \in Nat, NEW g \in [1..k -> Int], NEW f, f = [n \in 0..k |-> Adds(g, f, n)]
  PROVE  f[k] \in Int
<1> DEFINE Good == {m \in Nat : m <= k => f[m] \in Int}
<1>1. \A n \in 0..k : f[n] = Adds(g, f, n)
  OBVIOUS
<1>2. 0 \in Good
  BY <1>1 DEF Adds
<1>3. ASSUME NEW m \in Nat, m \in Good PROVE m + 1 \in Good
  <2> SUFFICES ASSUME m + 1 <= k PROVE f[m + 1] \in Int
    OBVIOUS
  <2>1. m + 1 \in 0..k /\ m + 1 \in 1..k /\ m + 1 # 0 /\ (m + 1) - 1 = m /\ m <= k
    OBVIOUS
  <2>2. f[m] \in Int /\ g[m + 1] \in Int
    BY <1>3, <2>1
  <2>3. f[m + 1] = f[m] + g[m + 1]
    BY <1>1, <2>1 DEF Adds
  <2> QED
    BY <2>2, <2>3
<1>4. Nat \subseteq Good
  <2> HIDE DEF Good
  <2> QED
    BY <1>2, <1>3, NumberInduction
<1> QED
  BY <1>4

-----------------------------------------------------------------------------
(* The widths of titles.                                                     *)

LEMMA TitlesExtremes ==
  /\ \A S : Titles!Min(S) = CHOOSE x \in S : \A y \in S : x <= y
  /\ \A S : Titles!Max(S) = CHOOSE x \in S : \A y \in S : x >= y
BY Zenon DEF Titles!Min, Titles!Max

\* A title is shortened, never made longer.
LEMMA FittingType ==
  ASSUME NEW length \in Nat, NEW width \in Nat, NEW f \in Fonts
  PROVE  Titles!Fitting(length, width, f) \in 0..length
<1> DEFINE d == width \div f.narrow
<1>1. d \in Nat
  BY TitlesAssumption
<1> HIDE DEF d
<1>2. \E x \in {length, d} : \A y \in {length, d} : x <= y
  BY <1>1
<1>3. PICK x : /\ x = CHOOSE m \in {length, d} : \A y \in {length, d} : m <= y
               /\ x = Titles!Fitting(length, width, f)
  BY TitlesExtremes DEF Titles!Fitting, d
<1>4. x \in {length, d} /\ x <= length
  BY <1>2, <1>3
<1> QED
  BY <1>1, <1>3, <1>4

LEMMA RequiredType ==
  ASSUME NEW ts \in Seq(Title), NEW width \in Nat, NEW f \in Fonts, NEW s \in ItemSizes
  PROVE  Titles!Required(ts, width, f, s) \in Int
<1> DEFINE wide(length) == Titles!Fitting(length, width, f) * f.narrow
           item(length) == IF wide(length) > 0 THEN s.icon + s.padding + wide(length) ELSE s.cell
           k == Len(ts)
           g == [n \in 1..k |-> item(ts[n])]
           Sum == CHOOSE t : t = [n \in 0..k |-> IF n = 0 THEN 0 ELSE t[n - 1] + item(ts[n])]
<1>1. k \in Nat /\ \A n \in 1..k : ts[n] \in Title
  OBVIOUS
<1>2. ASSUME NEW length \in Title PROVE item(length) \in Int
  <2>1. length \in Nat /\ f.narrow \in Nat
    BY TitlesAssumption
  <2>4. Titles!Fitting(length, width, f) \in 0..length
    BY <2>1, FittingType
  <2>2. Titles!Fitting(length, width, f) \in Nat
    BY <2>1, <2>4
  <2>3. wide(length) \in Nat
    BY <2>1, <2>2
  <2> HIDE DEF wide
  <2>5. s.icon \in Nat /\ s.padding \in Nat /\ s.cell \in Nat
    BY TitlesAssumption
  <2> QED
    BY <2>3, <2>5
<1>3. s.spacing * (k - 1) \in Int
  BY <1>1, TitlesAssumption
<1>4. Titles!Required(ts, width, f, s) = Sum[k] + s.spacing * (k - 1)
  BY Zenon DEF Titles!Required
<1> HIDE DEF item, k
<1>5. g \in [1..k -> Int]
  BY <1>1, <1>2
<1>6. ASSUME NEW t
      PROVE  [n \in 0..k |-> IF n = 0 THEN 0 ELSE t[n - 1] + item(ts[n])]
               = [n \in 0..k |-> Adds(g, t, n)]
  <2>1. ASSUME NEW n \in 0..k
        PROVE  (IF n = 0 THEN 0 ELSE t[n - 1] + item(ts[n])) = Adds(g, t, n)
    <3>1. n # 0 => g[n] = item(ts[n])
      BY <1>1
    <3> HIDE DEF g
    <3> QED
      BY <3>1 DEF Adds
  <2> HIDE DEF g
  <2> QED
    BY <2>1
<1> HIDE DEF g
<1>7. PICK t : t = [n \in 0..k |-> Adds(g, t, n)]
  BY <1>1, <1>5, SumExists
<1>8. t = [n \in 0..k |-> IF n = 0 THEN 0 ELSE t[n - 1] + item(ts[n])]
  BY <1>6, <1>7, Zenon
<1>9. Sum = [n \in 0..k |-> IF n = 0 THEN 0 ELSE Sum[n - 1] + item(ts[n])]
  BY <1>8, Zenon
<1> HIDE DEF Sum
<1>10. Sum = [n \in 0..k |-> Adds(g, Sum, n)]
  BY <1>6, <1>9, Zenon
<1>11. Sum[k] \in Int
  BY <1>1, <1>5, <1>10, SumIsWhole
<1> QED
  BY <1>3, <1>4, <1>11

\* The width with which all fits, if there is one: the widest.
LEMMA BestIs ==
  ASSUME NEW ts, NEW f, NEW s, NEW room, NEW kept,
         NEW best, best = Titles!BestCount(ts, f, s, room, kept)
  PROVE  /\ best \in {0} \cup Titles!Counts
         /\ best # 0 => Titles!Required(ts, Titles!Baseline(best, f, kept), f, s) <= room
         /\ \A c \in Titles!Counts :
              c > best => ~(Titles!Required(ts, Titles!Baseline(c, f, kept), f, s) <= room)
<1> DEFINE Good(c) == Titles!Required(ts, Titles!Baseline(c, f, kept), f, s) <= room
           S == {0} \cup {c \in Titles!Counts : Good(c)}
<1>1. best = CHOOSE x \in S : \A y \in S : x >= y
  BY TitlesExtremes, Zenon DEF Titles!BestCount
<1> HIDE DEF Good
<1>2. S \subseteq 0..7 /\ 0 \in S
  BY DEF Titles!Counts
<1>3. \E x \in S : \A y \in S : x >= y
  <2> HIDE DEF S
  <2> DEFINE T == {7 - x : x \in S}
  <2>1. T \subseteq Nat /\ T # {}
    BY <1>2
  <2> HIDE DEF T
  <2>2. PICK t \in T : \A y \in T : t <= y
    BY <2>1, LeastNumber
  <2>3. PICK x \in S : t = 7 - x
    BY <2>2 DEF T
  <2>4. \A y \in S : t <= 7 - y
    BY <2>2 DEF T
  <2> QED
    BY <1>2, <2>3, <2>4
<1>4. best \in S /\ \A y \in S : best >= y
  <2> HIDE DEF S
  <2> QED
    BY <1>1, <1>3
<1>5. best \in {0} \cup Titles!Counts /\ (best # 0 => Good(best))
  BY <1>4
<1>6. ASSUME NEW c \in Titles!Counts, c > best PROVE ~Good(c)
  <2>1. c \notin S
    <3> HIDE DEF S
    <3> SUFFICES ASSUME c \in S PROVE FALSE
      OBVIOUS
    <3>1. best >= c /\ c \in 0..7 /\ best \in 0..7
      BY <1>2, <1>4
    <3>2. ~(c > best)
      BY <3>1
    <3> QED
      BY <1>6, <3>2
  <2> QED
    BY <2>1
<1> QED
  BY <1>5, <1>6 DEF Good

-----------------------------------------------------------------------------
(* The calculation.                                                          *)

TitleTypes ==
  /\ font \in Fonts /\ sizes \in ItemSizes /\ space \in Nat
  /\ {fits, complete, hasModel, misfit} \subseteq BOOLEAN
  /\ titles \in Seq(Title) /\ text \in Title /\ optimal \in Nat
  /\ elided \in 0..text

\* What the cache has is of the font.
Cached(kept, f) == /\ DOMAIN kept \subseteq Titles!Counts
                   /\ \A c \in DOMAIN kept : kept[c] = c * f.wide

TitlesInv == TitleTypes /\ Cached(widths, font) /\ Titles!WidthRight /\ Titles!TitleFits

LEMMA BaselineIs ==
  ASSUME NEW f \in Fonts, NEW kept, Cached(kept, f), NEW c \in Titles!Counts
  PROVE  Titles!Baseline(c, f, kept) = c * f.wide /\ c * f.wide \in Nat
<1>1. c \in Nat /\ f.wide \in Nat
  BY TitlesAssumption DEF Titles!Counts
<1> QED
  BY <1>1 DEF Titles!Baseline, Cached

LEMMA AskedIs ==
  ASSUME NEW f \in Fonts, NEW kept, Cached(kept, f), NEW n \in {0} \cup Titles!Counts
  PROVE  Cached(Titles!Asked(n, f, kept), f)
<1> DEFINE from == IF n = 0 THEN 2 ELSE n
           D == DOMAIN kept \cup (from..7)
<1>1. D \subseteq Titles!Counts
  BY DEF Cached, Titles!Counts
<1>2. Titles!Asked(n, f, kept) = [c \in D |-> Titles!Baseline(c, f, kept)]
  BY Zenon DEF Titles!Asked
<1>3. \A c \in D : Titles!Baseline(c, f, kept) = c * f.wide
  BY <1>1, BaselineIs
<1> HIDE DEF D
<1> QED
  BY <1>1, <1>2, <1>3 DEF Cached

\* What WidthRight asks where there is a width to be found.
Widest(ts, f, s, room, width) ==
  \/ \E c \in Titles!Counts :
       /\ width = c * f.wide /\ Titles!Required(ts, width, f, s) <= room
       /\ \A d \in Titles!Counts : d > c => Titles!Required(ts, d * f.wide, f, s) > room
  \/ /\ width = 0
     /\ \A c \in Titles!Counts : Titles!Required(ts, c * f.wide, f, s) > room

LEMMA WidestFound ==
  ASSUME NEW ts \in Seq(Title), NEW f \in Fonts, NEW s \in ItemSizes, NEW room \in Nat,
         NEW kept, Cached(kept, f),
         NEW best, best = Titles!BestCount(ts, f, s, room, kept),
         NEW width, width = IF best = 0 THEN 0 ELSE Titles!Baseline(best, f, kept)
  PROVE  /\ best \in {0} \cup Titles!Counts /\ width \in Nat
         /\ Widest(ts, f, s, room, width)
<1>1. /\ best \in {0} \cup Titles!Counts
      /\ best # 0 => Titles!Required(ts, Titles!Baseline(best, f, kept), f, s) <= room
      /\ \A c \in Titles!Counts :
           c > best => ~(Titles!Required(ts, Titles!Baseline(c, f, kept), f, s) <= room)
  BY BestIs, Zenon
<1>2. \A c \in Titles!Counts : Titles!Baseline(c, f, kept) = c * f.wide /\ c * f.wide \in Nat
  BY BaselineIs
<1>3. \A c \in Titles!Counts : Titles!Required(ts, c * f.wide, f, s) \in Int
  BY <1>2, RequiredType
<1>4. \A c \in Titles!Counts : c > best => Titles!Required(ts, c * f.wide, f, s) > room
  BY <1>1, <1>2, <1>3
<1>5. CASE best = 0
  <2>1. \A c \in Titles!Counts : c > 0
    BY DEF Titles!Counts
  <2> QED
    BY <1>1, <1>4, <1>5, <2>1 DEF Widest
<1>6. CASE best # 0
  BY <1>1, <1>2, <1>4, <1>6 DEF Widest
<1> QED
  BY <1>5, <1>6

\* scheduleCalculation, from a cache of the font.
LEMMA ScheduleStep ==
  ASSUME TitleTypes, Titles!TitleFits, NEW kept, Cached(kept, font'),
         font' \in Fonts, sizes' \in ItemSizes, space' \in Nat,
         {fits', complete', hasModel'} \subseteq BOOLEAN, titles' \in Seq(Title),
         Titles!ScheduleCalculation(kept)
  PROVE  TitlesInv'
<1>1. /\ IF ~complete' THEN optimal' = optimal /\ widths' = kept
         ELSE IF ~fits' \/ ~hasModel' THEN optimal' = 0 /\ widths' = kept
         ELSE Titles!CalculateOptimalTextWidth(kept)
      /\ Titles!Elide(optimal') /\ text' = text
  BY DEF Titles!ScheduleCalculation
<1>2. /\ optimal' \in Nat /\ Cached(widths', font') /\ Titles!WidthRight'
  <2>1. CASE ~complete' \/ ~fits' \/ ~hasModel' \/ titles' = <<>> \/ space' = 0
    <3>1. optimal' \in Nat /\ widths' = kept /\ (complete' => optimal' = 0)
      BY <1>1, <2>1 DEF TitleTypes, Titles!CalculateOptimalTextWidth
    <3> QED
      BY <2>1, <3>1 DEF Titles!WidthRight
  <2>2. CASE complete' /\ fits' /\ hasModel' /\ ~(titles' = <<>> \/ space' = 0)
    <3> DEFINE best == Titles!BestCount(titles', font', sizes', space', kept)
    <3>1. /\ optimal' = IF best = 0 THEN 0 ELSE Titles!Baseline(best, font', kept)
          /\ widths' = Titles!Asked(best, font', kept)
      BY <1>1, <2>2 DEF Titles!CalculateOptimalTextWidth
    <3>2. /\ best \in {0} \cup Titles!Counts /\ optimal' \in Nat
          /\ Widest(titles', font', sizes', space', optimal')
      BY <3>1, WidestFound, Zenon
    <3> HIDE DEF best
    <3>3. Cached(widths', font')
      BY <3>1, <3>2, AskedIs
    <3> QED
      BY <2>2, <3>2, <3>3 DEF Titles!WidthRight, Widest
  <2> QED
    BY <2>1, <2>2
<1>3. elided' \in 0..text' /\ misfit' \in BOOLEAN /\ Titles!TitleFits'
  <2>1. text \in Nat
    BY TitlesAssumption DEF TitleTypes
  <2>2. CASE optimal' = optimal
    BY <1>1, <2>2 DEF Titles!Elide, Titles!TitleFits, TitleTypes
  <2>3. CASE optimal' # optimal
    <3>1. elided' = Titles!Fitting(text, optimal', font') /\ misfit' = FALSE
      BY <1>1, <2>3 DEF Titles!Elide
    <3>2. Titles!Fitting(text, optimal', font') \in 0..text
      BY <1>2, <2>1, FittingType
    <3> QED
      BY <1>1, <3>1, <3>2 DEF Titles!TitleFits
  <2> QED
    BY <2>2, <2>3
<1> QED
  BY <1>1, <1>2, <1>3 DEF TitlesInv, TitleTypes

\* A width of 0 whatever the titles are.
LEMMA ResetStep ==
  ASSUME TitlesInv, ~fits' \/ ~hasModel' \/ titles' = <<>>, titles' \in Seq(Title),
         {fits', complete', hasModel'} \subseteq BOOLEAN,
         optimal' = 0, Titles!Elide(0), UNCHANGED <<font, sizes, space, widths, text>>
  PROVE  TitlesInv'
<1>1. text \in Nat /\ 0 \in Nat
  BY TitlesAssumption DEF TitlesInv, TitleTypes
<1>2. elided' \in 0..text' /\ misfit' \in BOOLEAN /\ Titles!TitleFits'
  <2>1. CASE optimal = 0
    BY <2>1 DEF Titles!Elide, Titles!TitleFits, TitlesInv, TitleTypes
  <2>2. CASE optimal # 0
    <3>1. elided' = Titles!Fitting(text, 0, font') /\ misfit' = FALSE
      BY <2>2 DEF Titles!Elide
    <3>2. font' \in Fonts
      BY DEF TitlesInv, TitleTypes
    <3>3. Titles!Fitting(text, 0, font') \in 0..text
      BY <1>1, <3>2, FittingType
    <3> QED
      BY <3>1, <3>3 DEF Titles!TitleFits
  <2> QED
    BY <2>1, <2>2
<1>3. Titles!WidthRight'
  BY DEF Titles!WidthRight
<1> QED
  BY <1>2, <1>3 DEF TitlesInv, TitleTypes

LEMMA SetTextStep ==
  ASSUME TitlesInv, NEW t \in Title, Titles!SetText(t)
  PROVE  TitlesInv'
<1>1. /\ text' = t /\ elided' = Titles!Fitting(t, optimal, font) /\ misfit' = FALSE
      /\ UNCHANGED <<font, sizes, space, fits, complete, titles, hasModel, optimal, widths>>
  BY DEF Titles!SetText
<1>2. t \in Nat /\ optimal \in Nat /\ font \in Fonts
  BY TitlesAssumption DEF TitlesInv, TitleTypes
<1>3. Titles!Fitting(t, optimal, font) \in 0..t
  BY <1>2, FittingType
<1>4. Titles!WidthRight'
  BY <1>1 DEF TitlesInv, Titles!WidthRight
<1> QED
  BY <1>1, <1>2, <1>3, <1>4 DEF TitlesInv, TitleTypes, Titles!TitleFits

LEMMA RowsType ==
  ASSUME NEW ts \in Titles!BoundedSeq(Title, MaxRows)
  PROVE  ts \in Seq(Title)
<1>1. PICK m \in 0..MaxRows : ts \in [1..m -> Title]
  BY DEF Titles!BoundedSeq, Titles!SeqOf
<1>2. m \in Nat
  BY TitlesAssumption
<1> QED
  BY <1>1, <1>2

LEMMA TitlesStep == TitlesInv /\ [Titles!Next]_Titles!vars => TitlesInv'
<1> SUFFICES ASSUME TitlesInv, [Titles!Next]_Titles!vars PROVE TitlesInv'
  OBVIOUS
<1>1. /\ TitleTypes /\ Titles!TitleFits /\ Cached(widths, font)
      /\ font \in Fonts /\ sizes \in ItemSizes /\ space \in Nat
      /\ fits \in BOOLEAN /\ complete \in BOOLEAN /\ hasModel \in BOOLEAN
      /\ titles \in Seq(Title)
  BY DEF TitlesInv, TitleTypes
<1>2. CASE UNCHANGED Titles!vars
  BY <1>2 DEF Titles!vars, TitlesInv, TitleTypes, Titles!WidthRight, Titles!TitleFits
<1>3. ASSUME NEW f \in Fonts, Titles!SetFont(f) PROVE TitlesInv'
  <2>1. Cached(<<>>, f)
    BY DEF Cached
  <2> QED
    BY <1>1, <1>3, <2>1, ScheduleStep DEF Titles!SetFont
<1>4. ASSUME NEW s \in ItemSizes, Titles!SetSize(s) PROVE TitlesInv'
  BY <1>1, <1>4, ScheduleStep DEF Titles!SetSize
<1>5. ASSUME NEW room \in Spaces, Titles!SetRemainingSpace(room) PROVE TitlesInv'
  <2>1. room \in Nat
    BY TitlesAssumption
  <2> QED
    BY <1>1, <1>5, <2>1, ScheduleStep DEF Titles!SetRemainingSpace
<1>6. CASE Titles!SetEnabled
  <2>1. /\ fits' = ~fits /\ UNCHANGED <<font, sizes, space, complete, titles, hasModel>>
        /\ IF fits' THEN Titles!ScheduleCalculation(widths)
           ELSE optimal' = 0 /\ widths' = widths /\ Titles!Elide(0) /\ UNCHANGED text
    BY <1>6 DEF Titles!SetEnabled
  <2>2. CASE fits'
    BY <1>1, <2>1, <2>2, ScheduleStep
  <2>3. CASE ~fits'
    BY <1>1, <2>1, <2>3, ResetStep
  <2> QED
    BY <2>2, <2>3
<1>7. CASE Titles!ComponentComplete
  BY <1>1, <1>7, ScheduleStep DEF Titles!ComponentComplete
<1>8. CASE Titles!DataModelDestroyed
  <2>1. <<>> \in Seq(Title)
    OBVIOUS
  <2> QED
    BY <1>1, <1>8, <2>1, ResetStep DEF Titles!DataModelDestroyed
<1>9. ASSUME NEW ts \in Titles!BoundedSeq(Title, MaxRows),
             Titles!SetDataModel(ts) \/ Titles!DataModelChanged(ts)
      PROVE  TitlesInv'
  <2>1. ts \in Seq(Title)
    BY RowsType
  <2>2. CASE Titles!SetDataModel(ts)
    BY <1>1, <2>1, <2>2, ScheduleStep DEF Titles!SetDataModel
  <2>3. CASE Titles!DataModelChanged(ts)
    BY <1>1, <2>1, <2>3, ScheduleStep DEF Titles!DataModelChanged
  <2> QED
    BY <1>9, <2>2, <2>3
<1>10. ASSUME NEW t \in Title, Titles!SetText(t) PROVE TitlesInv'
  BY <1>10, SetTextStep
<1> QED
  BY <1>2, <1>3, <1>4, <1>5, <1>6, <1>7, <1>8, <1>9, <1>10 DEF Titles!Next

LEMMA TitlesInit == Titles!Init => TitlesInv
<1> SUFFICES ASSUME Titles!Init PROVE TitlesInv
  OBVIOUS
<1>1. /\ font \in Fonts /\ sizes \in ItemSizes /\ space = 0 /\ fits = FALSE
      /\ complete = FALSE /\ titles = <<>> /\ hasModel = FALSE /\ optimal = 0
      /\ widths = <<>> /\ text = 0 /\ elided = 0 /\ misfit = FALSE
  BY DEF Titles!Init
<1>2. Titles!Fitting(0, 0, font) \in 0..0
  BY <1>1, FittingType
<1>3. Titles!Fitting(0, 0, font) = 0
  BY <1>2
<1>4. <<>> \in Seq(Title) /\ DOMAIN <<>> = {} /\ 0 \in Title
  BY TitlesAssumption
<1>5. Cached(widths, font)
  BY <1>1, <1>4 DEF Cached
<1>8. {fits, complete, hasModel, misfit} \subseteq BOOLEAN
  BY <1>1
<1>7. TitleTypes
  BY <1>1, <1>4, <1>8 DEF TitleTypes
<1>6. Titles!WidthRight /\ Titles!TitleFits
  BY <1>1, <1>3 DEF Titles!WidthRight, Titles!TitleFits
<1> QED
  BY <1>5, <1>6, <1>7 DEF TitlesInv

\* Whatever the order of fonts, sizes, titles and switches, and whatever of the widths was
\* computed before: the titles have the widest width with which all items fit, and the item's
\* is shortened to it, unless the font has changed since and the width has not, which leaves
\* the title as it was cut with the old font.
THEOREM TitlesKeepWidth == Titles!Spec => []Titles!TitlesSound
<1>1. TitlesInv => Titles!TitlesSound
  BY DEF TitlesInv, TitleTypes, Cached, Titles!TitlesSound, Titles!TypeOK
<1> QED
  BY <1>1, TitlesInit, TitlesStep, PTL DEF Titles!Spec

-----------------------------------------------------------------------------
(* The run's composition.                                                    *)

LEMMA PartsStepIsMonitors ==
  [PartsNext]_<<part, vars, windowVars, groupVars, textVars, dockVars, x11Vars, waylandVars>>
    => [Windows!Next]_Windows!vars
BY DEF PartsNext, windowVars, Windows!vars, Windows!server, Windows!monitor

LEMMA PartsStepIsGroups ==
  [PartsNext]_<<part, vars, windowVars, groupVars, textVars, dockVars, x11Vars, waylandVars>>
    => [Groups!Next]_Groups!vars
BY DEF PartsNext, groupVars, Groups!vars

LEMMA PartsStepIsTitles ==
  [PartsNext]_<<part, vars, windowVars, groupVars, textVars, dockVars, x11Vars, waylandVars>>
    => [Titles!Next]_Titles!vars
BY DEF PartsNext, textVars, Titles!vars

\* The rows are the windows the X server lists and know their state, a click on a group goes
\* to the window it should, and the titles have the width there is for them: for any windows,
\* apps, fonts and titles, however many requests, events and signals are under way, and with
\* the exceptions of the groups that are astray and of the title cut with an older font.
THEOREM PartsWindows == PartsSpec => []WindowsSound
<1>1. PartsInit => Windows!Init /\ Groups!Init /\ Titles!Init
  BY DEF PartsInit
<1>2. PartsSpec => Windows!Spec
  BY <1>1, PartsStepIsMonitors, PTL DEF PartsSpec, Windows!Spec
<1>3. PartsSpec => Groups!Spec
  BY <1>1, PartsStepIsGroups, PTL DEF PartsSpec, Groups!Spec
<1>4. PartsSpec => Titles!Spec
  BY <1>1, PartsStepIsTitles, PTL DEF PartsSpec, Titles!Spec
<1> QED
  BY <1>2, <1>3, <1>4, WindowsKeepSound, GroupsKeepTurns, TitlesKeepWidth, PTL DEF WindowsSound
=============================================================================
