---------------------------- MODULE Parts_proofs ----------------------------
(***************************************************************************)
(* The parts of MCParts that share no state: the staging list of the notification   *)
(* center, the previews on X11, the windows and previews under Treeland, and the    *)
(* overlap on X11.  One invariant each; theorems of each part alone and of the       *)
(* parts together.                                                           *)
(***************************************************************************)
EXTENDS MCParts, SequenceTheorems, Lists_proofs

-----------------------------------------------------------------------------
(* The staging list of the notification center.                               *)

\* The store is finite whatever the number of cTimes, and news is of what came.
StagingTypes ==
  /\ born \subseteq Notification /\ IsFiniteSet(born) /\ live \subseteq born
  /\ news \in Seq({"received", "closed"} \X born)
  /\ shown \in BOOLEAN /\ strayed \in BOOLEAN
  /\ listed \in Seq(born) /\ Len(listed) <= BubbleMaxCount /\ (~shown => listed = <<>>)
  /\ overlap \in 0..(BubbleMaxCount + OverlayMaxCount)

\* News comes once, and what was closed is gone.
NewsInv ==
  /\ IsInjective(news)
  /\ \A e \in live : <<"closed", e>> \notin ToSet(news)

\* An arrival that is gone again when it is heard: its end comes after it.
ClosedLater ==
  \A i \in DOMAIN news : \A e \in born \ live :
    news[i] = <<"received", e>> => \E j \in DOMAIN news : i < j /\ news[j] = <<"closed", e>>

\* Unless something went astray the rows are the live notifications that were heard of, and
\* those whose end is not heard of yet; what is missing has no room.
RowsInv ==
  shown /\ ~strayed =>
    /\ IsInjective(listed)
    /\ \A e \in ToSet(listed) : /\ <<"received", e>> \notin ToSet(news)
                                /\ e \in live \/ <<"closed", e>> \in ToSet(news)
    /\ \/ Len(listed) = BubbleMaxCount
       \/ \A e \in live : e \in ToSet(listed) \/ <<"received", e>> \in ToSet(news)
    /\ ClosedLater

StagingInv == StagingTypes /\ NewsInv /\ RowsInv /\ Staging!OverlapRight

LEMMA StagingConstants ==
  /\ Notification \subseteq Nat /\ BubbleMaxCount \in Nat /\ OverlayMaxCount \in Nat
BY PartsAssumption

\* The operators are those of Lists.
LEMMA StagingLists ==
  /\ \A l, S : Staging!Only(l, S) = Only(l, S)
  /\ \A S : Staging!Ascending(S) = Ascending(S) /\ Staging!Cardinality(S) = Cardinality(S)
  /\ \A s : /\ Staging!ToSet(s) = ToSet(s) /\ Staging!Reverse(s) = Reverse(s)
             /\ Staging!IsInjective(s) = IsInjective(s)
  /\ \A s, i : Staging!RemoveAt(s, i) = RemoveAt(s, i)
  /\ \A s, i, x : Staging!InsertAt(s, i, x) = InsertAt(s, i, x)
<1>1. \A l, S : Staging!Only(l, S) = Only(l, S)
  BY Zenon DEF Staging!Only, Only
<1>2. \A S : Staging!Ascending(S) = Ascending(S)
  BY Zenon DEF Staging!Ascending, Ascending, Staging!Cardinality, Cardinality
<1>6. \A S : Staging!Cardinality(S) = Cardinality(S)
  BY Zenon DEF Staging!Cardinality, Cardinality
<1>3. \A s : /\ Staging!ToSet(s) = ToSet(s) /\ Staging!Reverse(s) = Reverse(s)
             /\ Staging!IsInjective(s) = IsInjective(s)
  BY Zenon DEF Staging!ToSet, ToSet, Staging!Reverse, Reverse, Staging!IsInjective, IsInjective
<1>4. \A s, i : Staging!RemoveAt(s, i) = RemoveAt(s, i)
  BY Zenon DEF Staging!RemoveAt, RemoveAt
<1>5. \A s, i, x : Staging!InsertAt(s, i, x) = InsertAt(s, i, x)
  BY Zenon DEF Staging!InsertAt, InsertAt
<1> QED
  BY <1>1, <1>2, <1>3, <1>4, <1>5, <1>6

-----------------------------------------------------------------------------
\* What the store gives: different ones of it, and all it has if they are few.
LEMMA FetchedIs ==
  ASSUME NEW S, S \subseteq Notification, IsFiniteSet(S)
  PROVE  /\ Staging!Fetched(S) \in Seq(S) /\ IsInjective(Staging!Fetched(S))
         /\ ToSet(Staging!Fetched(S)) \subseteq S
         /\ Cardinality(S) \in Nat
         /\ Len(Staging!Fetched(S))
              = Staging!Least(Cardinality(S), BubbleMaxCount + OverlayMaxCount + 1)
         /\ Len(Staging!Fetched(S)) = Cardinality(S) => ToSet(Staging!Fetched(S)) = S
<1> DEFINE old == Ascending(S)
           n == Staging!Least(Len(old), BubbleMaxCount + OverlayMaxCount + 1)
<1>1. S \subseteq Int
  BY StagingConstants
<1>2. old \in Seq(S) /\ Len(old) = Cardinality(S) /\ ToSet(old) = S /\ IsInjective(old)
  BY <1>1, AscendingItems
<1>3. Staging!Fetched(S) = SubSeq(old, 1, n)
  BY StagingLists DEF Staging!Fetched
<1> HIDE DEF old
<1>4. n \in 0..Len(old)
  BY <1>2, StagingConstants DEF Staging!Least
<1> HIDE DEF n
<1>5. /\ SubSeq(old, 1, n) \in Seq(S) /\ Len(SubSeq(old, 1, n)) = n
      /\ ToSet(SubSeq(old, 1, n)) \subseteq ToSet(old)
      /\ n = Len(old) => SubSeq(old, 1, n) = old
      /\ IsInjective(SubSeq(old, 1, n))
  BY <1>2, <1>4, FirstItems
<1>6. Len(old) \in Nat /\ n = Staging!Least(Cardinality(S), BubbleMaxCount + OverlayMaxCount + 1)
  BY <1>2 DEF n
<1> QED
  BY <1>2, <1>3, <1>5, <1>6

\* A list that has all of a store gives, with rows to spare, is one that has all of it.
LEMMA FetchedAll ==
  ASSUME NEW S, S \subseteq Notification, IsFiniteSet(S),
         NEW A, NEW given \in Seq(A), IsInjective(given), Len(given) <= BubbleMaxCount,
         ToSet(Staging!Fetched(S)) \subseteq ToSet(given)
  PROVE  S \subseteq ToSet(given)
<1> DEFINE f == Staging!Fetched(S)
<1>1. /\ f \in Seq(S) /\ IsInjective(f) /\ Cardinality(S) \in Nat
      /\ Len(f) = Staging!Least(Cardinality(S), BubbleMaxCount + OverlayMaxCount + 1)
      /\ Len(f) = Cardinality(S) => ToSet(f) = S
  BY FetchedIs
<1> HIDE DEF f
<1>2. Cardinality(ToSet(f)) = Len(f)
  BY <1>1, InjectiveLength
<1>3. IsFiniteSet(ToSet(given)) /\ Cardinality(ToSet(given)) = Len(given)
  BY InjectiveLength
<1>4. Cardinality(ToSet(f)) <= Cardinality(ToSet(given))
  BY <1>3, FS_Subset DEF f
<1>5. Len(f) = Cardinality(S)
  BY <1>1, <1>2, <1>3, <1>4, StagingConstants DEF Staging!Least
<1> QED
  BY <1>1, <1>5 DEF f

LEMMA NewIs ==
  ASSUME NEW S, S \subseteq Notification, IsFiniteSet(S), NEW given
  PROVE  /\ Staging!New(S, given) \in Seq(S)
         /\ ToSet(Staging!New(S, given)) = ToSet(Staging!Fetched(S)) \ ToSet(given)
<1> DEFINE f == Staging!Fetched(S)
<1>1. f \in Seq(S) /\ ToSet(f) \subseteq S
  BY FetchedIs
<1>2. Staging!New(S, given) = Only(f, Notification \ ToSet(given))
  BY StagingLists DEF Staging!New
<1> HIDE DEF f
<1>3. /\ Only(f, Notification \ ToSet(given)) \in Seq(S)
      /\ ToSet(Only(f, Notification \ ToSet(given))) = ToSet(f) \cap (Notification \ ToSet(given))
  BY <1>1, OnlyItems
<1> QED
  BY <1>1, <1>2, <1>3 DEF f

\* One of the new ones comes in, wherever.
LEMMA InsertedIs ==
  ASSUME NEW U, NEW given \in Seq(U), NEW new \in Seq(U), new # <<>>,
         U \subseteq Notification
  PROVE  \E x \in ToSet(new) :
           /\ Staging!Inserted(given, new) \in Seq(U)
           /\ Len(Staging!Inserted(given, new)) = Len(given) + 1
           /\ ToSet(Staging!Inserted(given, new)) = ToSet(given) \cup {x}
           /\ IsInjective(given) /\ x \notin ToSet(given)
                => IsInjective(Staging!Inserted(given, new))
<1> DEFINE older == {i \in DOMAIN given : \E n \in ToSet(new) : given[i] < n}
           spot == CHOOSE i \in older : \A j \in older : j <= i
<1>1. Staging!Inserted(given, new)
        = IF older = {} THEN Append(given, Head(new))
          ELSE InsertAt(given, spot, Head(Only(new, {n \in ToSet(new) : given[spot] < n})))
  <2> DEFINE newer == {n \in ToSet(new) : given[spot] < n}
  <2>2. Staging!Only(new, newer) = Only(new, newer)
    BY StagingLists
  <2>3. \A x : Staging!InsertAt(given, spot, x) = InsertAt(given, spot, x)
    BY StagingLists
  <2>4. Staging!Inserted(given, new)
          = IF older = {} THEN Append(given, Head(new))
            ELSE Staging!InsertAt(given, spot, Head(Staging!Only(new, newer)))
    BY Zenon DEF Staging!Inserted, Staging!ToSet, ToSet
  <2> QED
    BY <2>2, <2>3, <2>4, Zenon
<1>2. CASE older = {}
  <2>1. Head(new) \in U /\ Head(new) \in ToSet(new)
    BY TailItems
  <2>2. /\ Append(given, Head(new)) \in Seq(U)
        /\ Len(Append(given, Head(new))) = Len(given) + 1
        /\ ToSet(Append(given, Head(new))) = ToSet(given) \cup {Head(new)}
    BY <2>1, AppendItems
  <2>3. IsInjective(given) /\ Head(new) \notin ToSet(given) => IsInjective(Append(given, Head(new)))
    BY <2>1, AppendDiffers
  <2> HIDE DEF older
  <2> QED
    BY <1>1, <1>2, <2>1, <2>2, <2>3
<1>3. CASE older # {}
  <2>1. spot \in older
    <3>1. older \subseteq 1..Len(given) /\ Len(given) \in Nat
      OBVIOUS
    <3>2. \E i \in older : \A j \in older : j <= i
      <4> HIDE DEF older
      <4> DEFINE T == {n \in Nat : \E i \in older : i + n = Len(given)}
      <4>1. T \subseteq Nat /\ T # {}
        <5>1. PICK i \in older : TRUE
          BY <1>3
        <5>2. Len(given) - i \in T
          BY <3>1, <5>1
        <5> QED
          BY <5>2
      <4>2. PICK n \in T : \A m \in T : n <= m
        BY <4>1, LeastNumber
      <4>3. PICK i \in older : i + n = Len(given)
        BY <4>2
      <4>4. ASSUME NEW j \in older PROVE j <= i
        <5>1. Len(given) - j \in T
          BY <3>1
        <5>2. n <= Len(given) - j
          BY <4>2, <5>1
        <5> QED
          BY <3>1, <4>2, <4>3, <5>2
      <4> QED
        BY <4>4
    <3> HIDE DEF older
    <3> QED
      BY <3>2
  <2> DEFINE set == {n \in ToSet(new) : given[spot] < n}
             x == Head(Only(new, set))
  <2>2. spot \in 1..Len(given) + 1 /\ set # {} /\ set \subseteq ToSet(new)
    <3>1. spot \in DOMAIN given /\ \E n \in ToSet(new) : given[spot] < n
      BY <2>1
    <3> HIDE DEF spot
    <3> QED
      BY <3>1
  <2> HIDE DEF older, spot, set
  <2>3. Only(new, set) \in Seq(U) /\ ToSet(Only(new, set)) = set
    <3>1. Only(new, set) \in Seq(U) /\ ToSet(Only(new, set)) = ToSet(new) \cap set
      BY OnlyItems
    <3> QED
      BY <2>2, <3>1
  <2>4. Only(new, set) # <<>>
    <3>1. ToSet(<<>>) = {}
      BY DEF ToSet
    <3> QED
      BY <2>2, <2>3, <3>1
  <2>5. x \in U /\ x \in ToSet(new)
    BY <2>2, <2>3, <2>4, TailItems
  <2> HIDE DEF x
  <2>6. /\ InsertAt(given, spot, x) \in Seq(U) /\ Len(InsertAt(given, spot, x)) = Len(given) + 1
        /\ ToSet(InsertAt(given, spot, x)) = ToSet(given) \cup {x}
        /\ IsInjective(given) /\ x \notin ToSet(given) => IsInjective(InsertAt(given, spot, x))
    BY <2>2, <2>5, InsertAtItems
  <2>7. Staging!Inserted(given, new) = InsertAt(given, spot, x)
    BY <1>1, <1>3 DEF x, set
  <2> QED
    BY <2>5, <2>6, <2>7
<1> QED
  BY <1>2, <1>3

\* The rows without e: the others stay, and one of the store may come in its place.
LEMMA WithoutIs ==
  ASSUME NEW U, U \subseteq Notification, NEW S, S \subseteq U, IsFiniteSet(S),
         NEW given \in Seq(U), Len(given) <= BubbleMaxCount, NEW e,
         NEW r, r = Staging!Without(S, given, e)
  PROVE  /\ r \in Seq(U) /\ Len(r) <= Len(given)
         /\ e \notin ToSet(given) => r = given
         /\ IsInjective(given) => /\ IsInjective(r)
                                 /\ ToSet(r) \subseteq (ToSet(given) \ {e}) \cup S
                                 /\ ToSet(given) \ {e} \subseteq ToSet(r)
         /\ IsInjective(given) /\ e \in ToSet(given) =>
              Len(r) = Len(given) \/ S \subseteq ToSet(r)
<1>0. Len(given) \in Nat /\ DOMAIN given = 1..Len(given) /\ S \subseteq Notification
  OBVIOUS
<1>1. CASE e \notin ToSet(given)
  <2>1. ~Staging!Contains(given, e)
    BY <1>0, <1>1 DEF Staging!Contains, ToSet
  <2>2. r = given
    BY <2>1 DEF Staging!Without
  <2>3. Len(given) <= Len(given)
    BY <1>0
  <2>4. r \in Seq(U) /\ Len(r) <= Len(given) /\ ToSet(r) = ToSet(given) \ {e}
    BY <1>1, <2>2, <2>3
  <2> QED
    BY <1>1, <2>2, <2>4
<1>2. CASE e \in ToSet(given)
  <2> DEFINE first == CHOOSE j \in DOMAIN given : given[j] = e /\ \A m \in 1..(j - 1) : given[m] # e
             rest == Staging!RemoveAt(given, first)
             new == Staging!New(S, rest)
  <2>1. Staging!Contains(given, e)
    BY <1>0, <1>2 DEF Staging!Contains, ToSet
  <2>2. r = Staging!Inserted(rest, new)
    BY <2>1 DEF Staging!Without
  <2>3. \E j \in DOMAIN given : given[j] = e /\ \A m \in 1..(j - 1) : given[m] # e
    <3> DEFINE T == {j \in DOMAIN given : given[j] = e}
    <3>1. T \subseteq Nat /\ T # {}
      BY <1>0, <1>2 DEF ToSet
    <3>2. PICK j \in T : \A m \in T : j <= m
      BY <3>1, LeastNumber
    <3>3. ASSUME NEW m \in 1..(j - 1) PROVE given[m] # e
      <4>1. m \in DOMAIN given /\ ~(j <= m)
        BY <1>0, <3>2
      <4> QED
        BY <3>2, <4>1
    <3> QED
      BY <3>2, <3>3
  <2>4. first \in 1..Len(given) /\ given[first] = e
    BY <1>0, <2>3
  <2>5. rest = RemoveAt(given, first)
    BY StagingLists
  <2> HIDE DEF first
  <2>6. /\ rest \in Seq(U) /\ Len(rest) = Len(given) - 1
        /\ ToSet(rest) \subseteq ToSet(given) /\ ToSet(given) \subseteq ToSet(rest) \cup {e}
        /\ IsInjective(given) => IsInjective(rest) /\ e \notin ToSet(rest)
    BY <2>4, <2>5, RemoveAtItems
  <2> HIDE DEF rest
  <2>7. new \in Seq(S) /\ ToSet(new) = ToSet(Staging!Fetched(S)) \ ToSet(rest)
    BY <1>0, NewIs
  <2>8. ToSet(new) \subseteq S
    BY <2>7 DEF ToSet
  <2> HIDE DEF new
  <2>9. CASE new = <<>>
    <3>1. r = rest
      BY <2>2, <2>9 DEF Staging!Inserted
    <3>2. ToSet(<<>>) = {}
      BY DEF ToSet
    <3>3. ToSet(Staging!Fetched(S)) \subseteq ToSet(rest)
      BY <2>7, <2>9, <3>2
    <3>4. Len(rest) <= BubbleMaxCount /\ Len(rest) <= Len(given)
      BY <1>0, <2>6, StagingConstants
    <3>5. ASSUME IsInjective(given) PROVE S \subseteq ToSet(rest)
      <4>1. IsInjective(rest)
        BY <2>6, <3>5
      <4> QED
        BY <1>0, <2>6, <3>3, <3>4, <4>1, FetchedAll
    <3> QED
      BY <1>2, <2>6, <3>1, <3>4, <3>5
  <2>10. CASE new # <<>>
    <3>0. new \in Seq(U)
      BY <2>7
    <3>1. PICK x \in ToSet(new) :
            /\ r \in Seq(U) /\ Len(r) = Len(rest) + 1 /\ ToSet(r) = ToSet(rest) \cup {x}
            /\ IsInjective(rest) /\ x \notin ToSet(rest) => IsInjective(r)
      BY <2>2, <2>6, <2>10, <3>0, InsertedIs
    <3>2. x \in S /\ x \notin ToSet(rest)
      BY <2>7, <2>8, <3>1
    <3>3. Len(r) = Len(given) /\ Len(r) <= Len(given)
      BY <1>0, <2>6, <3>1
    <3> QED
      BY <1>2, <2>6, <3>1, <3>2, <3>3
  <2> QED
    BY <2>9, <2>10
<1> QED
  BY <1>1, <1>2

-----------------------------------------------------------------------------
\* What lies under the last row.
LEMMA OverlapTypes ==
  ASSUME NEW n \in Nat, NEW A, NEW given \in Seq(A)
  PROVE  Staging!Overlap(n, given) \in 0..(BubbleMaxCount + OverlayMaxCount)
<1>1. Len(given) \in Nat
  OBVIOUS
<1> QED
  BY <1>1, StagingConstants DEF Staging!Overlap, Staging!Least

LEMMA OverlapIs ==
  ASSUME NEW c \in Nat, NEW n \in Nat, NEW given,
         n = c \/ n = Staging!Least(c, BubbleMaxCount + OverlayMaxCount + 1),
         Len(given) = Staging!Least(c, BubbleMaxCount)
  PROVE  Staging!Overlap(n, given) = Staging!Least(c - Len(given), OverlayMaxCount)
BY StagingConstants DEF Staging!Overlap, Staging!Least

\* Once the news is heard the rows are live, as many as there is room for.
LEMMA SettledRows ==
  StagingTypes /\ RowsInv /\ shown /\ ~strayed /\ news = <<>>
    => /\ ToSet(listed) \subseteq live /\ Cardinality(live) \in Nat
       /\ Len(listed) = Staging!Least(Cardinality(live), BubbleMaxCount)
<1> SUFFICES ASSUME StagingTypes, RowsInv, shown, ~strayed, news = <<>>
             PROVE  /\ ToSet(listed) \subseteq live /\ Cardinality(live) \in Nat
                    /\ Len(listed) = Staging!Least(Cardinality(live), BubbleMaxCount)
  OBVIOUS
<1>1. ToSet(news) = {}
  BY DEF ToSet
<1>2. ToSet(listed) \subseteq live
  BY <1>1 DEF RowsInv
<1>3. IsFiniteSet(live) /\ Cardinality(live) \in Nat
  BY FS_Subset, FS_CardinalityType DEF StagingTypes
<1>4. IsFiniteSet(ToSet(listed)) /\ Cardinality(ToSet(listed)) = Len(listed)
  BY InjectiveLength DEF StagingTypes, RowsInv
<1>5. Len(listed) <= Cardinality(live) /\ Len(listed) <= BubbleMaxCount /\ Len(listed) \in Nat
  BY <1>2, <1>3, <1>4, FS_Subset DEF StagingTypes
<1>6. Len(listed) = BubbleMaxCount \/ Len(listed) = Cardinality(live)
  <2>1. Len(listed) = BubbleMaxCount \/ live \subseteq ToSet(listed)
    BY <1>1 DEF RowsInv
  <2>2. CASE live \subseteq ToSet(listed)
    <3>1. live = ToSet(listed)
      BY <1>2, <2>2
    <3> QED
      BY <1>4, <3>1
  <2> QED
    BY <2>1, <2>2
<1> QED
  BY <1>2, <1>3, <1>5, <1>6, StagingConstants DEF Staging!Least

LEMMA CountedRight ==
  ASSUME StagingTypes', RowsInv', NEW n,
         n = Cardinality(live') \/ n = Len(Staging!Fetched(live')),
         overlap' = Staging!Overlap(n, listed')
  PROVE  Staging!OverlapRight'
<1> SUFFICES ASSUME shown', ~strayed', (news = <<>>)'
             PROVE  (overlap = Staging!Least(Cardinality(live) - Len(listed), OverlayMaxCount))'
  BY StagingLists DEF Staging!OverlapRight, Staging!Settled
<1>1. /\ Cardinality(live') \in Nat
      /\ Len(listed') = Staging!Least(Cardinality(live'), BubbleMaxCount)
  <2>1. (StagingTypes /\ RowsInv /\ shown /\ ~strayed /\ news = <<>>
           => /\ ToSet(listed) \subseteq live /\ Cardinality(live) \in Nat
              /\ Len(listed) = Staging!Least(Cardinality(live), BubbleMaxCount))'
    BY SettledRows, PTL
  <2> QED
    BY <2>1
<1>2. live' \subseteq Notification /\ IsFiniteSet(live')
  BY FS_Subset DEF StagingTypes
<1>3. Len(Staging!Fetched(live'))
        = Staging!Least(Cardinality(live'), BubbleMaxCount + OverlayMaxCount + 1)
  BY <1>2, FetchedIs
<1>4. n \in Nat /\ (n = Cardinality(live')
        \/ n = Staging!Least(Cardinality(live'), BubbleMaxCount + OverlayMaxCount + 1))
  BY <1>1, <1>3, StagingConstants DEF Staging!Least
<1> QED
  BY <1>1, <1>4, OverlapIs

\* News of what is, or now came.
LEMMA NewsComes ==
  ASSUME StagingTypes, born \subseteq born', NEW m \in {"received", "closed"} \X born',
         news' = Append(news, m)
  PROVE  /\ news' \in Seq({"received", "closed"} \X born') /\ news' # <<>>
         /\ ToSet(news') = ToSet(news) \cup {m}
         /\ Len(news) \in Nat /\ DOMAIN news = 1..Len(news) /\ DOMAIN news' = 1..Len(news) + 1
         /\ \A i \in 1..Len(news) + 1 : news'[i] = IF i = Len(news) + 1 THEN m ELSE news[i]
         /\ IsInjective(news) /\ m \notin ToSet(news) => IsInjective(news')
<1>1. news \in Seq({"received", "closed"} \X born')
  BY DEF StagingTypes
<1>2. ToSet(news') = ToSet(news) \cup {m}
  BY <1>1, AppendItems
<1>3. IsInjective(news) /\ m \notin ToSet(news) => IsInjective(news')
  BY <1>1, AppendDiffers
<1>4. /\ news' \in Seq({"received", "closed"} \X born') /\ news' # <<>>
      /\ Len(news) \in Nat /\ DOMAIN news = 1..Len(news) /\ DOMAIN news' = 1..Len(news) + 1
      /\ \A i \in 1..Len(news) + 1 : news'[i] = IF i = Len(news) + 1 THEN m ELSE news[i]
  <2>1. ASSUME NEW A, NEW s \in Seq(A), NEW x \in A
        PROVE  /\ Append(s, x) \in Seq(A) /\ Append(s, x) # <<>>
               /\ Len(s) \in Nat /\ DOMAIN s = 1..Len(s) /\ DOMAIN Append(s, x) = 1..Len(s) + 1
               /\ \A i \in 1..Len(s) + 1 :
                    Append(s, x)[i] = IF i = Len(s) + 1 THEN x ELSE s[i]
    OBVIOUS
  <2> DEFINE M == {"received", "closed"} \X born'
  <2>2. news \in Seq(M) /\ m \in M
    BY <1>1
  <2> HIDE DEF M
  <2>3. /\ Append(news, m) \in Seq(M) /\ Append(news, m) # <<>>
        /\ Len(news) \in Nat /\ DOMAIN news = 1..Len(news)
        /\ DOMAIN Append(news, m) = 1..Len(news) + 1
        /\ \A i \in 1..Len(news) + 1 :
             Append(news, m)[i] = IF i = Len(news) + 1 THEN m ELSE news[i]
    BY <2>1, <2>2
  <2> QED
    BY <2>3 DEF M
<1> QED
  BY <1>2, <1>3, <1>4

LEMMA NewsOfBorn ==
  StagingTypes => \A w, e : <<w, e>> \in ToSet(news) => e \in born
BY DEF StagingTypes, ToSet

-----------------------------------------------------------------------------
(* The worker's steps.                                                        *)

LEMMA NotifyKeeps ==
  ASSUME StagingInv, NEW e \in Notification, Staging!Notify(e)
  PROVE  StagingInv'
<1>1. /\ e \notin born /\ born' = born \cup {e} /\ live' = live \cup {e}
      /\ news' = Append(news, <<"received", e>>)
      /\ UNCHANGED <<shown, listed, overlap, strayed>>
  BY DEF Staging!Notify, Staging!Later
<1>2. /\ news' \in Seq({"received", "closed"} \X born') /\ news' # <<>>
      /\ ToSet(news') = ToSet(news) \cup {<<"received", e>>}
      /\ Len(news) \in Nat /\ DOMAIN news = 1..Len(news) /\ DOMAIN news' = 1..Len(news) + 1
      /\ \A i \in 1..Len(news) + 1 :
           news'[i] = IF i = Len(news) + 1 THEN <<"received", e>> ELSE news[i]
      /\ IsInjective(news) /\ <<"received", e>> \notin ToSet(news) => IsInjective(news')
  BY <1>1, NewsComes DEF StagingInv
<1>3. \A w : <<w, e>> \notin ToSet(news)
  BY <1>1, NewsOfBorn DEF StagingInv
<1>4. StagingTypes'
  <2>1. IsFiniteSet(born') /\ born' \subseteq Notification /\ live' \subseteq born'
    BY <1>1, FS_AddElement DEF StagingInv, StagingTypes
  <2>2. listed' \in Seq(born')
    BY <1>1 DEF StagingInv, StagingTypes
  <2> QED
    BY <1>1, <1>2, <2>1, <2>2 DEF StagingInv, StagingTypes
<1>5. NewsInv'
  BY <1>1, <1>2, <1>3 DEF StagingInv, NewsInv
<1>6. RowsInv'
  <2> SUFFICES ASSUME shown, ~strayed PROVE RowsInv'
    BY <1>1 DEF RowsInv
  <2>1. \A f \in ToSet(listed) : f \in born
    BY DEF StagingInv, StagingTypes, ToSet
  <2>2. ClosedLater'
    <3> SUFFICES ASSUME NEW i \in DOMAIN news', NEW f \in born' \ live', news'[i] = <<"received", f>>
                 PROVE  \E j \in DOMAIN news' : i < j /\ news'[j] = <<"closed", f>>
      BY DEF ClosedLater
    <3>1. f \in born \ live /\ f # e
      BY <1>1
    <3>2. i \in DOMAIN news /\ news[i] = <<"received", f>>
      BY <1>2, <3>1
    <3>3. PICK j \in DOMAIN news : i < j /\ news[j] = <<"closed", f>>
      BY <3>1, <3>2 DEF StagingInv, RowsInv, ClosedLater
    <3>4. j \in DOMAIN news' /\ j # Len(news) + 1
      BY <1>2
    <3>5. news'[j] = news[j]
      BY <1>2, <3>4
    <3> QED
      BY <3>3, <3>4, <3>5
  <2> QED
    BY <1>1, <1>2, <2>1, <2>2 DEF StagingInv, RowsInv
<1>7. Staging!OverlapRight'
  BY <1>2 DEF Staging!OverlapRight, Staging!Settled
<1> QED
  BY <1>4, <1>5, <1>6, <1>7 DEF StagingInv

LEMMA ExpireKeeps ==
  ASSUME StagingInv, NEW e \in Notification, Staging!Expire(e)
  PROVE  StagingInv'
<1>1. /\ e \in live /\ e \in born /\ live' = live \ {e} /\ news' = Append(news, <<"closed", e>>)
      /\ UNCHANGED <<born, shown, listed, overlap, strayed>>
  BY DEF Staging!Expire, StagingInv, StagingTypes
<1>2. /\ news' \in Seq({"received", "closed"} \X born') /\ news' # <<>>
      /\ ToSet(news') = ToSet(news) \cup {<<"closed", e>>}
      /\ Len(news) \in Nat /\ DOMAIN news = 1..Len(news) /\ DOMAIN news' = 1..Len(news) + 1
      /\ \A i \in 1..Len(news) + 1 :
           news'[i] = IF i = Len(news) + 1 THEN <<"closed", e>> ELSE news[i]
      /\ IsInjective(news) /\ <<"closed", e>> \notin ToSet(news) => IsInjective(news')
  BY <1>1, NewsComes DEF StagingInv
<1>3. StagingTypes'
  BY <1>1, <1>2 DEF StagingInv, StagingTypes
<1>4. NewsInv'
  BY <1>1, <1>2 DEF StagingInv, NewsInv
<1>5. RowsInv'
  <2> SUFFICES ASSUME shown, ~strayed PROVE RowsInv'
    BY <1>1 DEF RowsInv
  <2>1. ClosedLater'
    <3> SUFFICES ASSUME NEW i \in DOMAIN news', NEW f \in born' \ live', news'[i] = <<"received", f>>
                 PROVE  \E j \in DOMAIN news' : i < j /\ news'[j] = <<"closed", f>>
      BY DEF ClosedLater
    <3>1. i \in DOMAIN news /\ news[i] = <<"received", f>> /\ i < Len(news) + 1
      BY <1>2
    <3>2. CASE f = e
      <4>1. Len(news) + 1 \in DOMAIN news' /\ news'[Len(news) + 1] = <<"closed", f>>
        BY <1>2, <3>2
      <4> QED
        BY <3>1, <4>1
    <3>3. CASE f # e
      <4>1. f \in born \ live
        BY <1>1, <3>3
      <4>2. PICK j \in DOMAIN news : i < j /\ news[j] = <<"closed", f>>
        BY <3>1, <4>1 DEF StagingInv, RowsInv, ClosedLater
      <4>3. j \in DOMAIN news' /\ j # Len(news) + 1
        BY <1>2
      <4>4. news'[j] = news[j]
        BY <1>2, <4>3
      <4> QED
        BY <4>2, <4>3, <4>4
    <3> QED
      BY <3>2, <3>3
  <2> QED
    BY <1>1, <1>2, <2>1 DEF StagingInv, RowsInv
<1>6. Staging!OverlapRight'
  BY <1>2 DEF Staging!OverlapRight, Staging!Settled
<1> QED
  BY <1>3, <1>4, <1>5, <1>6 DEF StagingInv

LEMMA CloseNotificationKeeps ==
  ASSUME StagingInv, NEW e \in Notification, Staging!CloseNotification(e)
  PROVE  StagingInv'
<1>1. live' = live \ {e} /\ strayed' = TRUE /\ UNCHANGED <<born, news, shown, listed, overlap>>
  BY DEF Staging!CloseNotification
<1> QED
  BY <1>1 DEF StagingInv, StagingTypes, NewsInv, RowsInv, Staging!OverlapRight, Staging!Settled

LEMMA ReplaceKeeps ==
  ASSUME StagingInv, NEW e \in Notification, NEW f \in Notification, Staging!Replace(e, f)
  PROVE  StagingInv'
<1>1. /\ e \notin born /\ born' = born \cup {e} /\ live' = (live \ {f}) \cup {e}
      /\ news' = Append(news, <<"received", e>>) /\ strayed' = TRUE
      /\ UNCHANGED <<shown, listed, overlap>>
  BY DEF Staging!Replace, Staging!Later
<1>2. /\ news' \in Seq({"received", "closed"} \X born')
      /\ ToSet(news') = ToSet(news) \cup {<<"received", e>>}
      /\ IsInjective(news) /\ <<"received", e>> \notin ToSet(news) => IsInjective(news')
  BY <1>1, NewsComes DEF StagingInv
<1>3. \A w : <<w, e>> \notin ToSet(news)
  BY <1>1, NewsOfBorn DEF StagingInv
<1>4. StagingTypes'
  <2>1. IsFiniteSet(born') /\ born' \subseteq Notification /\ live' \subseteq born'
    BY <1>1, FS_AddElement DEF StagingInv, StagingTypes
  <2>2. listed' \in Seq(born')
    BY <1>1 DEF StagingInv, StagingTypes
  <2> QED
    BY <1>1, <1>2, <2>1, <2>2 DEF StagingInv, StagingTypes
<1>5. NewsInv'
  BY <1>1, <1>2, <1>3 DEF StagingInv, NewsInv
<1>6. RowsInv' /\ Staging!OverlapRight'
  BY <1>1 DEF RowsInv, Staging!OverlapRight, Staging!Settled
<1> QED
  BY <1>4, <1>5, <1>6 DEF StagingInv

-----------------------------------------------------------------------------
(* The main thread's steps.                                                   *)

\* The rows without e, seen from the store as it now is: with no arrival on its way they
\* keep what RowsInv says of them.
LEMMA RemoveKeeps ==
  ASSUME StagingInv, shown, NEW e, e \notin live', live' \subseteq live, live \subseteq live' \cup {e},
         UNCHANGED <<born, shown>>, news' \in Seq({"received", "closed"} \X born),
         \A m \in ToSet(news) : m = <<"closed", e>> \/ m \in ToSet(news'),
         ToSet(news') \subseteq ToSet(news),
         Staging!RemoveId(live', news', e),
         ClosedLater'
  PROVE  StagingTypes' /\ RowsInv' /\ Staging!OverlapRight'
<1>1. live' \subseteq born /\ born \subseteq Notification /\ IsFiniteSet(live') /\ IsFiniteSet(born)
  BY FS_Subset DEF StagingInv, StagingTypes
<1>2. listed \in Seq(born) /\ Len(listed) <= BubbleMaxCount
  BY DEF StagingInv, StagingTypes
<1>3. /\ listed' = Staging!Without(live', listed, e)
      /\ overlap' = Staging!Overlap(Len(Staging!Fetched(live')), listed')
      /\ strayed' = (strayed \/ Staging!Ahead(news'))
  BY DEF Staging!RemoveId
<1>4. /\ listed' \in Seq(born) /\ Len(listed') <= Len(listed)
      /\ e \notin ToSet(listed) => listed' = listed
      /\ IsInjective(listed) => /\ IsInjective(listed')
                                /\ ToSet(listed') \subseteq (ToSet(listed) \ {e}) \cup live'
                                /\ ToSet(listed) \ {e} \subseteq ToSet(listed')
      /\ IsInjective(listed) /\ e \in ToSet(listed) =>
           Len(listed') = Len(listed) \/ live' \subseteq ToSet(listed')
  <2> PICK r : r = listed'
    OBVIOUS
  <2>0. r = Staging!Without(live', listed, e)
    BY <1>3
  <2>1. /\ r \in Seq(born) /\ Len(r) <= Len(listed)
        /\ e \notin ToSet(listed) => r = listed
        /\ IsInjective(listed) => /\ IsInjective(r)
                                  /\ ToSet(r) \subseteq (ToSet(listed) \ {e}) \cup live'
                                  /\ ToSet(listed) \ {e} \subseteq ToSet(r)
        /\ IsInjective(listed) /\ e \in ToSet(listed) =>
             Len(r) = Len(listed) \/ live' \subseteq ToSet(r)
    <3> PICK S : S = live'
      OBVIOUS
    <3>1. /\ born \subseteq Notification /\ S \subseteq born /\ IsFiniteSet(S)
          /\ r = Staging!Without(S, listed, e)
      BY <1>1, <2>0
    <3>2. /\ r \in Seq(born) /\ Len(r) <= Len(listed)
          /\ e \notin ToSet(listed) => r = listed
          /\ IsInjective(listed) => /\ IsInjective(r)
                                    /\ ToSet(r) \subseteq (ToSet(listed) \ {e}) \cup S
                                    /\ ToSet(listed) \ {e} \subseteq ToSet(r)
          /\ IsInjective(listed) /\ e \in ToSet(listed) =>
               Len(r) = Len(listed) \/ S \subseteq ToSet(r)
      BY ONLY <1>2, <3>1, WithoutIs
    <3> QED
      BY <3>2
  <2> QED
    BY <2>1
<1>5. Len(listed') \in Nat /\ Len(listed) \in Nat /\ Len(Staging!Fetched(live')) \in Nat
  <2>1. Staging!Fetched(live') \in Seq(live')
    BY <1>1, FetchedIs
  <2> QED
    BY <1>2, <1>4, <2>1
<1>6. StagingTypes'
  <2>1. overlap' \in 0..(BubbleMaxCount + OverlayMaxCount)
    BY <1>3, <1>4, <1>5, OverlapTypes
  <2>2. Len(listed') <= BubbleMaxCount
    BY <1>2, <1>4, <1>5, StagingConstants
  <2>3. strayed' \in BOOLEAN
    BY <1>3 DEF StagingInv, StagingTypes, Staging!Ahead
  <2>4. shown'
    OBVIOUS
  <2> QED
    BY <1>1, <1>4, <2>1, <2>2, <2>3, <2>4 DEF StagingInv, StagingTypes
<1>7. RowsInv'
  <2> SUFFICES ASSUME ~strayed' PROVE RowsInv'
    BY DEF RowsInv
  <2>1. ~strayed /\ ~Staging!Ahead(news')
    BY <1>3 DEF StagingInv, StagingTypes
  <2>2. \A f : <<"received", f>> \notin ToSet(news')
    BY <2>1 DEF Staging!Ahead, ToSet
  <2>3. \A f : <<"received", f>> \notin ToSet(news)
    BY <2>2
  <2>4. /\ IsInjective(listed)
        /\ \A f \in ToSet(listed) : f \in live \/ <<"closed", f>> \in ToSet(news)
        /\ \/ Len(listed) = BubbleMaxCount
           \/ live \subseteq ToSet(listed)
    BY <2>1, <2>3 DEF StagingInv, RowsInv
  <2>5. \A f \in ToSet(listed') : f \in live' \/ <<"closed", f>> \in ToSet(news')
    <3> SUFFICES ASSUME NEW f \in ToSet(listed'), f \notin live'
                 PROVE  <<"closed", f>> \in ToSet(news')
      OBVIOUS
    <3>1. f \in ToSet(listed) /\ f # e
      BY <1>4, <2>4
    <3>2. <<"closed", f>> \in ToSet(news)
      BY <2>4, <3>1
    <3> QED
      BY <3>1, <3>2
  <2>6. Len(listed') = BubbleMaxCount \/ live' \subseteq ToSet(listed')
    <3>1. CASE e \in ToSet(listed)
      <4>1. CASE Len(listed') = Len(listed)
        BY <1>4, <2>4, <4>1
      <4>2. CASE live' \subseteq ToSet(listed')
        BY <4>2
      <4> QED
        BY <1>4, <2>4, <3>1, <4>1, <4>2
    <3>2. CASE e \notin ToSet(listed)
      BY <1>4, <2>4, <3>2
    <3> QED
      BY <3>1, <3>2
  <2> QED
    BY <1>4, <2>2, <2>4, <2>5, <2>6 DEF RowsInv
<1>8. Staging!OverlapRight'
  BY <1>3, <1>6, <1>7, CountedRight
<1> QED
  BY <1>6, <1>7, <1>8

LEMMA CloseRowKeeps ==
  ASSUME StagingInv, NEW i \in 1..BubbleMaxCount, Staging!CloseRow(i)
  PROVE  StagingInv'
<1>1. /\ i \in DOMAIN listed /\ live' = live \ {listed[i]}
      /\ Staging!RemoveId(live', news, listed[i]) /\ UNCHANGED <<born, news, shown>>
  BY DEF Staging!CloseRow
<1>2. shown
  BY <1>1 DEF StagingInv, StagingTypes
<1>3. NewsInv'
  BY <1>1 DEF StagingInv, NewsInv
<1>4. PICK e : e = listed[i]
  OBVIOUS
<1>5. e \in ToSet(listed)
  BY <1>1, <1>4 DEF ToSet
<1>6. CASE strayed'
  <2>1. RowsInv' /\ Staging!OverlapRight'
    BY <1>6 DEF RowsInv, Staging!OverlapRight, Staging!Settled
  <2>2. StagingTypes'
    <3>1. live' \subseteq born /\ born \subseteq Notification /\ IsFiniteSet(live')
      BY <1>1, FS_Subset DEF StagingInv, StagingTypes
    <3>2. listed \in Seq(born) /\ Len(listed) <= BubbleMaxCount
      BY DEF StagingInv, StagingTypes
    <3>3. listed' \in Seq(born) /\ Len(listed') <= Len(listed)
      BY <1>1, <1>4, <3>1, <3>2, WithoutIs DEF Staging!RemoveId
    <3>4. Len(Staging!Fetched(live')) \in Nat
      <4>1. Staging!Fetched(live') \in Seq(live')
        BY <3>1, FetchedIs
      <4> QED
        BY <4>1
    <3>5. overlap' \in 0..(BubbleMaxCount + OverlayMaxCount)
      BY <1>1, <3>3, <3>4, OverlapTypes DEF Staging!RemoveId
    <3>6. Len(listed') <= BubbleMaxCount
      BY <3>2, <3>3, StagingConstants
    <3> QED
      BY <1>1, <1>2, <1>6, <3>1, <3>3, <3>5, <3>6 DEF StagingInv, StagingTypes
  <2> QED
    BY <1>3, <2>1, <2>2 DEF StagingInv
<1>7. CASE ~strayed'
  <2>1. ~strayed /\ ~Staging!Ahead(news)
    BY <1>1, <1>7 DEF Staging!RemoveId, StagingInv, StagingTypes
  <2>2. ClosedLater'
    <3>1. \A j \in DOMAIN news : \A f : news[j] # <<"received", f>>
      BY <2>1 DEF Staging!Ahead
    <3> QED
      BY <1>1, <3>1 DEF ClosedLater
  <2>3. news' \in Seq({"received", "closed"} \X born)
    BY <1>1 DEF StagingInv, StagingTypes
  <2>4. /\ e \notin live' /\ live' \subseteq live /\ live \subseteq live' \cup {e}
        /\ UNCHANGED <<born, shown>> /\ news' = news
        /\ Staging!RemoveId(live', news', e)
    BY <1>1, <1>4
  <2>5. StagingTypes' /\ RowsInv' /\ Staging!OverlapRight'
    BY <1>2, <2>2, <2>3, <2>4, RemoveKeeps
  <2> QED
    BY <1>3, <2>5 DEF StagingInv
<1> QED
  BY <1>6, <1>7 DEF Staging!RemoveId

LEMMA CloseKeeps ==
  ASSUME StagingInv, Staging!Close
  PROVE  StagingInv'
<1>1. shown' = FALSE /\ listed' = <<>> /\ UNCHANGED <<born, live, news, overlap, strayed>>
  BY DEF Staging!Close
<1>2. listed' \in Seq(born') /\ Len(listed') <= BubbleMaxCount
  BY <1>1, StagingConstants
<1> QED
  BY <1>1, <1>2
     DEF StagingInv, StagingTypes, NewsInv, RowsInv, Staging!OverlapRight, Staging!Settled

LEMMA OpenKeeps ==
  ASSUME StagingInv, Staging!Open
  PROVE  StagingInv'
<1>1. /\ shown' = TRUE /\ listed' = Staging!Opened(live)
      /\ overlap' = IF live = {} THEN overlap
                    ELSE Staging!Overlap(Len(Staging!Fetched(live)), listed')
      /\ strayed' = Staging!Ahead(news) /\ UNCHANGED <<born, live, news>>
  BY DEF Staging!Open
<1>2. live \subseteq born /\ live \subseteq Notification /\ IsFiniteSet(live)
  BY FS_Subset DEF StagingInv, StagingTypes
<1> DEFINE f == Staging!Fetched(live)
           young == Reverse(f)
           n == Staging!Least(Len(young), BubbleMaxCount)
<1>3. /\ f \in Seq(live) /\ IsInjective(f) /\ ToSet(f) \subseteq live /\ Cardinality(live) \in Nat
      /\ Len(f) = Staging!Least(Cardinality(live), BubbleMaxCount + OverlayMaxCount + 1)
      /\ Len(f) = Cardinality(live) => ToSet(f) = live
  BY <1>2, FetchedIs
<1>4. listed' = SubSeq(young, 1, n)
  BY <1>1, StagingLists DEF Staging!Opened
<1> HIDE DEF f
<1>5. young \in Seq(live) /\ Len(young) = Len(f) /\ ToSet(young) = ToSet(f) /\ IsInjective(young)
  BY <1>3, ReverseItems
<1> HIDE DEF young
<1>6. n \in 0..Len(young) /\ n <= BubbleMaxCount /\ (n = BubbleMaxCount \/ n = Len(young))
  BY <1>5, StagingConstants DEF Staging!Least
<1>7. n = BubbleMaxCount \/ (n = Len(young) /\ Len(f) = Cardinality(live))
  BY <1>3, <1>5, StagingConstants DEF Staging!Least
<1> HIDE DEF n
<1>8. /\ listed' \in Seq(live) /\ Len(listed') = n /\ ToSet(listed') \subseteq ToSet(young)
      /\ n = Len(young) => listed' = young
      /\ IsInjective(listed')
  BY <1>4, <1>5, <1>6, FirstItems
<1>9. StagingTypes'
  <2>1. Len(f) \in Nat
    BY <1>3
  <2>2. Staging!Overlap(Len(f), listed') \in 0..(BubbleMaxCount + OverlayMaxCount)
    BY <1>8, <2>1, OverlapTypes
  <2>3. overlap' \in 0..(BubbleMaxCount + OverlayMaxCount)
    BY <1>1, <2>2 DEF StagingInv, StagingTypes, f
  <2>4. listed' \in Seq(born') /\ Len(listed') <= BubbleMaxCount
    BY <1>1, <1>2, <1>6, <1>8
  <2>5. strayed' \in BOOLEAN
    BY <1>1 DEF Staging!Ahead
  <2> QED
    BY <1>1, <2>3, <2>4, <2>5 DEF StagingInv, StagingTypes
<1>10. NewsInv'
  BY <1>1 DEF StagingInv, NewsInv
<1>11. RowsInv'
  <2> SUFFICES ASSUME ~strayed' PROVE RowsInv'
    BY DEF RowsInv
  <2>1. \A j \in DOMAIN news : \A g : news[j] # <<"received", g>>
    BY <1>1 DEF Staging!Ahead
  <2>2. ClosedLater' /\ \A g : <<"received", g>> \notin ToSet(news')
    BY <1>1, <2>1 DEF ClosedLater, ToSet
  <2>3. \A g \in ToSet(listed') : g \in live'
    BY <1>1, <1>3, <1>5, <1>8
  <2>4. Len(listed') = BubbleMaxCount \/ \A g \in live' : g \in ToSet(listed')
    BY <1>1, <1>3, <1>5, <1>7, <1>8
  <2> QED
    BY <1>8, <2>2, <2>3, <2>4 DEF RowsInv
<1>12. Staging!OverlapRight'
  <2>1. CASE live = {}
    BY <1>1, <2>1 DEF Staging!OverlapRight
  <2>2. CASE live # {}
    <3>1. overlap' = Staging!Overlap(Len(Staging!Fetched(live')), listed')
      BY <1>1, <2>2
    <3> QED
      BY <1>9, <1>11, <3>1, CountedRight
  <2> QED
    BY <2>1, <2>2
<1> QED
  BY <1>9, <1>10, <1>11, <1>12 DEF StagingInv

\* Of what is heard, the rest of the news and the indices.
LEMMA NewsHeard ==
  ASSUME StagingInv, news # <<>>, news' = Tail(news)
  PROVE  /\ news' \in Seq({"received", "closed"} \X born)
         /\ Head(news) \in {"received", "closed"} \X born
         /\ ToSet(news) = ToSet(news') \cup {Head(news)}
         /\ IsInjective(news') /\ Head(news) \notin ToSet(news')
         /\ Len(news) \in Nat /\ DOMAIN news = 1..Len(news) /\ DOMAIN news' = 1..Len(news) - 1
         /\ Head(news) = news[1] /\ 1 \in DOMAIN news
         /\ \A i \in 1..Len(news) - 1 : news'[i] = news[i + 1]
<1> DEFINE M == {"received", "closed"} \X born
<1>1. news \in Seq(M) /\ IsInjective(news)
  BY DEF StagingInv, StagingTypes, NewsInv
<1> HIDE DEF M
<1>2. /\ Head(news) \in M /\ Tail(news) \in Seq(M) /\ Len(Tail(news)) = Len(news) - 1
      /\ \A i \in 1..Len(news) - 1 : Tail(news)[i] = news[i + 1]
      /\ ToSet(news) = ToSet(Tail(news)) \cup {Head(news)}
      /\ IsInjective(Tail(news)) /\ Head(news) \notin ToSet(Tail(news))
  BY <1>1, TailItems
<1>3. Len(news) \in Nat /\ Len(news) > 0 /\ DOMAIN news = 1..Len(news) /\ Head(news) = news[1]
  BY <1>1
<1>4. DOMAIN news' = 1..Len(news) - 1 /\ 1 \in DOMAIN news
  BY <1>2, <1>3
<1> QED
  BY <1>2, <1>3, <1>4 DEF M

\* Hearing keeps the order of what was not heard.
LEMMA HearingKeepsOrder ==
  ASSUME StagingInv, ClosedLater, news # <<>>, news' = Tail(news), UNCHANGED <<born, live>>
  PROVE  ClosedLater'
<1>1. /\ Len(news) \in Nat /\ DOMAIN news = 1..Len(news) /\ DOMAIN news' = 1..Len(news) - 1
      /\ \A i \in 1..Len(news) - 1 : news'[i] = news[i + 1]
  BY NewsHeard
<1> SUFFICES ASSUME NEW i \in DOMAIN news', NEW f \in born \ live, news'[i] = <<"received", f>>
             PROVE  \E j \in DOMAIN news' : i < j /\ news'[j] = <<"closed", f>>
  BY DEF ClosedLater
<1>2. i + 1 \in DOMAIN news /\ news[i + 1] = <<"received", f>>
  BY <1>1
<1>3. PICK j \in DOMAIN news : i + 1 < j /\ news[j] = <<"closed", f>>
  BY <1>2 DEF ClosedLater
<1>4. j - 1 \in DOMAIN news' /\ i < j - 1 /\ (j - 1) + 1 = j
  BY <1>1, <1>3
<1>5. news'[j - 1] = <<"closed", f>>
  BY <1>1, <1>3, <1>4
<1> QED
  BY <1>4, <1>5

\* push of a notification that is live and not among the rows.
LEMMA PushKeeps ==
  ASSUME StagingInv, shown, NEW e \in live, news # <<>>, Head(news) = <<"received", e>>,
         news' = Tail(news), Staging!Push(e), UNCHANGED <<born, live, shown>>
  PROVE  StagingInv'
<1>0. /\ news' \in Seq({"received", "closed"} \X born)
      /\ ToSet(news) = ToSet(news') \cup {<<"received", e>>}
      /\ IsInjective(news') /\ <<"received", e>> \notin ToSet(news')
  BY NewsHeard
<1>1. live \subseteq born /\ born \subseteq Notification /\ IsFiniteSet(live)
      /\ listed \in Seq(born) /\ Len(listed) <= BubbleMaxCount /\ Len(listed) \in Nat
  BY FS_Subset DEF StagingInv, StagingTypes
<1> DEFINE more == <<e>> \o listed
           n == Staging!Least(Len(listed) + 1, BubbleMaxCount)
<1>2. /\ listed' = SubSeq(more, 1, n)
      /\ overlap' = Staging!Overlap(Cardinality(live), listed') /\ strayed' = strayed
  BY StagingLists DEF Staging!Push
<1>3. /\ more \in Seq(born) /\ Len(more) = Len(listed) + 1 /\ ToSet(more) = ToSet(listed) \cup {e}
      /\ IsInjective(listed) /\ e \notin ToSet(listed) => IsInjective(more)
  <2>1. more = InsertAt(listed, 1, e)
    <3>1. SubSeq(listed, 1, 1 - 1) = <<>> /\ SubSeq(listed, 1, Len(listed)) = listed
      BY <1>1
    <3>2. InsertAt(listed, 1, e) = <<>> \o <<e>> \o listed
      BY <3>1 DEF InsertAt
    <3>3. <<>> \o <<e>> = <<e>>
      OBVIOUS
    <3> QED
      BY <3>2, <3>3
  <2>2. e \in born /\ 1 \in 1..Len(listed) + 1
    BY <1>1
  <2> QED
    <3>1. /\ InsertAt(listed, 1, e) \in Seq(born)
          /\ Len(InsertAt(listed, 1, e)) = Len(listed) + 1
          /\ ToSet(InsertAt(listed, 1, e)) = ToSet(listed) \cup {e}
          /\ IsInjective(listed) /\ e \notin ToSet(listed) => IsInjective(InsertAt(listed, 1, e))
      BY <1>1, <2>2, InsertAtItems
    <3> HIDE DEF more
    <3> QED
      BY <2>1, <3>1, Zenon
<1> HIDE DEF more
<1>4. n \in 0..Len(more) /\ n <= BubbleMaxCount /\ (n = BubbleMaxCount \/ n = Len(more))
  BY <1>1, <1>3, StagingConstants DEF Staging!Least
<1> HIDE DEF n
<1>5. /\ listed' \in Seq(born) /\ Len(listed') = n /\ ToSet(listed') \subseteq ToSet(more)
      /\ n = Len(more) => listed' = more
      /\ IsInjective(more) => IsInjective(listed')
  BY <1>2, <1>3, <1>4, FirstItems
<1>6. StagingTypes'
  <2>1. Cardinality(live) \in Nat
    BY <1>1, FS_CardinalityType
  <2>2. overlap' \in 0..(BubbleMaxCount + OverlayMaxCount)
    BY <1>2, <1>5, <2>1, OverlapTypes
  <2> QED
    BY <1>0, <1>2, <1>4, <1>5, <2>2 DEF StagingInv, StagingTypes
<1>7. NewsInv'
  BY <1>0 DEF StagingInv, NewsInv
<1>8. RowsInv'
  <2> SUFFICES ASSUME ~strayed PROVE RowsInv'
    BY <1>2 DEF RowsInv
  <2>1. /\ IsInjective(listed) /\ e \notin ToSet(listed)
        /\ \A f \in ToSet(listed) : /\ <<"received", f>> \notin ToSet(news)
                                    /\ f \in live \/ <<"closed", f>> \in ToSet(news)
        /\ \/ Len(listed) = BubbleMaxCount
           \/ \A f \in live : f \in ToSet(listed) \/ <<"received", f>> \in ToSet(news)
        /\ ClosedLater
    BY <1>0 DEF StagingInv, RowsInv
  <2>2. ClosedLater'
    BY <2>1, HearingKeepsOrder
  <2>3. IsInjective(listed')
    BY <1>3, <1>5, <2>1
  <2>4. \A f \in ToSet(listed') : f = e \/ f \in ToSet(listed)
    BY <1>3, <1>5
  <2>5. \A f \in ToSet(listed') : /\ <<"received", f>> \notin ToSet(news')
                                  /\ f \in live \/ <<"closed", f>> \in ToSet(news')
    BY <1>0, <2>1, <2>4
  <2>6. \/ Len(listed') = BubbleMaxCount
        \/ \A f \in live : f \in ToSet(listed') \/ <<"received", f>> \in ToSet(news')
    <3>1. CASE n = BubbleMaxCount
      BY <1>5, <3>1
    <3>2. CASE n = Len(more) /\ n # BubbleMaxCount
      <4>1. ToSet(listed') = ToSet(listed) \cup {e} /\ Len(listed) # BubbleMaxCount
        <5>1. Len(listed) + 1 <= BubbleMaxCount
          BY <1>3, <1>4, <3>2
        <5>2. Len(listed) # BubbleMaxCount
          BY <1>1, <5>1, StagingConstants
        <5> QED
          BY <1>3, <1>5, <3>2, <5>2
      <4> QED
        BY <1>0, <2>1, <4>1
    <3> QED
      BY <1>4, <3>1, <3>2
  <2> QED
    BY <2>2, <2>3, <2>5, <2>6 DEF RowsInv
<1>9. Staging!OverlapRight'
  <2>1. overlap' = Staging!Overlap(Cardinality(live'), listed')
    BY <1>2
  <2> QED
    BY <1>6, <1>8, <2>1, CountedRight
<1> QED
  BY <1>6, <1>7, <1>8, <1>9 DEF StagingInv

LEMMA HearKeeps ==
  ASSUME StagingInv, Staging!Hear
  PROVE  StagingInv'
<1>1. news # <<>> /\ news' = Tail(news) /\ UNCHANGED <<born, live, shown>>
  BY DEF Staging!Hear
<1>2. /\ news' \in Seq({"received", "closed"} \X born)
      /\ Head(news) \in {"received", "closed"} \X born
      /\ ToSet(news) = ToSet(news') \cup {Head(news)}
      /\ IsInjective(news') /\ Head(news) \notin ToSet(news')
      /\ Len(news) \in Nat /\ DOMAIN news = 1..Len(news) /\ DOMAIN news' = 1..Len(news) - 1
      /\ Head(news) = news[1] /\ 1 \in DOMAIN news
      /\ \A i \in 1..Len(news) - 1 : news'[i] = news[i + 1]
  BY <1>1, NewsHeard
<1>3. NewsInv'
  BY <1>1, <1>2 DEF StagingInv, NewsInv
<1>4. PICK what \in {"received", "closed"}, e \in born : Head(news) = <<what, e>>
  BY <1>2
<1>5. /\ Head(news)[1] = what /\ Head(news)[2] = e
  BY <1>4
<1>6. \/ (~shown \/ (what = "received" /\ e \notin live)) /\ UNCHANGED <<listed, overlap, strayed>>
      \/ shown /\ what = "received" /\ e \in live /\ Staging!Push(e)
      \/ shown /\ what = "closed" /\ Staging!RemoveId(live, news', e)
  BY <1>1, <1>4, <1>5 DEF Staging!Hear
<1>7. CASE shown /\ what = "received" /\ e \in live /\ Staging!Push(e)
  BY <1>1, <1>4, <1>7, PushKeeps
<1>8. CASE (~shown \/ (what = "received" /\ e \notin live)) /\ UNCHANGED <<listed, overlap, strayed>>
  <2>1. StagingTypes'
    BY <1>1, <1>2, <1>8 DEF StagingInv, StagingTypes
  <2>2. CASE ~shown \/ strayed
    BY <1>1, <1>3, <1>8, <2>1, <2>2
       DEF StagingInv, RowsInv, Staging!OverlapRight, Staging!Settled
  <2>3. CASE shown /\ ~strayed
    <3>1. what = "received" /\ e \in born \ live
      BY <1>8, <2>3
    <3>2. ClosedLater /\ ClosedLater'
      BY <1>1, <2>3, HearingKeepsOrder DEF StagingInv, RowsInv
    <3>3. RowsInv'
      <4>1. \A f \in live : <<"received", f>> \in ToSet(news) => <<"received", f>> \in ToSet(news')
        BY <1>2, <1>4, <3>1
      <4>2. \A f : <<"closed", f>> \in ToSet(news) => <<"closed", f>> \in ToSet(news')
        BY <1>2, <1>4, <3>1
      <4> QED
        BY <1>1, <1>2, <1>8, <2>3, <3>2, <4>1, <4>2 DEF StagingInv, RowsInv
    <3>4. news' # <<>>
      <4>1. news[1] = <<"received", e>>
        BY <1>2, <1>4, <3>1
      <4>2. PICK j \in DOMAIN news : 1 < j /\ news[j] = <<"closed", e>>
        BY <1>2, <3>1, <3>2, <4>1 DEF ClosedLater
      <4>3. 1 \in DOMAIN news'
        BY <1>2, <4>2
      <4> QED
        BY <4>3
    <3> QED
      BY <1>3, <2>1, <3>3, <3>4 DEF StagingInv, Staging!OverlapRight, Staging!Settled
  <2> QED
    BY <2>2, <2>3 DEF StagingInv, StagingTypes
<1>9. CASE shown /\ what = "closed" /\ Staging!RemoveId(live, news', e)
  <2>1. e \notin live
    BY <1>2, <1>4, <1>9 DEF StagingInv, NewsInv
  <2>2. CASE strayed
    <3>1. strayed'
      BY <1>9, <2>2 DEF Staging!RemoveId
    <3>2. RowsInv' /\ Staging!OverlapRight'
      BY <3>1 DEF RowsInv, Staging!OverlapRight, Staging!Settled
    <3>3. StagingTypes'
      <4>1. live \subseteq born /\ born \subseteq Notification /\ IsFiniteSet(live)
        BY FS_Subset DEF StagingInv, StagingTypes
      <4>2. listed \in Seq(born) /\ Len(listed) <= BubbleMaxCount
        BY DEF StagingInv, StagingTypes
      <4>3. listed' \in Seq(born) /\ Len(listed') <= Len(listed)
        BY <1>9, <4>1, <4>2, WithoutIs DEF Staging!RemoveId
      <4>4. Len(Staging!Fetched(live)) \in Nat
        <5>1. Staging!Fetched(live) \in Seq(live)
          BY <4>1, FetchedIs
        <5> QED
          BY <5>1
      <4>5. overlap' \in 0..(BubbleMaxCount + OverlayMaxCount)
        BY <1>9, <4>3, <4>4, OverlapTypes DEF Staging!RemoveId
      <4>6. Len(listed') <= BubbleMaxCount
        BY <4>2, <4>3, StagingConstants
      <4> QED
        BY <1>1, <1>2, <1>9, <3>1, <4>1, <4>3, <4>5, <4>6 DEF StagingInv, StagingTypes
    <3> QED
      BY <1>3, <3>2, <3>3 DEF StagingInv
  <2>3. CASE ~strayed
    <3>1. ClosedLater'
      BY <1>1, <1>9, <2>3, HearingKeepsOrder DEF StagingInv, RowsInv
    <3>2. /\ e \notin live' /\ live' \subseteq live /\ live \subseteq live' \cup {e}
          /\ \A m \in ToSet(news) : m = <<"closed", e>> \/ m \in ToSet(news')
          /\ ToSet(news') \subseteq ToSet(news)
          /\ Staging!RemoveId(live', news', e)
      BY <1>1, <1>2, <1>4, <1>9, <2>1
    <3>3. StagingTypes' /\ RowsInv' /\ Staging!OverlapRight'
      BY <1>1, <1>2, <1>9, <3>1, <3>2, RemoveKeeps
    <3> QED
      BY <1>3, <3>3 DEF StagingInv
  <2> QED
    BY <2>2, <2>3
<1> QED
  BY <1>6, <1>7, <1>8, <1>9

-----------------------------------------------------------------------------
LEMMA StagingInitInv == Staging!Init => StagingInv
<1> SUFFICES ASSUME Staging!Init PROVE StagingInv
  OBVIOUS
<1>1. /\ born = {} /\ live = {} /\ news = <<>>
      /\ shown = FALSE /\ listed = <<>> /\ overlap = 0 /\ strayed = FALSE
  BY DEF Staging!Init
<1>2. IsFiniteSet(born)
  BY <1>1, FS_EmptySet
<1>3. /\ Len(listed) <= BubbleMaxCount /\ overlap \in 0..(BubbleMaxCount + OverlayMaxCount)
      /\ news \in Seq({"received", "closed"} \X born) /\ listed \in Seq(born)
  BY <1>1, StagingConstants
<1>4. IsInjective(news)
  BY <1>1 DEF IsInjective
<1> QED
  BY <1>1, <1>2, <1>3, <1>4
     DEF StagingInv, StagingTypes, NewsInv, RowsInv, Staging!OverlapRight, Staging!Settled

LEMMA StagingStutter ==
  StagingInv /\ UNCHANGED Staging!vars => StagingInv'
BY DEF StagingInv, StagingTypes, NewsInv, RowsInv, ClosedLater, Staging!OverlapRight,
       Staging!Settled, Staging!vars

LEMMA StagingNextInv == StagingInv /\ [Staging!Next]_(Staging!vars) => StagingInv'
<1> SUFFICES ASSUME StagingInv, [Staging!Next]_(Staging!vars) PROVE StagingInv'
  OBVIOUS
<1>1. ASSUME NEW e \in Notification, Staging!Notify(e) \/ Staging!Expire(e) \/ Staging!CloseNotification(e)
      PROVE  StagingInv'
  BY <1>1, NotifyKeeps, ExpireKeeps, CloseNotificationKeeps
<1>2. ASSUME NEW e \in Notification, NEW f \in Notification, Staging!Replace(e, f) PROVE StagingInv'
  BY <1>2, ReplaceKeeps
<1>3. CASE Staging!Hear
  BY <1>3, HearKeeps
<1>4. CASE Staging!Open
  BY <1>4, OpenKeeps
<1>5. CASE Staging!Close
  BY <1>5, CloseKeeps
<1>6. ASSUME NEW i \in 1..BubbleMaxCount, Staging!CloseRow(i) PROVE StagingInv'
  BY <1>6, CloseRowKeeps
<1>7. CASE UNCHANGED Staging!vars
  BY <1>7, StagingStutter
<1> QED
  BY <1>1, <1>2, <1>3, <1>4, <1>5, <1>6, <1>7 DEF Staging!Next

LEMMA StagingInvSound == StagingInv => Staging!StagingSound
<1> SUFFICES ASSUME StagingInv PROVE Staging!StagingSound
  OBVIOUS
<1>1. Staging!TypeOK
  <2>1. \A i \in DOMAIN news : news[i] \in {"received", "closed"} \X born
    BY DEF StagingInv, StagingTypes
  <2>2. ToSet(listed) \subseteq born
    BY DEF StagingInv, StagingTypes, ToSet
  <2> QED
    BY <2>1, <2>2, StagingLists DEF StagingInv, StagingTypes, Staging!TypeOK
<1>2. Staging!RowsLive
  <2> SUFFICES ASSUME shown, news = <<>>, ~strayed
               PROVE  /\ ToSet(listed) \subseteq live /\ IsInjective(listed)
                      /\ Len(listed) = Staging!Least(Cardinality(live), BubbleMaxCount)
    BY StagingLists DEF Staging!RowsLive, Staging!Settled
  <2> QED
    BY SettledRows DEF StagingInv, RowsInv
<1> QED
  BY <1>1, <1>2 DEF StagingInv, Staging!StagingSound

-----------------------------------------------------------------------------
(* The previews on X11.                                                       *)

PreviewTypes ==
  /\ open \subseteq Window /\ pointer \in Item \cup {"preview", "away"}
  /\ filter \in Item \cup {None} /\ count \in 0..MaxCount
  /\ previewWaiting \in BOOLEAN /\ made \in BOOLEAN /\ entered \in BOOLEAN
  /\ previewVisible \in BOOLEAN /\ hideTimer \in BOOLEAN /\ check \in BOOLEAN
  /\ later \in BOOLEAN /\ leaked \in BOOLEAN

\* What shows listens to its rows and has some, or is about to look; screenshots are of
\* rows only.
ShowInv ==
  /\ previewVisible => made /\ (Preview!Rows # {} \/ check)
  /\ ~previewVisible => filter = None
  /\ cache \subseteq Preview!Rows

\* Requests that are not taken back are those of the item under the pointer, or leaked;
\* once none is left and the pointer is not in the preview, the timer runs.
CountInv ==
  /\ previewWaiting => pointer \in Item
  /\ entered <=> pointer = "preview"
  /\ ~made => count = 0
  /\ pointer \notin Item /\ ~leaked => count = 0
  /\ pointer \in Item /\ ~leaked => count \in {0, 1} /\ (previewWaiting => count = 0)
  /\ previewVisible /\ count = 0 /\ ~entered => hideTimer

PreviewInv == PreviewTypes /\ ShowInv /\ CountInv

\* The empty filter has no rows.
LEMMA NoneHasNoRows == PreviewTypes => Preview!RowsOf(None) = {}
BY PartsAssumption DEF PreviewTypes, Preview!RowsOf

\* One request is taken back.
LEMMA TakeBackCounts ==
  ASSUME PreviewInv, Preview!TakeBack
  PROVE  /\ count' \in 0..MaxCount /\ hideTimer' \in BOOLEAN
         /\ count \in {0, 1} => count' = 0
         /\ made => hideTimer'
         /\ ~made => count' = 0 /\ hideTimer' = hideTimer
<1>1. count \in 0..MaxCount /\ MaxCount \in Nat /\ made \in BOOLEAN
  BY PartsAssumption DEF PreviewInv, PreviewTypes
<1>2. CASE made
  <2>1. count' = (IF count = 0 THEN 0 ELSE count - 1) /\ hideTimer' = TRUE
    BY <1>2 DEF Preview!TakeBack
  <2>2. count' \in 0..MaxCount /\ (count \in {0, 1} => count' = 0)
    BY <1>1, <2>1
  <2> QED
    BY <1>2, <2>1, <2>2
<1>3. CASE ~made
  <2>1. UNCHANGED <<count, hideTimer>> /\ count = 0
    BY <1>3 DEF Preview!TakeBack, PreviewInv, CountInv
  <2>2. hideTimer \in BOOLEAN
    BY DEF PreviewInv, PreviewTypes
  <2> QED
    BY <1>1, <1>3, <2>1, <2>2
<1> QED
  BY <1>2, <1>3

\* The rows go by the windows and the filter only.
LEMMA SameRows == UNCHANGED <<open, filter>> => Preview!Rows' = Preview!Rows
BY DEF Preview!Rows, Preview!RowsOf

\* An invisible container has no rows.
LEMMA HiddenHasNoRows == PreviewInv /\ ~previewVisible => Preview!Rows = {} /\ cache = {}
BY NoneHasNoRows DEF PreviewInv, ShowInv, Preview!Rows

\* What the pointer does stays, and the container changes: enough that it shows rightly.
LEMMA ContainerKeeps ==
  ASSUME PreviewInv, ShowInv', check' \in BOOLEAN, later' \in BOOLEAN, open' \subseteq Window,
         filter' = filter \/ filter' = None, previewVisible' \in BOOLEAN,
         previewVisible' => previewVisible,
         UNCHANGED <<pointer, previewWaiting, made, count, entered, hideTimer, leaked>>
  PROVE  PreviewInv'
<1>1. PreviewTypes'
  BY DEF PreviewInv, PreviewTypes
<1>2. CountInv'
  BY DEF PreviewInv, CountInv
<1> QED
  BY <1>1, <1>2 DEF PreviewInv

\* A container that hides has no filter, no rows and no screenshots.
LEMMA HideKeeps ==
  ASSUME PreviewInv, NEW shots, shots \subseteq Preview!Rows, NEW posted \in BOOLEAN,
         Preview!Hide(shots, posted), UNCHANGED <<open, made>>
  PROVE  /\ ShowInv' /\ filter' = None /\ cache' = {} /\ previewVisible' = FALSE
         /\ check' \in BOOLEAN
<1>1. /\ previewVisible' = FALSE
      /\ filter' = IF previewVisible THEN None ELSE filter
      /\ cache' = IF previewVisible /\ Preview!Rows # {} THEN {} ELSE shots
      /\ check' = (posted \/ (previewVisible /\ Preview!Rows # {}))
  BY DEF Preview!Hide
<1>2. filter' = None
  BY <1>1 DEF PreviewInv, ShowInv
<1>4. cache' = {}
  BY <1>1, HiddenHasNoRows
<1>5. ShowInv'
  BY <1>1, <1>2, <1>4 DEF ShowInv
<1>6. check' \in BOOLEAN
  BY <1>1 DEF PreviewInv, PreviewTypes
<1> QED
  BY <1>1, <1>2, <1>4, <1>5, <1>6

\* The pointer leaves where it is and enters another item, the preview or neither.
LEMMA PointerToKeeps ==
  ASSUME PreviewInv, NEW p \in Item \cup {"preview", "away"}, Preview!PointerTo(p)
  PROVE  PreviewInv'
<1>1. /\ pointer # p /\ pointer' = p
      /\ UNCHANGED <<open, made, filter, previewVisible, cache, check, later>>
  BY DEF Preview!PointerTo, Preview!LeaveTo, Preview!Enter
<1>2. ShowInv'
  BY <1>1, SameRows DEF PreviewInv, ShowInv
<1>3. /\ count \in 0..MaxCount /\ MaxCount \in Nat
      /\ "preview" \notin Item /\ "away" \notin Item
  BY PartsAssumption DEF PreviewInv, PreviewTypes
<1>4. PreviewTypes /\ CountInv
  BY DEF PreviewInv
<1>5. CASE pointer = "away"
  <2>1. /\ UNCHANGED <<count, hideTimer, leaked>>
        /\ previewWaiting' = (p \in Item /\ Preview!RowsOf(p) # {})
        /\ entered' = (p = "preview")
    BY <1>5 DEF Preview!PointerTo, Preview!LeaveTo, Preview!Enter
  <2>2. PreviewTypes'
    BY <1>1, <1>4, <2>1 DEF PreviewTypes
  <2>3. ~entered
    BY <1>4, <1>5 DEF CountInv
  <2>4. ~leaked => count = 0
    BY <1>3, <1>4, <1>5 DEF CountInv
  <2>5. CountInv'
    BY <1>1, <1>3, <1>4, <2>1, <2>3, <2>4 DEF CountInv
  <2> QED
    BY <1>2, <2>2, <2>5 DEF PreviewInv
<1>6. CASE pointer = "preview"
  <2>1. /\ p = "away" /\ entered' = FALSE /\ hideTimer' = TRUE
        /\ UNCHANGED <<previewWaiting, count, leaked>>
    BY <1>3, <1>6 DEF Preview!PointerTo, Preview!LeaveTo, Preview!Enter, Preview!LeavePreview
  <2>2. PreviewTypes'
    BY <1>1, <1>4, <2>1 DEF PreviewTypes
  <2>3. ~previewWaiting
    BY <1>3, <1>4, <1>6 DEF CountInv
  <2>4. CountInv'
    BY <1>1, <1>3, <1>4, <1>6, <2>1, <2>3 DEF CountInv
  <2> QED
    BY <1>2, <2>2, <2>4 DEF PreviewInv
<1>7. CASE pointer \in Item
  <2>1. p = "away" /\ Preview!LeaveItem(pointer)
    BY <1>3, <1>7 DEF Preview!PointerTo, Preview!LeaveTo, Preview!Enter
  <2>2. /\ previewWaiting' = FALSE /\ UNCHANGED entered
        /\ leaked' = (count' > 0 /\ (leaked \/ Preview!RowsOf(pointer) = {}))
    BY <2>1 DEF Preview!LeaveItem
  <2>3. ~entered
    BY <1>3, <1>4, <1>7 DEF CountInv
  <2>4. CASE Preview!RowsOf(pointer) = {}
    <3>1. UNCHANGED <<count, hideTimer>>
      BY <2>1, <2>4 DEF Preview!LeaveItem
    <3>2. PreviewTypes'
      BY <1>1, <1>4, <2>1, <2>2, <3>1 DEF PreviewTypes
    <3>3. ~leaked' => count' = 0
      <4>1. count' > 0 \/ count' = 0
        BY <1>3, <3>1
      <4> QED
        BY <2>2, <2>4, <4>1, Zenon
    <3>4. CountInv'
      BY <1>1, <1>3, <1>4, <2>1, <2>2, <2>3, <3>1, <3>3 DEF CountInv
    <3> QED
      BY <1>2, <3>2, <3>4 DEF PreviewInv
  <2>5. CASE Preview!RowsOf(pointer) # {}
    <3>1. Preview!TakeBack
      BY <2>1, <2>5 DEF Preview!LeaveItem
    <3>2. /\ count' \in 0..MaxCount /\ hideTimer' \in BOOLEAN
          /\ count \in {0, 1} => count' = 0
          /\ made => hideTimer'
          /\ ~made => count' = 0 /\ hideTimer' = hideTimer
      BY <3>1, TakeBackCounts
    <3>3. PreviewTypes'
      BY <1>1, <1>4, <2>1, <2>2, <3>2 DEF PreviewTypes
    <3>4. ~leaked => count' = 0
      BY <1>4, <1>7, <3>2 DEF CountInv
    <3>5. ~leaked' => count' = 0
      <4>1. count' > 0 \/ count' = 0
        BY <1>3, <3>2
      <4> QED
        BY <2>2, <3>4, <4>1, Zenon
    <3>6. previewVisible => hideTimer'
      BY <3>2 DEF PreviewInv, ShowInv
    <3>7. CountInv'
      BY <1>1, <1>3, <2>1, <2>2, <2>3, <3>2, <3>5, <3>6 DEF CountInv
    <3> QED
      BY <1>2, <3>3, <3>7 DEF PreviewInv
  <2> QED
    BY <2>4, <2>5
<1> QED
  BY <1>4, <1>5, <1>6, <1>7 DEF PreviewTypes

\* The item is pressed.
LEMMA PressKeeps ==
  ASSUME PreviewInv, Preview!Press
  PROVE  PreviewInv'
<1>1. /\ pointer \in Item /\ previewWaiting' = FALSE /\ leaked' = (leaked /\ count' > 0)
      /\ UNCHANGED <<open, pointer, made, filter, entered, previewVisible, cache, check, later>>
  BY DEF Preview!Press
<1>2. ShowInv'
  BY <1>1, SameRows DEF PreviewInv, ShowInv
<1>3. count \in 0..MaxCount /\ MaxCount \in Nat
  BY PartsAssumption DEF PreviewInv, PreviewTypes
<1>4. PreviewTypes /\ CountInv
  BY DEF PreviewInv
<1>5. /\ count' \in 0..MaxCount /\ hideTimer' \in BOOLEAN
      /\ ~leaked => count' = 0
      /\ ~made => count' = 0
      /\ previewVisible /\ count' = 0 /\ ~entered => hideTimer'
  <2>1. CASE previewWaiting
    BY <1>1, <1>3, <1>4, <2>1 DEF Preview!Press, PreviewTypes, CountInv
  <2>2. CASE ~previewWaiting
    <3>1. Preview!TakeBack
      BY <2>2 DEF Preview!Press
    <3>2. ~leaked => count \in {0, 1}
      BY <1>1, <1>4 DEF CountInv
    <3>3. previewVisible => made
      BY DEF PreviewInv, ShowInv
    <3> QED
      BY <3>1, <3>2, <3>3, TakeBackCounts
  <2> QED
    BY <2>1, <2>2
<1>6. PreviewTypes'
  BY <1>1, <1>4, <1>5 DEF PreviewTypes
<1>7. ~leaked' => count' = 0
  <2>1. count' > 0 \/ count' = 0
    BY <1>3, <1>5
  <2> QED
    BY <1>1, <1>5, <2>1, Zenon
<1>8. CountInv'
  BY <1>1, <1>4, <1>5, <1>7 DEF CountInv
<1> QED
  BY <1>2, <1>6, <1>8 DEF PreviewInv

\* The rows change and the container listens: it is about to look if they are no more.
LEMMA RowsChangeKeeps ==
  ASSUME PreviewInv, NEW new, Preview!RowsChange(Preview!Rows, new), Preview!Rows' = new,
         UNCHANGED <<made, filter, previewVisible>>
  PROVE  ShowInv' /\ check' \in BOOLEAN
<1>1. /\ cache' = IF made /\ Preview!Rows \ new # {} THEN {} ELSE cache
      /\ check' = (check \/ (made /\ Preview!Rows # new))
  BY DEF Preview!RowsChange
<1>2. check' \in BOOLEAN
  BY <1>1 DEF PreviewInv, PreviewTypes
<1>3. previewVisible => made /\ (Preview!Rows # {} \/ check)
  BY DEF PreviewInv, ShowInv
<1>4. previewVisible => made /\ (new # {} \/ check')
  BY <1>1, <1>3, Zenon
<1>5. cache' \subseteq new
  <2>1. cache \subseteq Preview!Rows
    BY DEF PreviewInv, ShowInv
  <2>2. ~made => cache = {}
    BY <1>3, HiddenHasNoRows
  <2> QED
    BY <1>1, <2>1, <2>2
<1> QED
  BY <1>2, <1>4, <1>5 DEF PreviewInv, ShowInv

\* The hovered item's timer fires and asks for its preview.
LEMMA PreviewTimeoutKeeps ==
  ASSUME PreviewInv, Preview!PreviewTimeout
  PROVE  PreviewInv'
<1>1. /\ previewWaiting /\ previewWaiting' = FALSE /\ count < MaxCount
      /\ UNCHANGED <<open, pointer, entered, later, leaked>>
  BY DEF Preview!PreviewTimeout
<1>2. /\ pointer \in Item
      /\ ~leaked => count = 0
  BY <1>1 DEF PreviewInv, CountInv
<1>3. count \in 0..MaxCount /\ MaxCount \in Nat
  BY PartsAssumption DEF PreviewInv, PreviewTypes
<1>4. PreviewTypes /\ ShowInv /\ CountInv
  BY DEF PreviewInv
<1>5. CASE Preview!RowsOf(pointer) = {}
  <2>1. UNCHANGED <<made, filter, count, previewVisible, hideTimer, cache, check>>
    BY <1>5 DEF Preview!PreviewTimeout
  <2>2. PreviewTypes'
    BY <1>1, <1>4, <2>1 DEF PreviewTypes
  <2>3. ShowInv'
    BY <1>1, <1>4, <2>1, SameRows DEF ShowInv
  <2>4. CountInv'
    BY <1>1, <1>4, <2>1 DEF CountInv
  <2> QED
    BY <2>2, <2>3, <2>4 DEF PreviewInv
<1>6. CASE Preview!RowsOf(pointer) # {}
  <2>1. Preview!Request(pointer)
    BY <1>6 DEF Preview!PreviewTimeout
  <2>2. filter' = IF pointer \in Nameless THEN None ELSE pointer
    BY <2>1 DEF Preview!Request
  <2>3. filter' \in Item \cup {None}
    BY <1>2, <2>2
  <2>4. Preview!Rows' = Preview!RowsOf(filter')
    BY <1>1 DEF Preview!Rows, Preview!RowsOf
  <2>5. CASE Preview!RowsOf(filter') = {}
    <3>1. /\ Preview!TakeBack /\ Preview!RowsChange(Preview!Rows, {})
          /\ UNCHANGED <<made, previewVisible>>
      BY <2>1, <2>5 DEF Preview!Request
    <3>2. filter' = None
      BY <1>6, <2>2, <2>5
    <3>3. /\ count' \in 0..MaxCount /\ hideTimer' \in BOOLEAN
          /\ count \in {0, 1} => count' = 0
          /\ made => hideTimer'
          /\ ~made => count' = 0 /\ hideTimer' = hideTimer
      BY <3>1, TakeBackCounts
    <3>4. /\ cache' = IF made /\ Preview!Rows # {} THEN {} ELSE cache
          /\ check' = (check \/ (made /\ Preview!Rows # {}))
      BY <3>1 DEF Preview!RowsChange
    <3>5. check' \in BOOLEAN
      BY <1>4, <3>4 DEF PreviewTypes
    <3>6. PreviewTypes'
      BY <1>1, <1>4, <2>3, <3>1, <3>3, <3>5 DEF PreviewTypes
    <3>7. previewVisible => made /\ check'
      BY <1>4, <3>4, Zenon DEF ShowInv
    <3>8. cache' = {}
      <4>1. ~made => cache = {}
        BY <1>4, HiddenHasNoRows DEF ShowInv
      <4> QED
        BY <1>4, <3>4, <4>1 DEF ShowInv
    <3>9. ShowInv'
      BY <3>1, <3>2, <3>7, <3>8 DEF ShowInv
    <3>10. CountInv'
      BY <1>1, <1>2, <1>4, <3>1, <3>3, <3>7 DEF CountInv
    <3> QED
      BY <3>6, <3>9, <3>10 DEF PreviewInv
  <2>6. CASE Preview!RowsOf(filter') # {}
    <3> DEFINE new == Preview!RowsOf(filter')
    <3>1. Preview!Show(new)
      BY <2>1, <2>6 DEF Preview!Request
    <3>2. /\ made' = TRUE /\ count' = count + 1 /\ previewVisible' = TRUE
          /\ cache' = new \cup (IF made /\ Preview!Rows \ new # {} THEN {} ELSE cache)
          /\ check' = (check \/ (made /\ Preview!Rows # new))
          /\ UNCHANGED hideTimer
      BY <3>1 DEF Preview!Show
    <3>3. count' = count + 1 /\ count' # 0 /\ count' \in 0..MaxCount
      BY <1>1, <1>3, <3>1 DEF Preview!Show
    <3>4. check' \in BOOLEAN
      BY <1>4, <3>2 DEF PreviewTypes
    <3>5. PreviewTypes'
      BY <1>1, <1>4, <2>3, <3>2, <3>3, <3>4 DEF PreviewTypes
    <3>6. cache' \subseteq new
      <4>1. ~made => cache = {}
        BY <1>4, HiddenHasNoRows DEF ShowInv
      <4>2. cache \subseteq Preview!Rows
        BY <1>4 DEF ShowInv
      <4> QED
        BY <3>2, <4>1, <4>2
    <3>7. ShowInv'
      BY <2>4, <2>6, <3>2, <3>6 DEF ShowInv
    <3>8. ~leaked => count' = 1
      BY <1>2, <3>3
    <3>9. CountInv'
      BY <1>1, <1>2, <1>4, <3>2, <3>3, <3>8 DEF CountInv
    <3> QED
      BY <3>5, <3>7, <3>9 DEF PreviewInv
  <2> QED
    BY <2>5, <2>6
<1> QED
  BY <1>5, <1>6

\* The hide timer fires.
LEMMA CallHideKeeps ==
  ASSUME PreviewInv, Preview!CallHide
  PROVE  PreviewInv'
<1>1. /\ hideTimer' = FALSE
      /\ UNCHANGED <<open, pointer, previewWaiting, made, count, entered, later, leaked>>
  BY DEF Preview!CallHide
<1>2. count \in Nat /\ check \in BOOLEAN /\ PreviewTypes /\ ShowInv /\ CountInv
  BY PartsAssumption DEF PreviewInv, PreviewTypes
<1>3. CASE entered \/ count > 0
  <2>1. UNCHANGED <<previewVisible, filter, cache, check>>
    BY <1>3 DEF Preview!CallHide
  <2>2. PreviewTypes'
    BY <1>1, <1>2, <2>1 DEF PreviewTypes
  <2>3. ShowInv'
    BY <1>1, <1>2, <2>1, SameRows DEF ShowInv
  <2>4. count = 0 => entered
    BY <1>2, <1>3
  <2>5. CountInv'
    BY <1>1, <1>2, <2>1, <2>4 DEF CountInv
  <2> QED
    BY <2>2, <2>3, <2>5 DEF PreviewInv
<1>4. CASE ~(entered \/ count > 0)
  <2>1. Preview!Hide({}, check)
    BY <1>4 DEF Preview!CallHide
  <2>2. ShowInv' /\ filter' = None /\ cache' = {} /\ previewVisible' = FALSE /\ check' \in BOOLEAN
    BY <1>1, <1>2, <2>1, HideKeeps
  <2>3. PreviewTypes'
    BY <1>1, <1>2, <2>2 DEF PreviewTypes
  <2>4. CountInv'
    BY <1>1, <1>2, <2>2 DEF CountInv
  <2> QED
    BY <2>2, <2>3, <2>4 DEF PreviewInv
<1> QED
  BY <1>3, <1>4

\* A posted call.
LEMMA CheckKeeps ==
  ASSUME PreviewInv, Preview!Check
  PROVE  PreviewInv'
<1>1. UNCHANGED <<open, pointer, previewWaiting, made, count, entered, hideTimer, later, leaked>>
  BY DEF Preview!Check
<1>2. PreviewTypes /\ ShowInv
  BY DEF PreviewInv
<1>3. CASE Preview!Rows = {}
  <2>1. Preview!Hide(cache, FALSE)
    BY <1>3 DEF Preview!Check
  <2>2. cache \subseteq Preview!Rows
    BY <1>2 DEF ShowInv
  <2>3. ShowInv' /\ filter' = None /\ previewVisible' = FALSE /\ check' \in BOOLEAN
    BY <1>1, <2>1, <2>2, HideKeeps
  <2> QED
    BY <1>1, <1>2, <2>3, ContainerKeeps DEF PreviewTypes
<1>4. CASE Preview!Rows # {}
  <2>1. /\ check' = FALSE /\ cache' = cache \cup Preview!Rows
        /\ UNCHANGED <<previewVisible, filter>>
    BY <1>4 DEF Preview!Check
  <2>2. ShowInv'
    BY <1>1, <1>2, <1>4, <2>1, SameRows DEF ShowInv
  <2> QED
    BY <1>1, <1>2, <2>1, <2>2, ContainerKeeps DEF PreviewTypes
<1> QED
  BY <1>3, <1>4

\* A click on the preview.
LEMMA ClickKeeps ==
  ASSUME PreviewInv, Preview!Click
  PROVE  PreviewInv'
<1>1. /\ UNCHANGED <<open, pointer, previewWaiting, made, count, entered, hideTimer, later, leaked>>
      /\ Preview!Hide(cache, check)
  BY DEF Preview!Click
<1>2. cache \subseteq Preview!Rows /\ check \in BOOLEAN /\ PreviewTypes
  BY DEF PreviewInv, ShowInv, PreviewTypes
<1>3. ShowInv' /\ filter' = None /\ previewVisible' = FALSE /\ check' \in BOOLEAN
  BY <1>1, <1>2, HideKeeps
<1> QED
  BY <1>1, <1>2, <1>3, ContainerKeeps DEF PreviewTypes

\* The close button of a row.
LEMMA CloseButtonKeeps ==
  ASSUME PreviewInv, NEW w \in Window, Preview!CloseButton(w)
  PROVE  PreviewInv'
<1>1. /\ cache' = cache \ {w} /\ later' = TRUE
      /\ UNCHANGED <<open, pointer, previewWaiting, made, filter, count, entered,
                     previewVisible, hideTimer, check, leaked>>
  BY DEF Preview!CloseButton
<1>2. ShowInv'
  BY <1>1, SameRows DEF PreviewInv, ShowInv
<1> QED
  BY <1>1, <1>2, ContainerKeeps DEF PreviewInv, PreviewTypes

\* The shot of the close button.
LEMMA CloseShotKeeps ==
  ASSUME PreviewInv, Preview!CloseShot
  PROVE  PreviewInv'
<1>1. /\ later' = FALSE
      /\ UNCHANGED <<open, pointer, previewWaiting, made, count, entered, hideTimer, leaked>>
  BY DEF Preview!CloseShot
<1>2. cache \subseteq Preview!Rows /\ check \in BOOLEAN /\ PreviewTypes /\ ShowInv
  BY DEF PreviewInv, ShowInv, PreviewTypes
<1>3. CASE Preview!Rows = {}
  <2>1. Preview!Hide(cache, check)
    BY <1>3 DEF Preview!CloseShot
  <2>2. ShowInv' /\ filter' = None /\ previewVisible' = FALSE /\ check' \in BOOLEAN
    BY <1>1, <1>2, <2>1, HideKeeps
  <2> QED
    BY <1>1, <1>2, <2>2, ContainerKeeps DEF PreviewTypes
<1>4. CASE Preview!Rows # {}
  <2>1. UNCHANGED <<previewVisible, filter, cache, check>>
    BY <1>4 DEF Preview!CloseShot
  <2>2. ShowInv'
    BY <1>1, <1>2, <2>1, SameRows DEF ShowInv
  <2> QED
    BY <1>1, <1>2, <2>1, <2>2, ContainerKeeps DEF PreviewTypes
<1> QED
  BY <1>3, <1>4

\* A window opens.
LEMMA WindowOpensKeeps ==
  ASSUME PreviewInv, NEW w \in Window, Preview!WindowOpens(w)
  PROVE  PreviewInv'
<1>1. /\ open' = open \cup {w}
      /\ UNCHANGED <<pointer, previewWaiting, made, filter, count, entered, previewVisible,
                     hideTimer, later, leaked>>
  BY DEF Preview!WindowOpens
<1>2. PreviewTypes /\ ShowInv
  BY DEF PreviewInv
<1>3. ShowInv' /\ check' \in BOOLEAN
  <2>1. CASE ItemOf[w] = filter
    <3>1. Preview!RowsChange(Preview!Rows, Preview!Rows \cup {w})
      BY <2>1 DEF Preview!WindowOpens
    <3>2. Preview!Rows' = Preview!Rows \cup {w}
      BY <1>1, <2>1 DEF Preview!Rows, Preview!RowsOf
    <3> QED
      BY <1>1, <3>1, <3>2, RowsChangeKeeps
  <2>2. CASE ItemOf[w] # filter
    <3>1. UNCHANGED <<cache, check>>
      BY <2>2 DEF Preview!WindowOpens
    <3>2. Preview!Rows' = Preview!Rows
      BY <1>1, <2>2 DEF Preview!Rows, Preview!RowsOf
    <3> QED
      BY <1>1, <1>2, <3>1, <3>2 DEF ShowInv, PreviewTypes
  <2> QED
    BY <2>1, <2>2
<1> QED
  BY <1>1, <1>2, <1>3, ContainerKeeps DEF PreviewTypes

\* A window closes, maybe the last of an item that goes with it.
LEMMA WindowClosesKeeps ==
  ASSUME PreviewInv, NEW w \in Window, Preview!WindowCloses(w)
  PROVE  PreviewInv'
<1> DEFINE goes == /\ Preview!RowsOf(ItemOf[w]) = {w} /\ ItemOf[w] \notin Docked
                   /\ pointer = ItemOf[w]
<1>1. /\ open' = open \ {w}
      /\ pointer' = IF goes THEN "away" ELSE pointer
      /\ previewWaiting' = (previewWaiting /\ ~goes)
      /\ leaked' = (leaked \/ (goes /\ count > 0))
      /\ UNCHANGED <<made, filter, count, entered, previewVisible, hideTimer, later>>
  BY DEF Preview!WindowCloses
<1>2. PreviewTypes /\ ShowInv /\ CountInv
  BY DEF PreviewInv
<1>3. ShowInv' /\ check' \in BOOLEAN
  <2>1. CASE ItemOf[w] = filter
    <3>1. Preview!RowsChange(Preview!Rows, Preview!Rows \ {w})
      BY <2>1 DEF Preview!WindowCloses
    <3>2. Preview!Rows' = Preview!Rows \ {w}
      BY <1>1, <2>1 DEF Preview!Rows, Preview!RowsOf
    <3> QED
      BY <1>1, <3>1, <3>2, RowsChangeKeeps
  <2>2. CASE ItemOf[w] # filter
    <3>1. UNCHANGED <<cache, check>>
      BY <2>2 DEF Preview!WindowCloses
    <3>2. Preview!Rows' = Preview!Rows
      BY <1>1, <2>2 DEF Preview!Rows, Preview!RowsOf
    <3> QED
      BY <1>1, <1>2, <3>1, <3>2 DEF ShowInv, PreviewTypes
  <2> QED
    BY <2>1, <2>2
<1>4. CASE goes
  <2>1. /\ pointer' = "away" /\ previewWaiting' = FALSE
        /\ leaked' = (leaked \/ count > 0)
    BY <1>1, <1>4, Zenon
  <2>2. pointer \in Item /\ "away" \notin Item /\ "preview" \notin Item
    BY <1>4, PartsAssumption
  <2>3. PreviewTypes'
    BY <1>1, <1>2, <1>3, <2>1 DEF PreviewTypes
  <2>4. ~leaked' => count' = 0
    <3>1. count > 0 \/ count = 0
      BY <1>2, PartsAssumption DEF PreviewTypes
    <3> QED
      BY <1>1, <2>1, <3>1, Zenon
  <2>5. ~entered
    BY <1>2, <2>2 DEF CountInv
  <2>6. CountInv'
    BY <1>1, <1>2, <2>1, <2>2, <2>4, <2>5 DEF CountInv
  <2> QED
    BY <1>3, <2>3, <2>6 DEF PreviewInv
<1>5. CASE ~goes
  <2>1. UNCHANGED pointer
    BY <1>1, <1>5
  <2>2. UNCHANGED <<previewWaiting, leaked>>
    BY <1>1, <1>2, <1>5 DEF PreviewTypes
  <2> HIDE DEF goes
  <2>3. open' \subseteq Window
    BY <1>1, <1>2 DEF PreviewTypes
  <2> QED
    BY <1>1, <1>2, <1>3, <2>1, <2>2, <2>3, ContainerKeeps DEF PreviewTypes, ShowInv
<1> QED
  BY <1>4, <1>5

\* The invariant holds at first, and every step keeps it.
LEMMA PreviewInitInv == Preview!Init => PreviewInv
<1> SUFFICES ASSUME Preview!Init PROVE PreviewInv
  OBVIOUS
<1>1. MaxCount \in Nat /\ "away" \notin Item
  BY PartsAssumption
<1>2. PreviewTypes
  <2>1. count \in 0..MaxCount
    BY <1>1 DEF Preview!Init
  <2> QED
    BY <2>1 DEF Preview!Init, PreviewTypes
<1>3. ShowInv
  BY DEF Preview!Init, ShowInv
<1>4. CountInv
  BY <1>1 DEF Preview!Init, CountInv
<1> QED
  BY <1>2, <1>3, <1>4 DEF PreviewInv

LEMMA PreviewNextInv == PreviewInv /\ [Preview!Next]_(Preview!vars) => PreviewInv'
<1> SUFFICES ASSUME PreviewInv, [Preview!Next]_(Preview!vars) PROVE PreviewInv'
  OBVIOUS
<1>1. CASE \E p \in Item \cup {"preview", "away"} : Preview!PointerTo(p)
  BY <1>1, PointerToKeeps
<1>2. CASE Preview!Press
  BY <1>2, PressKeeps
<1>3. CASE Preview!PreviewTimeout
  BY <1>3, PreviewTimeoutKeeps
<1>4. CASE Preview!CallHide
  BY <1>4, CallHideKeeps
<1>5. CASE Preview!Check
  BY <1>5, CheckKeeps
<1>6. CASE Preview!Click
  BY <1>6, ClickKeeps
<1>7. CASE Preview!CloseShot
  BY <1>7, CloseShotKeeps
<1>8. CASE \E w \in Window : Preview!CloseButton(w)
  BY <1>8, CloseButtonKeeps
<1>9. CASE \E w \in Window : Preview!WindowOpens(w)
  BY <1>9, WindowOpensKeeps
<1>10. CASE \E w \in Window : Preview!WindowCloses(w)
  BY <1>10, WindowClosesKeeps
<1>11. CASE UNCHANGED Preview!vars
  <2>1. UNCHANGED <<open, pointer, previewWaiting, made, filter, count, entered,
                    previewVisible, hideTimer, cache, check, later, leaked>>
    BY <1>11 DEF Preview!vars, Preview!view
  <2>2. ShowInv'
    BY <2>1, SameRows DEF PreviewInv, ShowInv
  <2> QED
    BY <2>1, <2>2, ContainerKeeps DEF PreviewInv, PreviewTypes
<1> QED
  BY <1>1, <1>2, <1>3, <1>4, <1>5, <1>6, <1>7, <1>8, <1>9, <1>10, <1>11 DEF Preview!Next

\* The invariant says all that the previews promise.
LEMMA PreviewInvSound == PreviewInv => Preview!PreviewSound
<1> SUFFICES ASSUME PreviewInv PROVE Preview!PreviewSound
  OBVIOUS
<1>1. Preview!TypeOK
  <2>1. {made, entered, previewVisible, hideTimer, check, later, leaked} \subseteq BOOLEAN
    BY DEF PreviewInv, PreviewTypes
  <2> QED
    BY <2>1 DEF PreviewInv, PreviewTypes, CountInv, Preview!TypeOK
<1>2. Preview!ShownHasRows
  BY DEF PreviewInv, ShowInv, Preview!ShownHasRows
<1>3. Preview!HiddenForgets
  BY HiddenHasNoRows DEF PreviewInv, ShowInv, Preview!HiddenForgets
<1>4. Preview!LeftHides
  <2>1. "away" \notin Item /\ "away" # "preview"
    BY PartsAssumption
  <2> QED
    BY <2>1 DEF PreviewInv, CountInv, Preview!LeftHides
<1> QED
  BY <1>1, <1>2, <1>3, <1>4 DEF Preview!PreviewSound

-----------------------------------------------------------------------------
(* The windows under Treeland.                                                *)

Distinct(s) == \A i, j \in DOMAIN s : s[i] = s[j] => i = j
ListOf(s)   == {s[i] : i \in DOMAIN s}

WindowTypes ==
  /\ active \in BOOLEAN /\ unused \subseteq Handle
  /\ identifier \in [Handle -> Top \cup {NoWindow}]
  /\ ready \subseteq Handle /\ states \subseteq Handle
  /\ handleOf \in [Top -> Handle \cup {NoHandle}]
  /\ tracked \in Seq(Top) /\ fullscreen \in BOOLEAN /\ unheard \subseteq Top

\* Handles not yet announced stand for nothing, those of windows for one window each, and
\* only they are ready or have a state.
HandleInv ==
  /\ \A h \in unused : identifier[h] = NoWindow
  /\ \A g, h \in Handle : identifier[g] = identifier[h] /\ identifier[g] # NoWindow => g = h
  /\ \A h \in ready \cup states : identifier[h] # NoWindow

\* RowsRight, in three parts.
RowsOnce    == Distinct(tracked)
RowsOfReady == ListOf(tracked) = {identifier[h] : h \in ready}
StandsFor   ==
  \A w \in Top, h \in Handle : handleOf[w] = h <=> (h \in ready /\ identifier[h] = w)

WindowInv ==
  WindowTypes /\ HandleInv /\ RowsOnce /\ RowsOfReady /\ StandsFor /\ Treeland!FullscreenRight

LEMMA TreelandConstants ==
  /\ NoHandle \notin Handle
  /\ NoWindow \notin Top /\ "preview" \notin Top /\ "away" \notin Top
BY PartsAssumption

\* A window is fullscreen when its handle, which is ready, has the state.
LEMMA FullscreenByHandle ==
  ASSUME WindowInv, NEW w \in Top
  PROVE  Treeland!IsFullscreen(w) <=> \E h \in ready \cap states : identifier[h] = w
BY TreelandConstants DEF WindowInv, WindowTypes, StandsFor, Treeland!IsFullscreen

\* A row more.
LEMMA AppendRow ==
  ASSUME NEW s \in Seq(Top), NEW w \in Top, Distinct(s), w \notin ListOf(s)
  PROVE  /\ Append(s, w) \in Seq(Top) /\ Distinct(Append(s, w))
         /\ ListOf(Append(s, w)) = ListOf(s) \cup {w}
<1> DEFINE t == Append(s, w)
           n == Len(s)
<1>1. /\ t \in Seq(Top) /\ Len(t) = n + 1 /\ n \in Nat
      /\ \A i \in 1..n : t[i] = s[i]
      /\ t[n + 1] = w
  BY AppendProperties
<1>2. DOMAIN s = 1..n /\ DOMAIN t = 1..(n + 1)
  BY <1>1
<1> HIDE DEF t, n
<1>3. \A i \in 1..(n + 1) : i \in 1..n \/ i = n + 1
  BY <1>1
<1>4. \A i \in 1..n : s[i] # w
  BY <1>2 DEF ListOf
<1>5. Distinct(t)
  <2> SUFFICES ASSUME NEW i \in 1..(n + 1), NEW j \in 1..(n + 1), t[i] = t[j] PROVE i = j
    BY <1>2 DEF Distinct
  <2> QED
    BY <1>1, <1>2, <1>3, <1>4 DEF Distinct
<1>6. \A x : x \in ListOf(t) <=> x \in ListOf(s) \/ x = w
  <2>1. \A x : x \in ListOf(t) => x \in ListOf(s) \/ x = w
    BY <1>1, <1>2, <1>3 DEF ListOf
  <2>2. w \in ListOf(t)
    <3>1. n + 1 \in DOMAIN t
      BY <1>1, <1>2
    <3> QED
      BY <1>1, <3>1 DEF ListOf
  <2>3. ASSUME NEW i \in DOMAIN s PROVE s[i] \in ListOf(t)
    <3>1. i \in 1..n /\ i \in DOMAIN t
      BY <1>1, <1>2
    <3> QED
      BY <1>1, <3>1 DEF ListOf
  <2> QED
    BY <2>1, <2>2, <2>3 DEF ListOf
<1> QED
  BY <1>1, <1>5, <1>6 DEF t

\* A row less: the windows after it move up.
LEMMA UntrackedRow ==
  ASSUME NEW w \in ListOf(tracked), tracked \in Seq(Top), Distinct(tracked)
  PROVE  /\ Treeland!Untracked(w) \in Seq(Top) /\ Distinct(Treeland!Untracked(w))
         /\ ListOf(Treeland!Untracked(w)) = ListOf(tracked) \ {w}
<1> DEFINE n == Len(tracked)
           first(i) == tracked[i] = w /\ \A j \in 1..(i - 1) : tracked[j] # w
           pos == CHOOSE i \in DOMAIN tracked : first(i)
           t == [i \in 1..n - 1 |-> tracked[IF i < pos THEN i ELSE i + 1]]
<1>1. n \in Nat /\ DOMAIN tracked = 1..n
  OBVIOUS
<1>2. PICK k \in DOMAIN tracked : tracked[k] = w
  BY DEF ListOf
<1>3. first(k)
  <2> SUFFICES ASSUME NEW j \in 1..(k - 1), tracked[j] = w PROVE FALSE
    BY <1>2
  <2>1. j \in DOMAIN tracked /\ j # k
    BY <1>1
  <2> QED
    BY <1>2, <2>1 DEF Distinct
<1>4. pos \in DOMAIN tracked /\ tracked[pos] = w
  BY <1>2, <1>3
<1>5. Treeland!Untracked(w) = t
  BY <1>2 DEF Treeland!Untracked
<1> HIDE DEF first, pos, n
<1>6. pos \in 1..n
  BY <1>1, <1>4
<1>7. \A i \in 1..n - 1 : (IF i < pos THEN i ELSE i + 1) \in 1..n
  BY <1>1, <1>6
<1>8. \A i \in 1..n : tracked[i] \in Top
  BY <1>1
<1>9. t \in Seq(Top)
  <2>1. n - 1 \in Nat
    BY <1>1, <1>6
  <2>2. t \in [1..n - 1 -> Top]
    BY <1>7, <1>8
  <2> QED
    BY <2>1, <2>2
<1>10. DOMAIN t = 1..n - 1 /\ \A i \in 1..n - 1 : t[i] = tracked[IF i < pos THEN i ELSE i + 1]
  OBVIOUS
<1> HIDE DEF t
<1>11. Distinct(t)
  <2> SUFFICES ASSUME NEW i \in 1..n - 1, NEW j \in 1..n - 1, t[i] = t[j] PROVE i = j
    BY <1>10 DEF Distinct
  <2> DEFINE a == IF i < pos THEN i ELSE i + 1
             b == IF j < pos THEN j ELSE j + 1
  <2>1. a \in 1..n /\ b \in 1..n
    BY <1>7
  <2>2. tracked[a] = tracked[b]
    BY <1>10
  <2>3. a = b
    <3> HIDE DEF a, b
    <3> QED
      BY <1>1, <2>1, <2>2 DEF Distinct
  <2> QED
    BY <1>1, <1>6, <2>3
<1>12. ASSUME NEW i \in 1..n - 1 PROVE t[i] \in ListOf(tracked) \ {w}
  <2> DEFINE a == IF i < pos THEN i ELSE i + 1
  <2>1. a \in 1..n /\ a # pos /\ t[i] = tracked[a]
    BY <1>1, <1>6, <1>7, <1>10
  <2> HIDE DEF a
  <2> QED
    BY <1>1, <1>4, <2>1 DEF Distinct, ListOf
<1>13. ASSUME NEW k2 \in 1..n, tracked[k2] # w PROVE tracked[k2] \in ListOf(t)
  <2> DEFINE i == IF k2 < pos THEN k2 ELSE k2 - 1
  <2>1. k2 # pos
    BY <1>4, <1>13
  <2>2. i \in 1..n - 1 /\ (IF i < pos THEN i ELSE i + 1) = k2
    BY <1>1, <1>6, <2>1
  <2>3. t[i] = tracked[k2]
    BY <1>10, <2>2
  <2> HIDE DEF i
  <2> QED
    BY <1>10, <2>2, <2>3 DEF ListOf
<1>14. ListOf(t) = ListOf(tracked) \ {w}
  BY <1>1, <1>10, <1>12, <1>13 DEF ListOf
<1> QED
  BY <1>5, <1>9, <1>11, <1>14

\* When the dock looks for a fullscreen window, it is right.
LEMMA UpdateIsRight == Treeland!UpdateFullscreenState => Treeland!FullscreenRight'
BY DEF Treeland!UpdateFullscreenState, Treeland!FullscreenRight, Treeland!IsFullscreen

\* What only depends on variables that stay, stays.
LEMMA WindowStutter ==
  ASSUME WindowInv, UNCHANGED Treeland!monitor
  PROVE  WindowInv'
<1>1. UNCHANGED <<active, unused, identifier, ready, states, handleOf, tracked, fullscreen,
                  unheard>>
  BY DEF Treeland!monitor
<1>2. Treeland!FullscreenRight'
  BY <1>1 DEF WindowInv, Treeland!FullscreenRight, Treeland!IsFullscreen
<1>3. (HandleInv /\ RowsOnce /\ RowsOfReady /\ StandsFor)'
  BY <1>1 DEF WindowInv, HandleInv, RowsOnce, RowsOfReady, StandsFor
<1> QED
  BY <1>1, <1>2, <1>3 DEF WindowInv, WindowTypes

\* A handle is announced, with an identifier no live one has.
LEMMA ToplevelKeeps ==
  ASSUME WindowInv, NEW h \in Handle, NEW w \in Top, Treeland!Toplevel(h, w)
  PROVE  WindowInv'
<1>1. /\ h \in unused /\ unused' = unused \ {h} /\ \A g \in Handle : identifier[g] # w
      /\ identifier' = [identifier EXCEPT ![h] = w]
      /\ UNCHANGED <<active, ready, states, handleOf, tracked, fullscreen, unheard>>
  BY DEF Treeland!Toplevel
<1>2. WindowTypes /\ HandleInv /\ RowsOnce /\ RowsOfReady /\ StandsFor
  BY DEF WindowInv
<1>3. h \notin ready /\ h \notin states
  BY <1>1, <1>2 DEF HandleInv
<1>4. \A g \in Handle : identifier'[g] = IF g = h THEN w ELSE identifier[g]
  BY <1>1, <1>2 DEF WindowTypes
<1>5. WindowTypes'
  BY <1>1, <1>2 DEF WindowTypes
<1>6. HandleInv'
  BY <1>1, <1>2, <1>3, <1>4, TreelandConstants DEF HandleInv, WindowTypes
<1>7. RowsOnce'
  BY <1>1, <1>2 DEF RowsOnce
<1>8. RowsOfReady'
  <2>1. \A g \in ready : identifier'[g] = identifier[g]
    BY <1>2, <1>3, <1>4 DEF WindowTypes
  <2> QED
    BY <1>1, <1>2, <2>1 DEF RowsOfReady
<1>9. StandsFor'
  BY <1>1, <1>2, <1>3, <1>4 DEF StandsFor, WindowTypes
<1>10. Treeland!FullscreenRight'
  BY <1>1 DEF WindowInv, Treeland!FullscreenRight, Treeland!IsFullscreen
<1> QED
  BY <1>5, <1>6, <1>7, <1>8, <1>9, <1>10 DEF WindowInv

\* A handle says whether its window is fullscreen.
LEMMA StateKeeps ==
  ASSUME WindowInv, NEW h \in Handle, NEW full \in BOOLEAN, Treeland!State(h, full)
  PROVE  WindowInv'
<1>1. /\ Treeland!Live(h) /\ states' = IF full THEN states \cup {h} ELSE states \ {h}
      /\ UNCHANGED <<active, unused, identifier, ready, handleOf, tracked>>
  BY DEF Treeland!State
<1>2. WindowTypes /\ HandleInv /\ RowsOnce /\ RowsOfReady /\ StandsFor
  BY DEF WindowInv
<1>3. identifier[h] \in Top
  BY <1>1, <1>2 DEF WindowTypes, Treeland!Live
<1>4. (HandleInv /\ RowsOnce /\ RowsOfReady /\ StandsFor)'
  <2>1. HandleInv'
    BY <1>1, <1>2 DEF HandleInv, Treeland!Live
  <2> QED
    BY <1>1, <1>2, <2>1 DEF RowsOnce, RowsOfReady, StandsFor
<1>5. CASE handleOf[identifier[h]] = h
  <2>1. Treeland!UpdateFullscreenState
    BY <1>5 DEF Treeland!State
  <2>2. fullscreen' \in BOOLEAN /\ unheard' \subseteq Top
    BY <2>1 DEF Treeland!UpdateFullscreenState
  <2>3. WindowTypes'
    BY <1>1, <1>2, <2>2 DEF WindowTypes
  <2> QED
    BY <1>4, <2>1, <2>3, UpdateIsRight DEF WindowInv
<1>6. CASE handleOf[identifier[h]] # h
  <2>1. UNCHANGED <<fullscreen, unheard>>
    BY <1>6 DEF Treeland!State
  <2>2. WindowTypes'
    BY <1>1, <1>2, <2>1 DEF WindowTypes
  <2>3. \A w \in Top : handleOf[w] # h
    BY <1>2, <1>3, <1>6 DEF StandsFor
  <2>4. \A g : g # h => (g \in states' <=> g \in states)
    BY <1>1
  <2>5. Treeland!FullscreenRight'
    BY <1>1, <2>1, <2>3, <2>4 DEF WindowInv, Treeland!FullscreenRight, Treeland!IsFullscreen
  <2> QED
    BY <1>4, <2>2, <2>5 DEF WindowInv
<1> QED
  BY <1>5, <1>6

\* A handle is done, and its window has a row.
LEMMA DoneKeeps ==
  ASSUME WindowInv, NEW h \in Handle, Treeland!Done(h)
  PROVE  WindowInv'
<1> DEFINE w == identifier[h]
<1>1. /\ Treeland!Live(h) /\ h \notin ready /\ ready' = ready \cup {h}
      /\ handleOf' = [handleOf EXCEPT ![w] = h] /\ tracked' = Append(tracked, w)
      /\ unheard' = IF h \in states THEN unheard \cup {w} ELSE unheard
      /\ UNCHANGED <<active, unused, identifier, states, fullscreen>>
  BY DEF Treeland!Done
<1>2. WindowTypes /\ HandleInv /\ RowsOnce /\ RowsOfReady /\ StandsFor
  BY DEF WindowInv
<1>3. w \in Top /\ w # NoWindow
  BY <1>1, <1>2 DEF WindowTypes, Treeland!Live
<1>4. \A g \in ready : g \in Handle /\ identifier[g] # w
  BY <1>1, <1>2, <1>3 DEF WindowTypes, HandleInv
<1>5. w \notin ListOf(tracked)
  BY <1>2, <1>4 DEF RowsOfReady
<1>6. /\ tracked' \in Seq(Top) /\ Distinct(tracked')
      /\ ListOf(tracked') = ListOf(tracked) \cup {w}
  BY <1>1, <1>2, <1>3, <1>5, AppendRow DEF WindowTypes, RowsOnce
<1>7. \A v \in Top : handleOf'[v] = IF v = w THEN h ELSE handleOf[v]
  BY <1>1, <1>2 DEF WindowTypes
<1> HIDE DEF w
<1>8. WindowTypes'
  <2>1. handleOf' \in [Top -> Handle \cup {NoHandle}]
    BY <1>1, <1>2, <1>3 DEF WindowTypes
  <2>2. ready' \subseteq Handle /\ unheard' \subseteq Top
    BY <1>1, <1>2, <1>3 DEF WindowTypes
  <2> QED
    BY <1>1, <1>2, <1>6, <2>1, <2>2 DEF WindowTypes
<1>9. HandleInv'
  BY <1>1, <1>2 DEF HandleInv, Treeland!Live
<1>10. RowsOnce'
  BY <1>6 DEF RowsOnce
<1>11. RowsOfReady'
  <2>1. {identifier[g] : g \in ready \cup {h}} = {identifier[g] : g \in ready} \cup {w}
    BY DEF w
  <2> QED
    BY <1>1, <1>2, <1>6, <2>1 DEF RowsOfReady
<1>12. StandsFor'
  <2> SUFFICES ASSUME NEW v \in Top, NEW g \in Handle
               PROVE  handleOf'[v] = g <=> (g \in ready' /\ identifier'[g] = v)
    BY DEF StandsFor
  <2>1. CASE v = w
    <3>1. handleOf'[v] = h
      BY <1>7, <2>1
    <3>2. g \in ready' /\ identifier'[g] = w <=> g = h
      BY <1>1, <1>4 DEF w
    <3> QED
      BY <2>1, <3>1, <3>2
  <2>2. CASE v # w
    <3>1. handleOf'[v] = handleOf[v]
      BY <1>7, <2>2
    <3>2. g \in ready' /\ identifier'[g] = v <=> g \in ready /\ identifier[g] = v
      BY <1>1, <2>2 DEF w
    <3> QED
      BY <1>2, <3>1, <3>2 DEF StandsFor
  <2> QED
    BY <2>1, <2>2
<1>13. Treeland!FullscreenRight'
  <2>1. \A g \in Handle : handleOf[w] # g
    BY <1>2, <1>3, <1>4 DEF StandsFor
  <2>2. \A v \in Top : Treeland!IsFullscreen(v) => Treeland!IsFullscreen(v)'
    BY <1>1, <1>2, <1>7, <2>1 DEF WindowTypes, Treeland!IsFullscreen
  <2>3. \A v \in Top : Treeland!IsFullscreen(v)' => Treeland!IsFullscreen(v) \/ (v = w /\ h \in states)
    BY <1>1, <1>7 DEF Treeland!IsFullscreen
  <2>4. unheard \subseteq unheard' /\ (h \in states => w \in unheard')
    BY <1>1
  <2> QED
    BY <1>1, <2>2, <2>3, <2>4 DEF WindowInv, Treeland!FullscreenRight
<1> QED
  BY <1>8, <1>9, <1>10, <1>11, <1>12, <1>13 DEF WindowInv

\* A handle is closed, and its window's row goes.
LEMMA ClosedKeeps ==
  ASSUME WindowInv, NEW h \in Handle, Treeland!Closed(h)
  PROVE  WindowInv'
<1> DEFINE w == identifier[h]
<1>1. /\ Treeland!Live(h) /\ identifier' = [identifier EXCEPT ![h] = NoWindow]
      /\ ready' = ready \ {h} /\ states' = states \ {h} /\ UNCHANGED <<active, unused>>
  BY DEF Treeland!Closed
<1>2. WindowTypes /\ HandleInv /\ RowsOnce /\ RowsOfReady /\ StandsFor
  BY DEF WindowInv
<1>3. w \in Top
  BY <1>1, <1>2 DEF WindowTypes, Treeland!Live
<1>4. \A g \in Handle : identifier'[g] = IF g = h THEN NoWindow ELSE identifier[g]
  BY <1>1, <1>2 DEF WindowTypes
<1>5. identifier' \in [Handle -> Top \cup {NoWindow}] /\ ready' \subseteq Handle /\ states' \subseteq Handle
  BY <1>1, <1>2 DEF WindowTypes
<1>6. HandleInv'
  BY <1>1, <1>2, <1>4 DEF HandleInv, WindowTypes
<1>7. CASE h \in ready
  <2>1. /\ tracked' = Treeland!Untracked(w) /\ handleOf' = [handleOf EXCEPT ![w] = NoHandle]
        /\ Treeland!UpdateFullscreenState
    BY <1>7 DEF Treeland!Closed, Treeland!HandleRemoved
  <2>2. \A v \in Top : handleOf'[v] = IF v = w THEN NoHandle ELSE handleOf[v]
    BY <1>2, <2>1 DEF WindowTypes
  <2>3. w \in ListOf(tracked)
    BY <1>2, <1>7 DEF RowsOfReady
  <2> HIDE DEF w
  <2>4. /\ tracked' \in Seq(Top) /\ Distinct(tracked')
        /\ ListOf(tracked') = ListOf(tracked) \ {w}
    BY <1>2, <2>1, <2>3, UntrackedRow DEF WindowTypes, RowsOnce
  <2>5. fullscreen' \in BOOLEAN /\ unheard' \subseteq Top
    BY <2>1 DEF Treeland!UpdateFullscreenState
  <2>6. handleOf' \in [Top -> Handle \cup {NoHandle}]
    BY <1>2, <2>1 DEF WindowTypes
  <2>7. WindowTypes'
    BY <1>1, <1>2, <1>5, <2>4, <2>5, <2>6 DEF WindowTypes
  <2>8. \A g \in ready : g # h => g \in Handle /\ identifier[g] # w
    BY <1>2, <1>3, TreelandConstants DEF w, WindowTypes, HandleInv
  <2>9. RowsOfReady'
    <3>1. {identifier'[g] : g \in ready'} = {identifier[g] : g \in ready \ {h}}
      BY <1>1, <1>2, <1>4 DEF WindowTypes
    <3>2. {identifier[g] : g \in ready \ {h}} = {identifier[g] : g \in ready} \ {w}
      BY <2>8 DEF w
    <3> QED
      BY <1>2, <2>4, <3>1, <3>2 DEF RowsOfReady
  <2>10. StandsFor'
    <3> SUFFICES ASSUME NEW v \in Top, NEW g \in Handle
                 PROVE  handleOf'[v] = g <=> (g \in ready' /\ identifier'[g] = v)
      BY DEF StandsFor
    <3>1. CASE v = w
      BY <1>1, <1>4, <2>2, <2>8, <3>1, TreelandConstants
    <3>2. CASE v # w
      <4>1. handleOf'[v] = handleOf[v]
        BY <2>2, <3>2
      <4>2. g \in ready' /\ identifier'[g] = v <=> g \in ready /\ identifier[g] = v
        BY <1>1, <1>4, <3>2, TreelandConstants DEF w
      <4> QED
        BY <1>2, <4>1, <4>2 DEF StandsFor
    <3> QED
      BY <3>1, <3>2
  <2> QED
    BY <1>6, <2>1, <2>4, <2>7, <2>9, <2>10, UpdateIsRight DEF WindowInv, RowsOnce
<1>8. CASE h \notin ready
  <2>1. UNCHANGED <<handleOf, tracked, fullscreen, unheard>>
    BY <1>8 DEF Treeland!Closed
  <2>2. WindowTypes'
    BY <1>1, <1>2, <1>5, <2>1 DEF WindowTypes
  <2>3. ready' = ready
    BY <1>1, <1>8
  <2>4. RowsOfReady'
    <3>1. \A g \in ready : identifier'[g] = identifier[g]
      BY <1>2, <1>4, <1>8 DEF WindowTypes
    <3> QED
      BY <1>2, <2>1, <2>3, <3>1 DEF RowsOfReady
  <2>5. StandsFor'
    BY <1>2, <1>4, <1>8, <2>1, <2>3, TreelandConstants DEF StandsFor, WindowTypes
  <2>6. \A v \in Top : handleOf[v] # h
    BY <1>2, <1>8 DEF StandsFor
  <2>7. Treeland!FullscreenRight'
    BY <1>1, <2>1, <2>6 DEF WindowInv, Treeland!FullscreenRight, Treeland!IsFullscreen
  <2> QED
    BY <1>2, <1>6, <2>1, <2>2, <2>4, <2>5, <2>7 DEF WindowInv, RowsOnce
<1> QED
  BY <1>7, <1>8

\* The compositor's manager goes, or is there again.
LEMMA ActiveChangedKeeps ==
  ASSUME WindowInv, Treeland!ActiveChanged
  PROVE  WindowInv'
<1>1. active' = ~active /\ UNCHANGED unused
  BY DEF Treeland!ActiveChanged
<1>2. WindowTypes
  BY DEF WindowInv
<1>3. active' \in BOOLEAN
  BY <1>1
<1>4. CASE active
  <2>1. /\ tracked' = <<>> /\ handleOf' = [w \in Top |-> NoHandle]
        /\ identifier' = [h \in Handle |-> NoWindow] /\ ready' = {} /\ states' = {}
        /\ Treeland!UpdateFullscreenState
    BY <1>4 DEF Treeland!ActiveChanged
  <2>2. fullscreen' \in BOOLEAN /\ unheard' \subseteq Top
    BY <2>1 DEF Treeland!UpdateFullscreenState
  <2>3. WindowTypes'
    BY <1>1, <1>2, <1>3, <2>1, <2>2 DEF WindowTypes
  <2>4. HandleInv'
    BY <1>1, <1>2, <2>1 DEF HandleInv, WindowTypes
  <2>5. RowsOnce'
    BY <2>1 DEF RowsOnce, Distinct
  <2>6. RowsOfReady'
    BY <2>1 DEF RowsOfReady, ListOf
  <2>7. StandsFor'
    BY <2>1, TreelandConstants DEF StandsFor
  <2> QED
    BY <2>1, <2>3, <2>4, <2>5, <2>6, <2>7, UpdateIsRight DEF WindowInv
<1>5. CASE ~active
  <2>1. UNCHANGED <<identifier, ready, states, handleOf, tracked, fullscreen, unheard>>
    BY <1>5 DEF Treeland!ActiveChanged
  <2>2. WindowTypes'
    BY <1>1, <1>2, <1>3, <2>1 DEF WindowTypes
  <2>3. Treeland!FullscreenRight'
    BY <2>1 DEF WindowInv, Treeland!FullscreenRight, Treeland!IsFullscreen
  <2>4. (HandleInv /\ RowsOnce /\ RowsOfReady /\ StandsFor)'
    BY <1>1, <2>1 DEF WindowInv, HandleInv, RowsOnce, RowsOfReady, StandsFor
  <2> QED
    BY <2>2, <2>3, <2>4 DEF WindowInv
<1> QED
  BY <1>4, <1>5

-----------------------------------------------------------------------------
(* The preview under Treeland.                                                *)

HoverTypes ==
  /\ preview \in {"none", "closed", "shown"} /\ mouseArea \in BOOLEAN
  /\ onPreview \in BOOLEAN /\ timer \in BOOLEAN /\ timeouts \in BOOLEAN
  /\ unreturned \in BOOLEAN /\ crossings \in Seq({"enter", "leave"})
  /\ at \in Top \cup {"preview", "away"}

LastOf(s) == s[Len(s)]

\* What is under way, and then what was heard last, ends where the pointer is.
HeardInv ==
  /\ preview = "none" => /\ ~mouseArea /\ ~timer /\ ~onPreview /\ ~timeouts
                         /\ crossings = <<>> /\ at # "preview"
  /\ crossings # <<>> => (LastOf(crossings) = "enter" <=> at = "preview")
  /\ crossings = <<>> /\ preview # "none" => (onPreview <=> at = "preview")

\* A request that is not taken back is of the item under the pointer, or was left.
RequestInv == mouseArea /\ at \notin Top => unreturned

HoverInv == HoverTypes /\ HeardInv /\ RequestInv /\ Treeland!PreviewHides

\* An event more, and one less.
LEMMA AppendCrossing ==
  ASSUME NEW s \in Seq({"enter", "leave"}), NEW e \in {"enter", "leave"}
  PROVE  /\ Append(s, e) \in Seq({"enter", "leave"}) /\ Append(s, e) # <<>>
         /\ LastOf(Append(s, e)) = e
BY AppendProperties DEF LastOf

LEMMA TailCrossing ==
  ASSUME NEW s \in Seq({"enter", "leave"}), s # <<>>
  PROVE  /\ Tail(s) \in Seq({"enter", "leave"}) /\ Head(s) \in {"enter", "leave"}
         /\ Tail(s) = <<>> => Head(s) = LastOf(s)
         /\ Tail(s) # <<>> => LastOf(Tail(s)) = LastOf(s)
<1> DEFINE t == Tail(s)
<1>1. /\ t \in Seq({"enter", "leave"}) /\ Head(s) \in {"enter", "leave"}
      /\ Len(t) = Len(s) - 1
      /\ \A i \in 1..Len(t) : t[i] = s[i + 1]
  BY HeadTailProperties
<1>2. Len(s) \in Nat /\ Len(t) \in Nat /\ Head(s) = s[1]
  BY <1>1
<1>3. t = <<>> => Len(s) = 1
  <2>1. t = <<>> => Len(t) = 0
    BY <1>1, EmptySeq
  <2> HIDE DEF t
  <2> QED
    BY <1>1, <1>2, <2>1
<1>4. t # <<>> => Len(t) \in 1..Len(t)
  BY <1>1, <1>2
<1> HIDE DEF t
<1>5. t # <<>> => t[Len(t)] = s[Len(s)]
  BY <1>1, <1>2, <1>4
<1> QED
  BY <1>1, <1>2, <1>3, <1>5 DEF t, LastOf

\* The request is taken back, if there was one.
LEMMA HideItemHides ==
  ASSUME HoverInv, Treeland!HideItemPreview
  PROVE  /\ mouseArea' = FALSE /\ timer' \in BOOLEAN
         /\ preview # "none" => timer' = TRUE
         /\ preview = "none" => timer' = FALSE
<1>1. CASE preview = "none"
  <2>1. UNCHANGED <<mouseArea, timer>> /\ ~mouseArea /\ ~timer
    BY <1>1 DEF Treeland!HideItemPreview, HoverInv, HeardInv
  <2>2. mouseArea \in BOOLEAN /\ timer \in BOOLEAN
    BY DEF HoverInv, HoverTypes
  <2> QED
    BY <1>1, <2>1, <2>2
<1>2. CASE preview # "none"
  BY <1>2 DEF Treeland!HideItemPreview
<1> QED
  BY <1>1, <1>2

\* The pointer moves.
LEMMA PointerMoveKeeps ==
  ASSUME HoverInv, NEW p \in Top \cup {"preview", "away"}, Treeland!PointerTo(p)
  PROVE  HoverInv'
<1>1. /\ p # at /\ at' = p /\ (p = "preview" => preview = "shown")
      /\ crossings' = IF p = "preview" THEN Append(crossings, "enter")
                      ELSE IF at = "preview" THEN Append(crossings, "leave") ELSE crossings
      /\ UNCHANGED <<preview, onPreview, timeouts>>
      /\ Treeland!Exited
  BY DEF Treeland!PointerTo
<1>2. HoverTypes /\ HeardInv /\ RequestInv
  BY DEF HoverInv
<1>3. /\ "preview" \notin Top /\ "away" \notin Top
      /\ crossings \in Seq({"enter", "leave"})
  BY <1>2, TreelandConstants DEF HoverTypes
<1>4. /\ crossings' \in Seq({"enter", "leave"})
      /\ crossings' # <<>> => (LastOf(crossings') = "enter" <=> p = "preview")
      /\ crossings' = <<>> => crossings = <<>> /\ p # "preview" /\ at # "preview"
  <2>1. CASE p = "preview"
    BY <1>1, <1>3, <2>1, AppendCrossing
  <2>2. CASE p # "preview" /\ at = "preview"
    BY <1>1, <1>3, <2>2, AppendCrossing
  <2>3. CASE p # "preview" /\ at # "preview"
    BY <1>1, <1>2, <1>3, <2>3 DEF HeardInv
  <2> QED
    BY <2>1, <2>2, <2>3
<1>5. /\ mouseArea' \in BOOLEAN /\ timer' \in BOOLEAN /\ unreturned' \in BOOLEAN
      /\ preview = "none" => mouseArea' = FALSE /\ timer' = FALSE
      /\ mouseArea' => unreturned'
      /\ unreturned => unreturned'
      /\ timer /\ preview # "none" => timer'
      /\ at \in Top /\ preview # "none" => timer' \/ unreturned'
  <2>1. CASE at \in Top /\ handleOf[at] # NoHandle
    <3>1. Treeland!HideItemPreview /\ UNCHANGED unreturned
      BY <1>1, <2>1 DEF Treeland!Exited
    <3>2. /\ mouseArea' = FALSE /\ timer' \in BOOLEAN
          /\ preview # "none" => timer' = TRUE
          /\ preview = "none" => timer' = FALSE
      BY <3>1, HideItemHides
    <3> QED
      BY <1>2, <3>1, <3>2 DEF HoverTypes
  <2>2. CASE ~(at \in Top /\ handleOf[at] # NoHandle)
    <3>1. UNCHANGED <<mouseArea, timer>> /\ unreturned' = (unreturned \/ at \in Top)
      BY <1>1, <2>2 DEF Treeland!Exited
    <3>2. mouseArea => at \in Top \/ unreturned
      BY <1>2 DEF RequestInv
    <3>3. preview = "none" => mouseArea = FALSE /\ timer = FALSE
      BY <1>2 DEF HeardInv, HoverTypes
    <3>4. unreturned' \in BOOLEAN /\ (mouseArea' => unreturned')
      BY <3>1, <3>2
    <3> QED
      BY <1>2, <3>1, <3>3, <3>4 DEF HoverTypes
  <2> QED
    BY <2>1, <2>2
<1>6. HoverTypes'
  BY <1>1, <1>2, <1>4, <1>5 DEF HoverTypes
<1>7. HeardInv'
  <2>1. preview = "none" => ~onPreview /\ ~timeouts /\ crossings = <<>> /\ at # "preview" /\ p # "preview"
    BY <1>1, <1>2 DEF HeardInv
  <2>2. preview = "none" => crossings' = <<>>
    BY <1>1, <2>1
  <2>3. crossings' = <<>> /\ preview # "none" => ~onPreview
    BY <1>2, <1>4 DEF HeardInv
  <2> QED
    BY <1>1, <1>4, <1>5, <2>1, <2>2, <2>3 DEF HeardInv
<1>8. RequestInv'
  BY <1>5 DEF RequestInv
<1>9. Treeland!PreviewHides'
  <2> SUFFICES ASSUME preview = "shown", ~timer', ~timeouts, crossings' = <<>>, ~unreturned'
               PROVE  FALSE
    BY <1>1 DEF Treeland!PreviewHides
  <2>1. at \notin Top /\ at # "preview" /\ crossings = <<>> /\ ~timer /\ ~unreturned
    BY <1>4, <1>5
  <2> QED
    BY <2>1 DEF HoverInv, Treeland!PreviewHides
<1> QED
  BY <1>6, <1>7, <1>8, <1>9 DEF HoverInv

\* The preview is asked for.
LEMMA RequestKeeps ==
  ASSUME HoverInv, Treeland!RequestPreview
  PROVE  HoverInv'
<1>1. at \in Top /\ UNCHANGED <<onPreview, timeouts, crossings, at>>
  BY DEF Treeland!RequestPreview
<1>2. HoverTypes /\ HeardInv /\ at # "preview"
  BY <1>1, TreelandConstants DEF HoverInv
<1>3. CASE handleOf[at] = NoHandle
  <2>1. Treeland!HideItemPreview /\ UNCHANGED <<preview, unreturned>>
    BY <1>3 DEF Treeland!RequestPreview
  <2>2. /\ mouseArea' = FALSE /\ timer' \in BOOLEAN
        /\ preview # "none" => timer' = TRUE
        /\ preview = "none" => timer' = FALSE
    BY <2>1, HideItemHides
  <2>3. HoverTypes'
    BY <1>1, <1>2, <2>1, <2>2 DEF HoverTypes
  <2>4. HeardInv' /\ RequestInv'
    BY <1>1, <1>2, <2>1, <2>2 DEF HeardInv, RequestInv
  <2>5. Treeland!PreviewHides'
    BY <2>1, <2>2 DEF Treeland!PreviewHides
  <2> QED
    BY <2>3, <2>4, <2>5 DEF HoverInv
<1>4. CASE handleOf[at] # NoHandle
  <2>1. preview' = "shown" /\ mouseArea' = TRUE /\ unreturned' = FALSE /\ UNCHANGED timer
    BY <1>4 DEF Treeland!RequestPreview
  <2>2. HoverTypes'
    BY <1>1, <1>2, <2>1 DEF HoverTypes
  <2>3. HeardInv' /\ RequestInv'
    BY <1>1, <1>2, <2>1 DEF HeardInv, RequestInv
  <2>4. Treeland!PreviewHides'
    BY <1>1, <2>1 DEF Treeland!PreviewHides
  <2> QED
    BY <2>2, <2>3, <2>4 DEF HoverInv
<1> QED
  BY <1>3, <1>4

\* The item is pressed.
LEMMA PressedKeeps ==
  ASSUME HoverInv, Treeland!Pressed
  PROVE  HoverInv'
<1>1. /\ at \in Top /\ UNCHANGED <<preview, onPreview, timeouts, crossings, at, unreturned>>
      /\ Treeland!HideItemPreview
  BY DEF Treeland!Pressed
<1>2. HoverTypes /\ HeardInv
  BY DEF HoverInv
<1>3. /\ mouseArea' = FALSE /\ timer' \in BOOLEAN
      /\ preview # "none" => timer' = TRUE
      /\ preview = "none" => timer' = FALSE
  BY <1>1, HideItemHides
<1>4. HoverTypes'
  BY <1>1, <1>2, <1>3 DEF HoverTypes
<1>5. HeardInv' /\ RequestInv'
  BY <1>1, <1>2, <1>3 DEF HeardInv, RequestInv
<1>6. Treeland!PreviewHides'
  BY <1>1, <1>3 DEF Treeland!PreviewHides
<1> QED
  BY <1>4, <1>5, <1>6 DEF HoverInv

\* The dock hears that the pointer entered or left the preview.
LEMMA PreviewEventKeeps ==
  ASSUME HoverInv, Treeland!PreviewEvent
  PROVE  HoverInv'
<1>1. /\ crossings # <<>> /\ crossings' = Tail(crossings)
      /\ UNCHANGED <<preview, mouseArea, timeouts, at, unreturned>>
  BY DEF Treeland!PreviewEvent
<1>2. HoverTypes /\ HeardInv /\ RequestInv
  BY DEF HoverInv
<1>3. preview # "none"
  BY <1>1, <1>2 DEF HeardInv
<1>4. /\ onPreview' = (Head(crossings) = "enter")
      /\ timer' = (timer \/ Head(crossings) = "leave")
  BY <1>3 DEF Treeland!PreviewEvent
<1>5. /\ crossings' \in Seq({"enter", "leave"}) /\ Head(crossings) \in {"enter", "leave"}
      /\ crossings' = <<>> => Head(crossings) = LastOf(crossings)
      /\ crossings' # <<>> => LastOf(crossings') = LastOf(crossings)
  BY <1>1, <1>2, TailCrossing DEF HoverTypes
<1>6. LastOf(crossings) = "enter" <=> at = "preview"
  BY <1>1, <1>2 DEF HeardInv
<1>7. timer' \in BOOLEAN /\ onPreview' \in BOOLEAN
  BY <1>2, <1>4 DEF HoverTypes
<1>8. HoverTypes'
  BY <1>1, <1>2, <1>5, <1>7 DEF HoverTypes
<1>9. HeardInv'
  BY <1>1, <1>3, <1>4, <1>5, <1>6 DEF HeardInv
<1>10. RequestInv'
  BY <1>1, <1>2 DEF RequestInv
<1>11. Treeland!PreviewHides'
  <2>1. Head(crossings) = "leave" => timer'
    BY <1>4
  <2>2. Head(crossings) = "enter" => onPreview'
    BY <1>4
  <2> QED
    BY <1>1, <1>5, <1>6, <2>1, <2>2 DEF Treeland!PreviewHides
<1> QED
  BY <1>8, <1>9, <1>10, <1>11 DEF HoverInv

\* The hide timer fires, and then its slot runs.
LEMMA TimerFiresKeeps ==
  ASSUME HoverInv, Treeland!TimerFires
  PROVE  HoverInv'
<1>1. /\ timer /\ timer' = FALSE /\ timeouts' = TRUE
      /\ UNCHANGED <<preview, mouseArea, onPreview, crossings, at, unreturned>>
  BY DEF Treeland!TimerFires
<1>2. HoverTypes'
  BY <1>1 DEF HoverInv, HoverTypes
<1>3. HeardInv' /\ RequestInv' /\ Treeland!PreviewHides'
  BY <1>1 DEF HoverInv, HeardInv, RequestInv, Treeland!PreviewHides
<1> QED
  BY <1>2, <1>3 DEF HoverInv

LEMMA TimeoutKeeps ==
  ASSUME HoverInv, Treeland!Timeout
  PROVE  HoverInv'
<1>1. timeouts /\ timeouts' = FALSE /\ UNCHANGED <<mouseArea, onPreview, timer, unreturned>>
  BY DEF Treeland!Timeout
<1>2. HoverTypes /\ HeardInv /\ RequestInv
  BY DEF HoverInv
<1>3. preview # "none"
  BY <1>1, <1>2 DEF HeardInv
<1>4. CASE mouseArea \/ onPreview
  <2>1. UNCHANGED <<preview, at, crossings>>
    BY <1>4 DEF Treeland!Timeout
  <2>2. HoverTypes'
    BY <1>1, <1>2, <2>1 DEF HoverTypes
  <2>3. HeardInv' /\ RequestInv'
    BY <1>1, <1>2, <2>1 DEF HeardInv, RequestInv
  <2>4. Treeland!PreviewHides'
    BY <1>1, <1>2, <1>3, <1>4, <2>1 DEF HeardInv, RequestInv, Treeland!PreviewHides
  <2> QED
    BY <2>2, <2>3, <2>4 DEF HoverInv
<1>5. CASE ~(mouseArea \/ onPreview)
  <2>1. /\ preview' = "closed"
        /\ at' = IF at = "preview" THEN "away" ELSE at
        /\ crossings' = IF at = "preview" THEN Append(crossings, "leave") ELSE crossings
    BY <1>5 DEF Treeland!Timeout
  <2>2. /\ crossings' \in Seq({"enter", "leave"}) /\ at' # "preview"
        /\ crossings' # <<>> => LastOf(crossings') # "enter"
    <3>1. CASE at = "preview"
      BY <1>2, <2>1, <3>1, AppendCrossing DEF HoverTypes
    <3>2. CASE at # "preview"
      BY <1>2, <2>1, <3>2 DEF HoverTypes, HeardInv
    <3> QED
      BY <3>1, <3>2
  <2>3. HoverTypes'
    BY <1>1, <1>2, <2>1, <2>2 DEF HoverTypes
  <2>4. HeardInv' /\ RequestInv'
    BY <1>1, <1>5, <2>1, <2>2 DEF HeardInv, RequestInv
  <2>5. Treeland!PreviewHides'
    BY <2>1 DEF Treeland!PreviewHides
  <2> QED
    BY <2>3, <2>4, <2>5 DEF HoverInv
<1> QED
  BY <1>4, <1>5

\* The context goes.
LEMMA DropContextKeeps ==
  ASSUME HoverInv, Treeland!DropContext
  PROVE  HoverInv'
<1>1. /\ preview' = "none" /\ mouseArea' = FALSE /\ onPreview' = FALSE /\ timer' = FALSE
      /\ timeouts' = FALSE /\ crossings' = <<>> /\ unreturned' = FALSE
      /\ at' = IF at = "preview" THEN "away" ELSE at
  BY DEF Treeland!DropContext
<1>2. crossings' \in Seq({"enter", "leave"})
  BY <1>1
<1>3. HoverTypes'
  BY <1>1, <1>2 DEF HoverInv, HoverTypes
<1>4. HeardInv' /\ RequestInv' /\ Treeland!PreviewHides'
  BY <1>1 DEF HeardInv, RequestInv, Treeland!PreviewHides
<1> QED
  BY <1>3, <1>4 DEF HoverInv

LEMMA HoverStutter ==
  ASSUME HoverInv, UNCHANGED <<Treeland!context, at, unreturned>>
  PROVE  HoverInv'
<1>1. UNCHANGED <<preview, mouseArea, onPreview, timer, timeouts, crossings, at, unreturned>>
  BY DEF Treeland!context
<1>2. HoverTypes'
  BY <1>1 DEF HoverInv, HoverTypes
<1>3. HeardInv' /\ RequestInv' /\ Treeland!PreviewHides'
  BY <1>1 DEF HoverInv, HeardInv, RequestInv, Treeland!PreviewHides
<1> QED
  BY <1>2, <1>3 DEF HoverInv

-----------------------------------------------------------------------------
TreelandInv == WindowInv /\ HoverInv

LEMMA TreelandInitInv == Treeland!Init => TreelandInv
<1> SUFFICES ASSUME Treeland!Init PROVE TreelandInv
  OBVIOUS
<1>1. WindowTypes
  <2>1. tracked \in Seq(Top)
    BY DEF Treeland!Init
  <2> QED
    BY <2>1 DEF Treeland!Init, WindowTypes
<1>2. HandleInv /\ RowsOnce /\ RowsOfReady
  BY DEF Treeland!Init, HandleInv, RowsOnce, RowsOfReady, Distinct, ListOf
<1>3. StandsFor
  BY TreelandConstants DEF Treeland!Init, StandsFor
<1>4. Treeland!FullscreenRight
  BY DEF Treeland!Init, Treeland!FullscreenRight, Treeland!IsFullscreen
<1>5. HoverTypes
  <2>1. crossings \in Seq({"enter", "leave"})
    BY DEF Treeland!Init
  <2> QED
    BY <2>1 DEF Treeland!Init, HoverTypes
<1>6. HeardInv /\ RequestInv /\ Treeland!PreviewHides
  BY DEF Treeland!Init, HeardInv, RequestInv, Treeland!PreviewHides
<1> QED
  BY <1>1, <1>2, <1>3, <1>4, <1>5, <1>6 DEF TreelandInv, WindowInv, HoverInv

LEMMA TreelandNextInv == TreelandInv /\ [Treeland!Next]_(Treeland!vars) => TreelandInv'
<1> SUFFICES ASSUME WindowInv, HoverInv, [Treeland!Next]_(Treeland!vars)
             PROVE  WindowInv' /\ HoverInv'
  BY DEF TreelandInv
<1>1. CASE Treeland!WindowsNext /\ UNCHANGED <<Treeland!context, at, unreturned>>
  BY <1>1, HoverStutter, ToplevelKeeps, StateKeeps, DoneKeeps, ClosedKeeps
     DEF Treeland!WindowsNext
<1>2. CASE \E p \in Top \cup {"preview", "away"} : Treeland!PointerTo(p)
  <2>1. UNCHANGED Treeland!monitor
    BY <1>2 DEF Treeland!PointerTo
  <2> QED
    BY <1>2, <2>1, WindowStutter, PointerMoveKeeps
<1>3. CASE Treeland!RequestPreview
  <2>1. UNCHANGED Treeland!monitor
    BY <1>3 DEF Treeland!RequestPreview
  <2> QED
    BY <1>3, <2>1, WindowStutter, RequestKeeps
<1>4. CASE Treeland!Pressed
  <2>1. UNCHANGED Treeland!monitor
    BY <1>4 DEF Treeland!Pressed
  <2> QED
    BY <1>4, <2>1, WindowStutter, PressedKeeps
<1>5. CASE Treeland!PreviewEvent
  <2>1. UNCHANGED Treeland!monitor
    BY <1>5 DEF Treeland!PreviewEvent
  <2> QED
    BY <1>5, <2>1, WindowStutter, PreviewEventKeeps
<1>6. CASE Treeland!TimerFires
  <2>1. UNCHANGED Treeland!monitor
    BY <1>6 DEF Treeland!TimerFires
  <2> QED
    BY <1>6, <2>1, WindowStutter, TimerFiresKeeps
<1>7. CASE Treeland!Timeout
  <2>1. UNCHANGED Treeland!monitor
    BY <1>7 DEF Treeland!Timeout
  <2> QED
    BY <1>7, <2>1, WindowStutter, TimeoutKeeps
<1>8. CASE Treeland!VisibleChanged
  <2>1. UNCHANGED Treeland!monitor /\ Treeland!DropContext
    BY <1>8 DEF Treeland!VisibleChanged
  <2> QED
    BY <2>1, WindowStutter, DropContextKeeps
<1>9. CASE Treeland!ActiveChanged
  <2>1. Treeland!DropContext \/ UNCHANGED <<Treeland!context, at, unreturned>>
    BY <1>9 DEF Treeland!ActiveChanged
  <2> QED
    BY <1>9, <2>1, ActiveChangedKeeps, DropContextKeeps, HoverStutter
<1>10. CASE UNCHANGED Treeland!vars
  <2>1. UNCHANGED Treeland!monitor /\ UNCHANGED <<Treeland!context, at, unreturned>>
    BY <1>10 DEF Treeland!vars
  <2> QED
    BY <2>1, WindowStutter, HoverStutter
<1> QED
  BY <1>1, <1>2, <1>3, <1>4, <1>5, <1>6, <1>7, <1>8, <1>9, <1>10 DEF Treeland!Next

LEMMA TreelandInvSound == TreelandInv => Treeland!TreelandSound
BY DEF TreelandInv, WindowInv, RowsOnce, RowsOfReady, StandsFor, HoverInv, Distinct, ListOf,
       Treeland!TreelandSound, Treeland!RowsRight

-----------------------------------------------------------------------------
(* The overlap on X11.                                                        *)

In(s, e) == \E i \in DOMAIN s : s[i] = e

Message == {"list", "state", "geometry"} \X Top
Places  == Place \cup {{}}

ServerTypes ==
  /\ clients \subseteq Top /\ gone \subseteq Top /\ minimized \subseteq Top
  /\ place \in [Top -> Places] /\ selected \subseteq Top /\ events \in Seq(Message)

DockTypes ==
  /\ area \in Area \cup {NoWhere} /\ dockArea \in Area \cup {NoWhere}
  /\ areaTimer \in BOOLEAN /\ smart \in BOOLEAN /\ desktop \in BOOLEAN
  /\ heard \in BOOLEAN

KnownTypes ==
  /\ DOMAIN windows \subseteq Top /\ windows \in [DOMAIN windows -> Overlap!Data]
  /\ adding \subseteq Top /\ requests \in Seq(Message)

\* What is left of the adding of a window that is known by now.
Adds(r, w) == r = << <<"state", w>>, <<"geometry", w>> >> \/ r = << <<"geometry", w>> >>

\* Handling a client list: when no news of another is under way, the windows known are
\* the clients, or will be at the end.
ListInv ==
  /\ DOMAIN windows \subseteq selected
  /\ ~smart => windows = Overlap!Nothing /\ list = NoList
  /\ list = NoList => adding = {} /\ requests = <<>>
  /\ list # NoList => list \subseteq DOMAIN windows \cup adding
  /\ requests # <<>> => \E w \in DOMAIN windows : Adds(requests, w)
  /\ smart /\ (\A w \in Top : ~In(events, <<"list", w>>)) =>
       IF list = NoList THEN DOMAIN windows = clients ELSE list = clients

\* An answer of the server is under way, or asked for next.
Awaited(kind, w) == In(events, <<kind, w>>) \/ In(requests, <<kind, w>>)

\* What is known of a window that lives is so, or is about to be heard; its overlap goes
\* by what is known.
KnownRight(w) ==
  /\ w \in gone \/ Awaited("state", w) \/ windows[w].isMinimized = (w \in minimized)
  /\ w \in gone \/ Awaited("geometry", w) \/ windows[w].rect = place[w]
  /\ windows[w].overlap = (~windows[w].isMinimized /\ dockArea \in windows[w].rect)

DataInv == \A w \in DOMAIN windows : KnownRight(w)

LiveInv == clients \cap gone = {}
AreaInv == areaTimer \/ dockArea = area

OverlapInv ==
  /\ ServerTypes /\ DockTypes /\ KnownTypes
  /\ LiveInv /\ ListInv /\ DataInv /\ AreaInv /\ Overlap!HeardRight

\* What is in a sequence of messages.
LEMMA InConcat ==
  ASSUME NEW s \in Seq(Message), NEW t \in Seq(Message)
  PROVE  s \o t \in Seq(Message) /\ \A e : In(s \o t, e) <=> In(s, e) \/ In(t, e)
<1> DEFINE u == s \o t
<1>1. /\ u \in Seq(Message) /\ Len(u) = Len(s) + Len(t)
      /\ \A i \in 1..Len(s) + Len(t) : u[i] = IF i <= Len(s) THEN s[i] ELSE t[i - Len(s)]
  BY ConcatProperties
<1>2. /\ Len(s) \in Nat /\ Len(t) \in Nat
      /\ DOMAIN s = 1..Len(s) /\ DOMAIN t = 1..Len(t) /\ DOMAIN u = 1..Len(s) + Len(t)
  BY <1>1
<1> HIDE DEF u
<1>3. ASSUME NEW i \in DOMAIN u PROVE In(s, u[i]) \/ In(t, u[i])
  <2>1. CASE i <= Len(s)
    BY <1>1, <1>2, <2>1 DEF In
  <2>2. CASE ~(i <= Len(s))
    <3>1. i - Len(s) \in DOMAIN t /\ u[i] = t[i - Len(s)]
      BY <1>1, <1>2, <2>2
    <3> QED
      BY <3>1 DEF In
  <2> QED
    BY <2>1, <2>2
<1>4. ASSUME NEW i \in DOMAIN s PROVE In(u, s[i])
  <2>1. i \in DOMAIN u /\ u[i] = s[i]
    BY <1>1, <1>2
  <2> QED
    BY <2>1 DEF In
<1>5. ASSUME NEW i \in DOMAIN t PROVE In(u, t[i])
  <2>1. Len(s) + i \in DOMAIN u /\ ~(Len(s) + i <= Len(s)) /\ (Len(s) + i) - Len(s) = i
    BY <1>2
  <2>2. u[Len(s) + i] = t[i]
    BY <1>1, <1>2, <2>1
  <2> QED
    BY <2>1, <2>2 DEF In
<1>6. \A e : In(u, e) <=> In(s, e) \/ In(t, e)
  BY <1>3, <1>4, <1>5 DEF In
<1> QED
  BY <1>1, <1>6 DEF u

LEMMA InTail ==
  ASSUME NEW s \in Seq(Message), s # <<>>
  PROVE  /\ Head(s) \in Message /\ Tail(s) \in Seq(Message)
         /\ \A e : In(s, e) <=> e = Head(s) \/ In(Tail(s), e)
<1> DEFINE t == Tail(s)
<1>1. /\ Head(s) \in Message /\ t \in Seq(Message) /\ Len(t) = Len(s) - 1
      /\ \A i \in 1..Len(t) : t[i] = s[i + 1]
  BY HeadTailProperties
<1>2. /\ Head(s) = s[1] /\ Len(s) \in Nat /\ Len(s) # 0
      /\ DOMAIN s = 1..Len(s) /\ DOMAIN t = 1..Len(t)
  BY <1>1, EmptySeq
<1> HIDE DEF t
<1>3. 1 \in DOMAIN s
  BY <1>2
<1>4. ASSUME NEW i \in DOMAIN s PROVE s[i] = Head(s) \/ In(t, s[i])
  <2>1. CASE i = 1
    BY <1>2, <2>1
  <2>2. CASE i # 1
    <3>1. i - 1 \in DOMAIN t /\ (i - 1) + 1 = i
      BY <1>1, <1>2, <2>2
    <3>2. t[i - 1] = s[i]
      BY <1>1, <1>2, <3>1
    <3> QED
      BY <3>1, <3>2 DEF In
  <2> QED
    BY <2>1, <2>2
<1>5. ASSUME NEW i \in DOMAIN t PROVE In(s, t[i])
  <2>1. i + 1 \in DOMAIN s /\ t[i] = s[i + 1]
    BY <1>1, <1>2
  <2> QED
    BY <2>1 DEF In
<1>6. \A e : In(s, e) <=> e = Head(s) \/ In(t, e)
  BY <1>2, <1>3, <1>4, <1>5 DEF In
<1> QED
  BY <1>1, <1>6 DEF t

LEMMA InOne ==
  ASSUME NEW m \in Message
  PROVE  <<m>> \in Seq(Message) /\ \A e : In(<<m>>, e) <=> e = m
BY DEF In

LEMMA InNone == <<>> \in Seq(Message) /\ \A e : ~In(<<>>, e)
BY DEF In

\* What the server tells of a window.
LEMMA EventIs ==
  ASSUME NEW w \in Top, NEW kind \in {"state", "geometry"}
  PROVE  /\ Overlap!Event(kind, w) \in Seq(Message)
         /\ \A e : In(Overlap!Event(kind, w), e) <=> w \in selected /\ e = <<kind, w>>
<1>1. <<kind, w>> \in Message
  BY DEF Message
<1> QED
  BY <1>1, InOne, InNone DEF Overlap!Event

LEMMA ListEventIs ==
  ASSUME NEW w \in Top
  PROVE  /\ Overlap!ListEvent(w) \in Seq(Message)
         /\ \A e : In(Overlap!ListEvent(w), e) <=> e = <<"list", w>>
<1>1. <<"list", w>> \in Message
  BY DEF Message
<1> QED
  BY <1>1, InOne DEF Overlap!ListEvent

\* The server goes on and tells of every change: the dock's knowledge stays right.
LEMMA ServerTells ==
  ASSUME OverlapInv, ServerTypes', LiveInv',
         UNCHANGED <<selected, area, areaTimer, smart, desktop, windows, dockArea, list,
                     adding, requests, heard>>,
         gone \subseteq gone',
         \A e : In(events, e) => In(events', e),
         clients' = clients \/ \E w \in Top : In(events', <<"list", w>>),
         \A w \in selected \ gone' : (w \in minimized' <=> w \in minimized)
                                   \/ In(events', <<"state", w>>),
         \A w \in selected \ gone' : place'[w] = place[w] \/ In(events', <<"geometry", w>>)
  PROVE  OverlapInv'
<1>1. DockTypes' /\ KnownTypes' /\ AreaInv'
  BY DEF OverlapInv, DockTypes, KnownTypes, AreaInv, Overlap!Data
<1>2. ListInv'
  <2>1. ListInv
    BY DEF OverlapInv
  <2> QED
    BY <2>1 DEF ListInv, Adds, Overlap!Nothing
<1>3. DataInv'
  <2> SUFFICES ASSUME NEW w \in DOMAIN windows PROVE KnownRight(w)'
    BY DEF DataInv
  <2>1. KnownRight(w) /\ w \in selected
    BY DEF OverlapInv, DataInv, ListInv
  <2>2. \A kind : Awaited(kind, w) => Awaited(kind, w)'
    BY DEF Awaited
  <2>3. w \notin gone' => w \notin gone
    OBVIOUS
  <2> QED
    BY <2>1, <2>2, <2>3 DEF KnownRight, Awaited
<1>4. Overlap!HeardRight'
  BY DEF OverlapInv, Overlap!HeardRight, Overlap!IsWindowOverlap
<1> QED
  BY <1>1, <1>2, <1>3, <1>4 DEF OverlapInv

LEMMA MapsKeeps ==
  ASSUME OverlapInv, NEW w \in Top, NEW p \in Place, Overlap!Maps(w, p),
         UNCHANGED <<selected, Overlap!panel, Overlap!helper>>
  PROVE  OverlapInv'
<1> DEFINE moved == IF p # place[w] THEN Overlap!Event("geometry", w) ELSE <<>>
           before == events \o moved
<1>1. /\ w \notin clients /\ w \notin gone /\ clients' = clients \cup {w}
      /\ place' = [place EXCEPT ![w] = p] /\ events' = before \o Overlap!ListEvent(w)
      /\ UNCHANGED <<gone, minimized, selected, area, areaTimer, smart, desktop, windows,
                     dockArea, list, adding, requests, heard>>
  BY DEF Overlap!Maps, Overlap!panel, Overlap!helper
<1>2. ServerTypes /\ LiveInv
  BY DEF OverlapInv
<1>3. /\ moved \in Seq(Message)
      /\ p # place[w] /\ w \in selected => In(moved, <<"geometry", w>>)
  BY EventIs, InNone
<1>4. before \in Seq(Message) /\ \A e : In(before, e) <=> In(events, e) \/ In(moved, e)
  BY <1>2, <1>3, InConcat DEF ServerTypes
<1> HIDE DEF moved, before
<1>5. /\ events' \in Seq(Message)
      /\ \A e : In(events', e) <=> In(before, e) \/ In(Overlap!ListEvent(w), e)
  BY <1>1, <1>4, ListEventIs, InConcat
<1>6. In(events', <<"list", w>>)
  BY <1>5, ListEventIs
<1>7. \A v \in Top : place'[v] = IF v = w THEN p ELSE place[v]
  BY <1>1, <1>2 DEF ServerTypes
<1>8. ServerTypes'
  <2>1. place' \in [Top -> Places]
    BY <1>1, <1>2 DEF ServerTypes, Places
  <2> QED
    BY <1>1, <1>2, <1>5, <2>1 DEF ServerTypes
<1>9. LiveInv'
  BY <1>1, <1>2 DEF LiveInv
<1>10. \A v \in selected \ gone' : place'[v] = place[v] \/ In(events', <<"geometry", v>>)
  BY <1>2, <1>3, <1>4, <1>5, <1>7 DEF ServerTypes
<1> QED
  BY <1>1, <1>4, <1>5, <1>6, <1>8, <1>9, <1>10, ServerTells

LEMMA UnmapsKeeps ==
  ASSUME OverlapInv, NEW w \in Top, NEW dies \in BOOLEAN, Overlap!Unmaps(w, dies),
         UNCHANGED <<selected, Overlap!panel, Overlap!helper>>
  PROVE  OverlapInv'
<1> DEFINE restored == IF w \in minimized /\ ~dies THEN Overlap!Event("state", w) ELSE <<>>
           before == events \o Overlap!ListEvent(w)
<1>1. /\ w \in clients /\ clients' = clients \ {w} /\ minimized' = minimized \ {w}
      /\ gone' = IF dies THEN gone \cup {w} ELSE gone
      /\ events' = before \o restored
      /\ UNCHANGED <<place, selected, area, areaTimer, smart, desktop, windows, dockArea,
                     list, adding, requests, heard>>
  BY DEF Overlap!Unmaps, Overlap!panel, Overlap!helper
<1>2. ServerTypes /\ LiveInv
  BY DEF OverlapInv
<1>3. before \in Seq(Message) /\ \A e : In(before, e) <=> In(events, e) \/ In(Overlap!ListEvent(w), e)
  BY <1>2, ListEventIs, InConcat DEF ServerTypes
<1>4. /\ restored \in Seq(Message)
      /\ w \in minimized /\ ~dies /\ w \in selected => In(restored, <<"state", w>>)
  BY EventIs, InNone
<1> HIDE DEF restored, before
<1>5. /\ events' \in Seq(Message)
      /\ \A e : In(events', e) <=> In(before, e) \/ In(restored, e)
  BY <1>1, <1>3, <1>4, InConcat
<1>6. In(events', <<"list", w>>)
  BY <1>3, <1>5, ListEventIs
<1>7. ServerTypes'
  BY <1>1, <1>2, <1>5 DEF ServerTypes
<1>8. LiveInv' /\ gone \subseteq gone'
  BY <1>1, <1>2 DEF LiveInv
<1>9. \A v \in selected \ gone' : (v \in minimized' <=> v \in minimized)
                                  \/ In(events', <<"state", v>>)
  BY <1>1, <1>4, <1>5
<1> QED
  BY <1>1, <1>3, <1>5, <1>6, <1>7, <1>8, <1>9, ServerTells

LEMMA ConfiguresKeeps ==
  ASSUME OverlapInv, NEW w \in Top, NEW p \in Place, Overlap!Configures(w, p),
         UNCHANGED <<selected, Overlap!panel, Overlap!helper>>
  PROVE  OverlapInv'
<1>1. /\ place' = [place EXCEPT ![w] = p] /\ events' = events \o Overlap!Event("geometry", w)
      /\ UNCHANGED <<clients, gone, minimized, selected, area, areaTimer, smart, desktop,
                     windows, dockArea, list, adding, requests, heard>>
  BY DEF Overlap!Configures, Overlap!panel, Overlap!helper
<1>2. ServerTypes /\ LiveInv
  BY DEF OverlapInv
<1>3. /\ events' \in Seq(Message)
      /\ \A e : In(events', e) <=> In(events, e) \/ (w \in selected /\ e = <<"geometry", w>>)
  BY <1>1, <1>2, EventIs, InConcat DEF ServerTypes
<1>4. \A v \in Top : place'[v] = IF v = w THEN p ELSE place[v]
  BY <1>1, <1>2 DEF ServerTypes
<1>5. ServerTypes' /\ LiveInv'
  <2>1. place' \in [Top -> Places]
    BY <1>1, <1>2 DEF ServerTypes, Places
  <2> QED
    BY <1>1, <1>2, <1>3, <2>1 DEF ServerTypes, LiveInv
<1>6. \A v \in selected \ gone' : place'[v] = place[v] \/ In(events', <<"geometry", v>>)
  BY <1>2, <1>3, <1>4 DEF ServerTypes
<1> QED
  BY <1>1, <1>3, <1>5, <1>6, ServerTells

LEMMA MinimisesKeeps ==
  ASSUME OverlapInv, NEW w \in Top, Overlap!Minimises(w),
         UNCHANGED <<selected, Overlap!panel, Overlap!helper>>
  PROVE  OverlapInv'
<1>1. /\ minimized' = IF w \in minimized THEN minimized \ {w} ELSE minimized \cup {w}
      /\ events' = events \o Overlap!Event("state", w)
      /\ UNCHANGED <<clients, gone, place, selected, area, areaTimer, smart, desktop,
                     windows, dockArea, list, adding, requests, heard>>
  BY DEF Overlap!Minimises, Overlap!panel, Overlap!helper
<1>2. ServerTypes /\ LiveInv
  BY DEF OverlapInv
<1>3. /\ events' \in Seq(Message)
      /\ \A e : In(events', e) <=> In(events, e) \/ (w \in selected /\ e = <<"state", w>>)
  BY <1>1, <1>2, EventIs, InConcat DEF ServerTypes
<1>4. ServerTypes' /\ LiveInv'
  BY <1>1, <1>2, <1>3 DEF ServerTypes, LiveInv
<1>5. \A v \in selected \ gone' : (v \in minimized' <=> v \in minimized)
                                  \/ In(events', <<"state", v>>)
  BY <1>1, <1>3
<1> QED
  BY <1>1, <1>3, <1>4, <1>5, ServerTells

LEMMA ServerKeeps ==
  ASSUME OverlapInv, Overlap!Server
  PROVE  OverlapInv'
BY MapsKeeps, UnmapsKeeps, ConfiguresKeeps, MinimisesKeeps DEF Overlap!Server

\* The data of a window after its overlap is computed.
LEMMA UpdatedIs ==
  ASSUME NEW d \in Overlap!Data, NEW a
  PROVE  /\ Overlap!Updated(d, a) \in Overlap!Data
         /\ Overlap!Updated(d, a).rect = d.rect
         /\ Overlap!Updated(d, a).isMinimized = d.isMinimized
         /\ Overlap!Updated(d, a).overlap = (~d.isMinimized /\ a \in d.rect)
BY DEF Overlap!Updated, Overlap!Data

LEMMA WithIs ==
  ASSUME KnownTypes, NEW w \in Top, NEW d \in Overlap!Data
  PROVE  /\ DOMAIN Overlap!With(w, d) = DOMAIN windows \cup {w}
         /\ Overlap!With(w, d) \in [DOMAIN windows \cup {w} -> Overlap!Data]
         /\ Overlap!With(w, d)[w] = d
         /\ \A v \in DOMAIN windows : v # w => Overlap!With(w, d)[v] = windows[v]
BY DEF KnownTypes, Overlap!With

\* A window that is known, after its state or its rectangle was read.
LEMMA RefreshedIs ==
  ASSUME OverlapInv, NEW w \in DOMAIN windows, NEW kind \in {"state", "geometry"}
  PROVE  LET data == Overlap!Refreshed(kind, w) IN
         /\ DOMAIN data = DOMAIN windows /\ data \in [DOMAIN windows -> Overlap!Data]
         /\ \A v \in DOMAIN windows : v # w => data[v] = windows[v]
         /\ data[w].isMinimized = IF kind = "state" THEN w \in minimized
                                                   ELSE windows[w].isMinimized
         /\ data[w].rect = IF kind = "state" THEN windows[w].rect
                           ELSE IF w \in gone THEN {} ELSE place[w]
         /\ data[w].overlap = (~data[w].isMinimized /\ dockArea \in data[w].rect)
<1> DEFINE read == IF kind = "state" THEN Overlap!StateOf(w) ELSE Overlap!RectOf(w)
           d == Overlap!Updated(read, dockArea)
<1>1. /\ KnownTypes /\ w \in Top /\ windows[w] \in Overlap!Data
      /\ place[w] \in Places /\ {} \in Places
  BY DEF OverlapInv, KnownTypes, ServerTypes, Places
<1>2. Overlap!DataOf(w) = windows[w]
  BY DEF Overlap!DataOf
<1>3. read \in Overlap!Data
  <2>1. Overlap!StateOf(w) \in Overlap!Data
    <3> DEFINE b == w \in minimized
    <3>1. b \in BOOLEAN /\ Overlap!StateOf(w) = [windows[w] EXCEPT !.isMinimized = b]
      BY <1>2 DEF Overlap!StateOf
    <3> HIDE DEF b
    <3> QED
      BY <1>1, <3>1 DEF Overlap!Data
  <2>2. Overlap!RectOf(w) \in Overlap!Data
    BY <1>1, <1>2 DEF Overlap!RectOf, Overlap!Data, Places
  <2> QED
    BY <2>1, <2>2
<1>4. read.isMinimized = IF kind = "state" THEN w \in minimized ELSE windows[w].isMinimized
  BY <1>1, <1>2 DEF Overlap!StateOf, Overlap!RectOf, Overlap!Data
<1>5. read.rect = IF kind = "state" THEN windows[w].rect
                  ELSE IF w \in gone THEN {} ELSE place[w]
  BY <1>1, <1>2 DEF Overlap!StateOf, Overlap!RectOf, Overlap!Data
<1> HIDE DEF read
<1>6. /\ d \in Overlap!Data /\ d.rect = read.rect /\ d.isMinimized = read.isMinimized
      /\ d.overlap = (~read.isMinimized /\ dockArea \in read.rect)
  BY <1>3, UpdatedIs
<1>7. Overlap!Refreshed(kind, w) = Overlap!With(w, d)
  BY DEF Overlap!Refreshed, read
<1> HIDE DEF d
<1>8. /\ DOMAIN Overlap!With(w, d) = DOMAIN windows
      /\ Overlap!With(w, d) \in [DOMAIN windows -> Overlap!Data]
      /\ Overlap!With(w, d)[w] = d
      /\ \A v \in DOMAIN windows : v # w => Overlap!With(w, d)[v] = windows[v]
  <2>1. DOMAIN windows \cup {w} = DOMAIN windows
    OBVIOUS
  <2> QED
    BY <1>1, <1>6, <2>1, WithIs
<1> QED
  BY <1>4, <1>5, <1>6, <1>7, <1>8

\* isWindowOverlapChanged is emitted whenever its answer changes.
LEMMA BecomesHeard ==
  ASSUME OverlapInv, NEW data, DOMAIN data = DOMAIN windows, Overlap!Becomes(data),
         UNCHANGED desktop
  PROVE  Overlap!HeardRight' /\ heard' \in BOOLEAN
<1>1. /\ windows' = data
      /\ heard' = IF \E w \in DOMAIN windows : data[w].overlap # windows[w].overlap
                  THEN Overlap!IsWindowOverlap(data, desktop) ELSE heard
  BY DEF Overlap!Becomes
<1>2. heard = Overlap!IsWindowOverlap(windows, desktop)
  BY DEF OverlapInv, Overlap!HeardRight
<1>3. CASE \E w \in DOMAIN windows : data[w].overlap # windows[w].overlap
  <2>1. heard' = Overlap!IsWindowOverlap(data, desktop)
    BY <1>1, <1>3
  <2> QED
    BY <1>1, <2>1 DEF Overlap!HeardRight, Overlap!IsWindowOverlap
<1>4. CASE \A w \in DOMAIN windows : data[w].overlap = windows[w].overlap
  <2>1. heard' = heard
    BY <1>1, <1>4
  <2>2. Overlap!IsWindowOverlap(data, desktop) = Overlap!IsWindowOverlap(windows, desktop)
    BY <1>4 DEF Overlap!IsWindowOverlap
  <2>3. heard \in BOOLEAN
    BY DEF OverlapInv, DockTypes
  <2> QED
    BY <1>1, <1>2, <2>1, <2>2, <2>3 DEF Overlap!HeardRight
<1> QED
  BY <1>3, <1>4

\* A window that is known is read anew, and what else is awaited stays so.
LEMMA RefreshKeeps ==
  ASSUME OverlapInv, NEW w \in DOMAIN windows, NEW kind \in {"state", "geometry"},
         Overlap!Becomes(Overlap!Refreshed(kind, w)),
         UNCHANGED <<gone, place, minimized, dockArea, desktop>>,
         \A k \in {"state", "geometry"}, v \in Top :
            Awaited(k, v) => Awaited(k, v)' \/ <<k, v>> = <<kind, w>>
  PROVE  /\ DOMAIN windows' = DOMAIN windows
         /\ windows' \in [DOMAIN windows' -> Overlap!Data]
         /\ DataInv' /\ Overlap!HeardRight' /\ heard' \in BOOLEAN
<1> DEFINE data == Overlap!Refreshed(kind, w)
<1>1. /\ DOMAIN data = DOMAIN windows /\ data \in [DOMAIN windows -> Overlap!Data]
      /\ \A v \in DOMAIN windows : v # w => data[v] = windows[v]
      /\ data[w].isMinimized = IF kind = "state" THEN w \in minimized
                                                ELSE windows[w].isMinimized
      /\ data[w].rect = IF kind = "state" THEN windows[w].rect
                        ELSE IF w \in gone THEN {} ELSE place[w]
      /\ data[w].overlap = (~data[w].isMinimized /\ dockArea \in data[w].rect)
  BY RefreshedIs
<1>2. Overlap!Becomes(data)
  OBVIOUS
<1> HIDE DEF data
<1>3. windows' = data
  BY <1>2 DEF Overlap!Becomes
<1>4. Overlap!HeardRight' /\ heard' \in BOOLEAN
  BY <1>1, <1>2, BecomesHeard
<1>5. DataInv'
  <2> SUFFICES ASSUME NEW v \in DOMAIN windows PROVE KnownRight(v)'
    BY <1>1, <1>3 DEF DataInv
  <2>1. KnownRight(v) /\ v \in Top
    BY DEF OverlapInv, DataInv, KnownTypes
  <2>2. CASE v = w
    <3>1. w \in gone' \/ Awaited("state", w)' \/ windows'[w].isMinimized = (w \in minimized')
      <4>1. CASE kind = "state"
        BY <1>1, <1>3, <4>1
      <4>2. CASE kind = "geometry"
        <5>1. windows'[w].isMinimized = windows[w].isMinimized
          BY <1>1, <1>3, <4>2
        <5>2. Awaited("state", w) => Awaited("state", w)'
          BY <2>1, <2>2, <4>2
        <5> QED
          BY <2>1, <2>2, <5>1, <5>2 DEF KnownRight
      <4> QED
        BY <4>1, <4>2
    <3>2. w \in gone' \/ Awaited("geometry", w)' \/ windows'[w].rect = place'[w]
      <4>1. CASE kind = "state"
        <5>1. windows'[w].rect = windows[w].rect
          BY <1>1, <1>3, <4>1
        <5>2. Awaited("geometry", w) => Awaited("geometry", w)'
          BY <2>1, <2>2, <4>1
        <5> QED
          BY <2>1, <2>2, <5>1, <5>2 DEF KnownRight
      <4>2. CASE kind = "geometry"
        BY <1>1, <1>3, <4>2
      <4> QED
        BY <4>1, <4>2
    <3>3. windows'[w].overlap = (~windows'[w].isMinimized /\ dockArea' \in windows'[w].rect)
      BY <1>1, <1>3
    <3> QED
      BY <2>2, <3>1, <3>2, <3>3 DEF KnownRight
  <2>3. CASE v # w
    <3>1. windows'[v] = windows[v]
      BY <1>1, <1>3, <2>3
    <3>2. \A k \in {"state", "geometry"} : Awaited(k, v) => Awaited(k, v)'
      BY <2>1, <2>3
    <3> QED
      BY <2>1, <3>1, <3>2 DEF KnownRight
  <2> QED
    BY <2>2, <2>3
<1> QED
  BY <1>1, <1>3, <1>4, <1>5

\* Windows are dropped, and the dock hears of it.
LEMMA EraseKeeps ==
  ASSUME OverlapInv, NEW these, Overlap!Erase(these),
         UNCHANGED <<gone, place, minimized, dockArea, desktop, events, requests>>
  PROVE  /\ DOMAIN windows' = DOMAIN windows \cap these
         /\ windows' \in [DOMAIN windows' -> Overlap!Data]
         /\ DataInv' /\ Overlap!HeardRight' /\ heard' \in BOOLEAN
<1> DEFINE rest == [w \in DOMAIN windows \cap these |-> windows[w]]
<1>1. /\ windows' = rest
      /\ heard' = IF rest # windows THEN Overlap!IsWindowOverlap(rest, desktop) ELSE heard
  BY DEF Overlap!Erase
<1>2. /\ DOMAIN rest = DOMAIN windows \cap these
      /\ \A w \in DOMAIN rest : w \in DOMAIN windows /\ rest[w] = windows[w]
  OBVIOUS
<1>3. rest \in [DOMAIN windows \cap these -> Overlap!Data]
  BY DEF OverlapInv, KnownTypes
<1> HIDE DEF rest
<1>4. DataInv'
  <2> SUFFICES ASSUME NEW w \in DOMAIN rest PROVE KnownRight(w)'
    BY <1>1 DEF DataInv
  <2>1. KnownRight(w) /\ windows'[w] = windows[w]
    BY <1>1, <1>2 DEF OverlapInv, DataInv
  <2> QED
    BY <2>1 DEF KnownRight, Awaited
<1>5. Overlap!HeardRight' /\ heard' \in BOOLEAN
  <2>1. heard = Overlap!IsWindowOverlap(windows, desktop) /\ heard \in BOOLEAN
    BY DEF OverlapInv, Overlap!HeardRight, DockTypes
  <2>2. heard' = Overlap!IsWindowOverlap(rest, desktop)
    BY <1>1, <2>1
  <2> QED
    BY <1>1, <2>2 DEF Overlap!HeardRight, Overlap!IsWindowOverlap
<1> QED
  BY <1>1, <1>2, <1>3, <1>4, <1>5

\* A list is read: the windows it has and the dock does not know are to be added.
LEMMA AddsAre ==
  ASSUME NEW w \in Top
  PROVE  LET r == Tail(Overlap!Added(w)) IN
         /\ Head(Overlap!Added(w)) = <<"select", w>>
         /\ r = << <<"state", w>>, <<"geometry", w>> >>
         /\ r \in Seq(Message) /\ r # <<>>
         /\ \A e : In(r, e) <=> e = <<"state", w>> \/ e = <<"geometry", w>>
<1>1. /\ Head(Overlap!Added(w)) = <<"select", w>>
      /\ Tail(Overlap!Added(w)) = << <<"state", w>>, <<"geometry", w>> >>
  BY DEF Overlap!Added
<1>2. << <<"state", w>>, <<"geometry", w>> >> \in Seq(Message)
  BY DEF Message
<1>3. \A e : In(<< <<"state", w>>, <<"geometry", w>> >>, e)
               <=> e = <<"state", w>> \/ e = <<"geometry", w>>
  BY DEF In
<1>4. << <<"state", w>>, <<"geometry", w>> >> # <<>>
  BY <1>3, InNone
<1> QED
  BY <1>1, <1>2, <1>3, <1>4

\* A window is added: its events are asked for, and then its state and its rectangle.
LEMMA SelectKeeps ==
  ASSUME OverlapInv, list # NoList, requests = <<>>, NEW w \in adding,
         requests' = Tail(Overlap!Added(w)), adding' = adding \ {w},
         windows' = Overlap!With(w, Overlap!DataOf(w)), selected' = selected \cup {w},
         UNCHANGED <<heard, list, clients, gone, place, minimized, events, area, areaTimer,
                     smart, desktop, dockArea>>
  PROVE  OverlapInv'
<1>1. ServerTypes /\ DockTypes /\ KnownTypes /\ ListInv /\ w \in Top /\ smart
  BY DEF OverlapInv, KnownTypes, ListInv
<1>2. /\ requests' = << <<"state", w>>, <<"geometry", w>> >>
      /\ requests' \in Seq(Message) /\ requests' # <<>>
      /\ In(requests', <<"state", w>>) /\ In(requests', <<"geometry", w>>)
  BY <1>1, AddsAre
<1> DEFINE d == Overlap!DataOf(w)
<1>3. d \in Overlap!Data /\ d.overlap = (~d.isMinimized /\ dockArea \in d.rect)
  <2>1. CASE w \in DOMAIN windows
    <3>1. d = windows[w] /\ KnownRight(w)
      BY <2>1 DEF Overlap!DataOf, OverlapInv, DataInv
    <3> QED
      BY <1>1, <2>1, <3>1 DEF KnownTypes, KnownRight
  <2>2. CASE w \notin DOMAIN windows
    <3>1. d = Overlap!NoData
      BY <2>2 DEF Overlap!DataOf
    <3>2. Overlap!NoData \in Overlap!Data
      BY DEF Overlap!NoData, Overlap!Data
    <3>3. d.overlap = FALSE /\ d.rect = {}
      BY <3>1 DEF Overlap!NoData
    <3>4. dockArea \notin d.rect
      BY <3>3
    <3> QED
      BY <3>1, <3>2, <3>3, <3>4
  <2> QED
    BY <2>1, <2>2
<1>4. w \in DOMAIN windows => d = windows[w]
  BY DEF Overlap!DataOf
<1>5. w \notin DOMAIN windows => ~d.overlap
  BY DEF Overlap!DataOf, Overlap!NoData
<1> HIDE DEF d
<1>6. /\ DOMAIN windows' = DOMAIN windows \cup {w}
      /\ windows' \in [DOMAIN windows \cup {w} -> Overlap!Data]
      /\ windows'[w] = d
      /\ \A v \in DOMAIN windows : v # w => windows'[v] = windows[v]
  <2>1. windows' = Overlap!With(w, d)
    BY DEF d
  <2>2. KnownTypes /\ w \in Top /\ d \in Overlap!Data
    BY <1>1, <1>3
  <2>3. /\ DOMAIN Overlap!With(w, d) = DOMAIN windows \cup {w}
        /\ Overlap!With(w, d) \in [DOMAIN windows \cup {w} -> Overlap!Data]
        /\ Overlap!With(w, d)[w] = d
        /\ \A v \in DOMAIN windows : v # w => Overlap!With(w, d)[v] = windows[v]
    BY ONLY <2>2, WithIs
  <2> QED
    BY ONLY <2>1, <2>3
<1>7. ServerTypes' /\ DockTypes'
  BY <1>1 DEF ServerTypes, DockTypes
<1>8. KnownTypes'
  BY <1>1, <1>2, <1>6 DEF KnownTypes
<1>9. ListInv'
  <2>1. Adds(requests, w)'
    BY <1>2 DEF Adds
  <2> QED
    BY <1>1, <1>2, <1>6, <2>1 DEF ListInv
<1>10. DataInv'
  <2> SUFFICES ASSUME NEW v \in DOMAIN windows' PROVE KnownRight(v)'
    BY DEF DataInv
  <2>1. CASE v = w
    BY <1>2, <1>3, <1>6, <2>1 DEF KnownRight, Awaited
  <2>2. CASE v # w
    <3>1. v \in DOMAIN windows /\ KnownRight(v) /\ windows'[v] = windows[v]
      BY <1>6, <2>2 DEF OverlapInv, DataInv
    <3>2. \A kind : Awaited(kind, v) => Awaited(kind, v)'
      BY InNone DEF Awaited
    <3> QED
      BY <3>1, <3>2 DEF KnownRight
  <2> QED
    BY <2>1, <2>2
<1>11. LiveInv' /\ AreaInv'
  BY DEF OverlapInv, LiveInv, AreaInv
<1>12. Overlap!HeardRight'
  <2>1. heard = Overlap!IsWindowOverlap(windows, desktop)
    BY DEF OverlapInv, Overlap!HeardRight
  <2>2. (\E v \in DOMAIN windows' : windows'[v].overlap)
          <=> (\E v \in DOMAIN windows : windows[v].overlap)
    BY <1>4, <1>5, <1>6
  <2> QED
    BY <2>1, <2>2 DEF Overlap!HeardRight, Overlap!IsWindowOverlap
<1> QED
  BY <1>7, <1>8, <1>9, <1>10, <1>11, <1>12 DEF OverlapInv

\* What is left of the adding of a window is asked next.
LEMMA AskKeeps ==
  ASSUME OverlapInv, list # NoList, requests # <<>>,
         requests' = Tail(requests), adding' = adding \ {Head(requests)[2]},
         Overlap!Asked(Head(requests)[1], Head(requests)[2]),
         UNCHANGED <<list, clients, gone, place, minimized, events, area, areaTimer, smart,
                     desktop, dockArea>>
  PROVE  OverlapInv'
<1>1. ServerTypes /\ DockTypes /\ KnownTypes /\ ListInv /\ requests \in Seq(Message)
  BY DEF OverlapInv, KnownTypes
<1>2. PICK w \in DOMAIN windows : Adds(requests, w)
  BY <1>1 DEF ListInv
<1> DEFINE kind == Head(requests)[1]
<1>3. /\ w \in Top /\ kind \in {"state", "geometry"} /\ Head(requests) = <<kind, w>>
      /\ Tail(requests) = <<>> \/ Adds(Tail(requests), w)
  <2>1. CASE requests = << <<"state", w>>, <<"geometry", w>> >>
    <3>1. Head(requests) = <<"state", w>> /\ Tail(requests) = << <<"geometry", w>> >>
      BY <2>1
    <3> QED
      BY <1>1, <3>1 DEF KnownTypes, Adds
  <2>2. CASE requests = << <<"geometry", w>> >>
    <3>1. Head(requests) = <<"geometry", w>> /\ Tail(requests) = <<>>
      BY <2>2
    <3> QED
      BY <1>1, <3>1 DEF KnownTypes
  <2> QED
    BY <1>2, <2>1, <2>2 DEF Adds
<1>4. /\ requests' \in Seq(Message)
      /\ \A e : In(requests, e) <=> e = <<kind, w>> \/ In(requests', e)
  BY <1>1, <1>3, InTail
<1>5. Head(requests)[2] = w
  BY <1>3
<1> HIDE DEF kind
<1>6. Overlap!Asked(kind, w)
  BY <1>5 DEF kind
<1>7. Overlap!Becomes(Overlap!Refreshed(kind, w)) /\ UNCHANGED selected
  BY <1>3, <1>6 DEF Overlap!Asked
<1>8. \A k \in {"state", "geometry"}, v \in Top :
         Awaited(k, v) => Awaited(k, v)' \/ <<k, v>> = <<kind, w>>
  BY <1>4 DEF Awaited
<1>9. /\ DOMAIN windows' = DOMAIN windows
      /\ windows' \in [DOMAIN windows' -> Overlap!Data]
      /\ DataInv' /\ Overlap!HeardRight' /\ heard' \in BOOLEAN
  BY <1>3, <1>7, <1>8, RefreshKeeps
<1>10. ServerTypes' /\ DockTypes' /\ KnownTypes'
  BY <1>1, <1>4, <1>7, <1>9 DEF ServerTypes, DockTypes, KnownTypes
<1>11. ListInv'
  <2>1. requests' # <<>> => Adds(requests, w)'
    BY <1>3 DEF Adds
  <2>2. adding \subseteq adding' \cup {w}
    BY <1>5
  <2> QED
    BY <1>1, <1>7, <1>9, <2>1, <2>2 DEF ListInv
<1>12. LiveInv' /\ AreaInv'
  BY DEF OverlapInv, LiveInv, AreaInv
<1> QED
  BY <1>9, <1>10, <1>11, <1>12 DEF OverlapInv

\* The next step of the handling of a client list.
LEMMA RequestsKeep ==
  ASSUME OverlapInv, Overlap!Request
  PROVE  OverlapInv'
<1>1. /\ list # NoList
      /\ UNCHANGED <<clients, gone, place, minimized, events, area, areaTimer, smart, desktop,
                     dockArea>>
  BY DEF Overlap!Request, Overlap!panel
<1>2. ServerTypes /\ DockTypes /\ KnownTypes /\ ListInv
  BY DEF OverlapInv
<1>3. CASE /\ \E next \in IF requests # <<>> THEN {requests} ELSE {Overlap!Added(w) : w \in adding} :
                /\ requests' = Tail(next) /\ adding' = adding \ {Head(next)[2]}
                /\ Overlap!Asked(Head(next)[1], Head(next)[2])
           /\ UNCHANGED list
  <2>1. CASE requests # <<>>
    BY <1>1, <1>3, <2>1, AskKeeps
  <2>2. CASE requests = <<>>
    <3>1. PICK w \in adding : /\ requests' = Tail(Overlap!Added(w))
                              /\ adding' = adding \ {Head(Overlap!Added(w))[2]}
                              /\ Overlap!Asked(Head(Overlap!Added(w))[1], Head(Overlap!Added(w))[2])
      BY <1>3, <2>2
    <3>2. Head(Overlap!Added(w))[1] = "select" /\ Head(Overlap!Added(w))[2] = w
      BY DEF Overlap!Added
    <3>3. /\ windows' = Overlap!With(w, Overlap!DataOf(w)) /\ selected' = selected \cup {w}
          /\ UNCHANGED heard
      BY <3>1, <3>2 DEF Overlap!Asked
    <3> QED
      BY <1>1, <1>3, <2>2, <3>1, <3>2, <3>3, SelectKeeps
  <2> QED
    BY <2>1, <2>2
<1>4. CASE /\ requests = <<>> /\ adding = {} /\ list' = NoList
           /\ Overlap!Erase(list) /\ UNCHANGED <<requests, adding, selected>>
  <2>1. /\ DOMAIN windows' = DOMAIN windows \cap list
        /\ windows' \in [DOMAIN windows' -> Overlap!Data]
        /\ DataInv' /\ Overlap!HeardRight' /\ heard' \in BOOLEAN
    BY <1>1, <1>4, EraseKeeps
  <2>2. smart /\ list \subseteq DOMAIN windows
    BY <1>1, <1>2, <1>4 DEF ListInv
  <2>3. ServerTypes' /\ DockTypes' /\ KnownTypes'
    BY <1>1, <1>2, <1>4, <2>1 DEF ServerTypes, DockTypes, KnownTypes
  <2>4. ListInv'
    BY <1>1, <1>2, <1>4, <2>1, <2>2 DEF ListInv
  <2>5. LiveInv' /\ AreaInv'
    BY <1>1 DEF OverlapInv, LiveInv, AreaInv
  <2> QED
    BY <2>1, <2>3, <2>4, <2>5 DEF OverlapInv
<1> QED
  BY <1>3, <1>4 DEF Overlap!Request

\* An event of the server is heard.
LEMMA DispatchKeeps ==
  ASSUME OverlapInv, Overlap!Dispatch
  PROVE  OverlapInv'
<1> DEFINE kind == Head(events)[1]
           w    == Head(events)[2]
<1>1. /\ list = NoList /\ events # <<>> /\ events' = Tail(events)
      /\ UNCHANGED <<clients, gone, place, minimized, selected, area, areaTimer, smart,
                     desktop, dockArea>>
  BY DEF Overlap!Dispatch, Overlap!Turn, Overlap!panel
<1>2. ServerTypes /\ DockTypes /\ KnownTypes /\ ListInv /\ DataInv /\ events \in Seq(Message)
  BY DEF OverlapInv, ServerTypes
<1>3. /\ Head(events) \in Message /\ events' \in Seq(Message)
      /\ \A e : In(events, e) <=> e = Head(events) \/ In(events', e)
  BY <1>1, <1>2, InTail
<1>4. /\ kind \in {"list", "state", "geometry"} /\ w \in Top
      /\ Head(events) = <<kind, w>>
  BY <1>3 DEF Message
<1>5. \/ /\ kind = "list" /\ smart
         /\ Overlap!ListRead(windows) /\ UNCHANGED <<windows, heard>>
      \/ /\ kind # "list" /\ w \in DOMAIN windows
         /\ Overlap!Becomes(Overlap!Refreshed(kind, w)) /\ UNCHANGED <<list, adding, requests>>
      \/ /\ IF kind = "list" THEN ~smart ELSE w \notin DOMAIN windows
         /\ UNCHANGED <<windows, heard, list, adding, requests>>
  BY DEF Overlap!Dispatch
<1> HIDE DEF kind, w
<1>6. heard' \in BOOLEAN => ServerTypes' /\ DockTypes'
  BY <1>1, <1>2, <1>3 DEF ServerTypes, DockTypes
<1>7. LiveInv' /\ AreaInv'
  BY <1>1 DEF OverlapInv, LiveInv, AreaInv
<1>8. \A k, v : Awaited(k, v) /\ UNCHANGED requests => Awaited(k, v)' \/ <<k, v>> = <<kind, w>>
  BY <1>3, <1>4 DEF Awaited
<1>9. CASE /\ kind = "list" /\ smart
           /\ Overlap!ListRead(windows) /\ UNCHANGED <<windows, heard>>
  <2>1. list' = clients /\ adding' = clients \ DOMAIN windows /\ UNCHANGED requests
    BY <1>9 DEF Overlap!ListRead
  <2>2. heard' \in BOOLEAN
    BY <1>2, <1>9 DEF DockTypes
  <2>3. KnownTypes'
    BY <1>2, <1>9, <2>1 DEF KnownTypes, ServerTypes, Overlap!Data
  <2>4. clients # NoList
    BY <1>2, PartsAssumption DEF ServerTypes
  <2>5. requests' = <<>>
    BY <1>1, <1>2, <2>1 DEF ListInv
  <2>6. ListInv'
    BY <1>1, <1>2, <1>9, <2>1, <2>4, <2>5 DEF ListInv
  <2>7. DataInv'
    BY <1>1, <1>2, <1>8, <1>9, <2>1 DEF DataInv, KnownRight
  <2>8. Overlap!HeardRight'
    BY <1>1, <1>9 DEF OverlapInv, Overlap!HeardRight, Overlap!IsWindowOverlap
  <2> QED
    BY <1>6, <1>7, <2>2, <2>3, <2>6, <2>7, <2>8 DEF OverlapInv
<1>10. CASE /\ kind # "list" /\ w \in DOMAIN windows
            /\ Overlap!Becomes(Overlap!Refreshed(kind, w)) /\ UNCHANGED <<list, adding, requests>>
  <2>1. kind \in {"state", "geometry"}
    BY <1>4, <1>10
  <2>2. /\ DOMAIN windows' = DOMAIN windows
        /\ windows' \in [DOMAIN windows' -> Overlap!Data]
        /\ DataInv' /\ Overlap!HeardRight' /\ heard' \in BOOLEAN
    BY <1>1, <1>8, <1>10, <2>1, RefreshKeeps
  <2>3. KnownTypes'
    BY <1>2, <1>10, <2>2 DEF KnownTypes
  <2>4. \A v : In(events, <<"list", v>>) => In(events', <<"list", v>>)
    BY <1>3, <1>4, <1>10
  <2>5. smart
    BY <1>2, <1>10 DEF ListInv, Overlap!Nothing
  <2>6. ListInv'
    BY <1>1, <1>2, <1>10, <2>2, <2>4, <2>5 DEF ListInv
  <2> QED
    BY <1>6, <1>7, <2>2, <2>3, <2>6 DEF OverlapInv
<1>11. CASE /\ IF kind = "list" THEN ~smart ELSE w \notin DOMAIN windows
            /\ UNCHANGED <<windows, heard, list, adding, requests>>
  <2>1. heard' \in BOOLEAN
    BY <1>2, <1>11 DEF DockTypes
  <2>2. KnownTypes'
    BY <1>2, <1>11 DEF KnownTypes, Overlap!Data
  <2>3. smart => \A v : In(events, <<"list", v>>) => In(events', <<"list", v>>)
    BY <1>3, <1>4, <1>11
  <2>4. ListInv'
    BY <1>1, <1>2, <1>11, <2>3 DEF ListInv, Overlap!Nothing
  <2>5. DataInv'
    <3> SUFFICES ASSUME NEW v \in DOMAIN windows PROVE KnownRight(v)'
      BY <1>11 DEF DataInv
    <3>1. kind = "list" \/ w # v
      BY <1>11
    <3>2. \A k \in {"state", "geometry"} : Awaited(k, v) => Awaited(k, v)'
      BY <1>8, <1>11, <3>1
    <3> QED
      BY <1>1, <1>2, <1>11, <3>2 DEF DataInv, KnownRight
  <2>6. Overlap!HeardRight'
    BY <1>1, <1>11 DEF OverlapInv, Overlap!HeardRight, Overlap!IsWindowOverlap
  <2> QED
    BY <1>6, <1>7, <2>1, <2>2, <2>4, <2>5, <2>6 DEF OverlapInv
<1> QED
  BY <1>5, <1>9, <1>10, <1>11

\* No window is known: nothing lies over the dock.
LEMMA NothingKnown ==
  /\ DOMAIN Overlap!Nothing = {} /\ Overlap!Nothing \in [{} -> Overlap!Data]
  /\ \A showing : Overlap!IsWindowOverlap(Overlap!Nothing, showing) = FALSE
BY DEF Overlap!Nothing, Overlap!IsWindowOverlap

\* The hide mode is set, maybe to what it is.
LEMMA HideModeKeeps ==
  ASSUME OverlapInv, NEW s \in BOOLEAN, Overlap!HideModeChanged(s)
  PROVE  OverlapInv'
<1>1. /\ list = NoList /\ smart' = s /\ windows' = Overlap!Nothing /\ heard' = FALSE
      /\ UNCHANGED <<clients, gone, place, minimized, selected, events, area, areaTimer,
                     desktop, dockArea>>
  BY DEF Overlap!HideModeChanged, Overlap!Turn
<1>2. /\ s => list' = clients /\ adding' = clients \ {} /\ UNCHANGED requests
      /\ ~s => UNCHANGED <<list, adding, requests>>
  BY NothingKnown DEF Overlap!HideModeChanged, Overlap!ListRead
<1>3. ServerTypes /\ DockTypes /\ KnownTypes /\ ListInv
  BY DEF OverlapInv
<1>4. requests = <<>> /\ adding = {} /\ requests' = <<>> /\ adding' \subseteq clients
  BY <1>1, <1>2, <1>3 DEF ListInv
<1>5. ServerTypes' /\ DockTypes' /\ KnownTypes'
  <2>1. KnownTypes'
    BY <1>1, <1>3, <1>4, NothingKnown DEF KnownTypes, ServerTypes
  <2> QED
    BY <1>1, <1>3, <2>1 DEF ServerTypes, DockTypes
<1>6. clients # NoList
  BY <1>3, PartsAssumption DEF ServerTypes
<1>7. ListInv'
  BY <1>1, <1>2, <1>4, <1>6, NothingKnown DEF ListInv
<1>8. DataInv' /\ LiveInv' /\ AreaInv'
  BY <1>1, NothingKnown DEF DataInv, OverlapInv, LiveInv, AreaInv
<1>9. Overlap!HeardRight'
  BY <1>1, NothingKnown DEF Overlap!HeardRight, Overlap!IsWindowOverlap
<1> QED
  BY <1>5, <1>7, <1>8, <1>9 DEF OverlapInv

\* What goes on elsewhere in the dock.
LEMMA DockMovesKeeps ==
  ASSUME OverlapInv, NEW a \in Area, Overlap!DockMoves(a)
  PROVE  OverlapInv'
<1>1. /\ area' = a /\ areaTimer' = TRUE
      /\ UNCHANGED <<clients, gone, place, minimized, selected, events, smart, desktop,
                     windows, dockArea, list, adding, requests, heard>>
  BY DEF Overlap!DockMoves, Overlap!Turn, Overlap!helper
<1>2. (ServerTypes /\ DockTypes)'
  BY <1>1 DEF OverlapInv, ServerTypes, DockTypes
<1>3. KnownTypes'
  BY <1>1 DEF OverlapInv, KnownTypes, Overlap!Data
<1>4. (LiveInv /\ ListInv /\ AreaInv)'
  BY <1>1 DEF OverlapInv, LiveInv, ListInv, Adds, AreaInv, Overlap!Nothing
<1>5. DataInv'
  BY <1>1 DEF OverlapInv, DataInv, KnownRight, Awaited
<1>6. Overlap!HeardRight'
  BY <1>1 DEF OverlapInv, Overlap!HeardRight, Overlap!IsWindowOverlap
<1> QED
  BY <1>2, <1>3, <1>4, <1>5, <1>6 DEF OverlapInv

LEMMA UpdateAreaKeeps ==
  ASSUME OverlapInv, Overlap!UpdateDockArea
  PROVE  OverlapInv'
<1> DEFINE data == [w \in DOMAIN windows |-> Overlap!Updated(windows[w], area)]
<1>1. /\ areaTimer' = FALSE /\ dockArea' = area /\ Overlap!Becomes(data)
      /\ UNCHANGED <<clients, gone, place, minimized, selected, events, area, smart, desktop,
                     list, adding, requests>>
  BY DEF Overlap!UpdateDockArea, Overlap!Turn
<1>2. ServerTypes /\ DockTypes /\ KnownTypes /\ ListInv /\ DataInv
  BY DEF OverlapInv
<1>3. ASSUME NEW w \in DOMAIN windows
      PROVE  /\ data[w] \in Overlap!Data
             /\ data[w].rect = windows[w].rect
             /\ data[w].isMinimized = windows[w].isMinimized
             /\ data[w].overlap = (~windows[w].isMinimized /\ area \in windows[w].rect)
  <2>1. windows[w] \in Overlap!Data
    BY <1>2 DEF KnownTypes
  <2> QED
    BY <2>1, UpdatedIs
<1>4. DOMAIN data = DOMAIN windows /\ data \in [DOMAIN windows -> Overlap!Data]
  BY <1>3
<1> HIDE DEF data
<1>5. windows' = data
  BY <1>1 DEF Overlap!Becomes
<1>6. Overlap!HeardRight' /\ heard' \in BOOLEAN
  BY <1>1, <1>4, BecomesHeard
<1>7. (ServerTypes /\ DockTypes /\ KnownTypes)'
  BY <1>1, <1>2, <1>4, <1>5, <1>6 DEF ServerTypes, DockTypes, KnownTypes
<1>8. (LiveInv /\ AreaInv)'
  BY <1>1 DEF OverlapInv, LiveInv, AreaInv
<1>9. ListInv'
  <2>1. ~smart => data = Overlap!Nothing
    BY <1>2, <1>4 DEF ListInv, Overlap!Nothing
  <2> QED
    BY <1>1, <1>2, <1>4, <1>5, <2>1 DEF ListInv, Adds
<1>10. DataInv'
  <2> SUFFICES ASSUME NEW w \in DOMAIN windows PROVE KnownRight(w)'
    BY <1>4, <1>5 DEF DataInv
  <2>1. KnownRight(w)
    BY <1>2 DEF DataInv
  <2> QED
    BY <1>1, <1>3, <1>5, <2>1 DEF KnownRight, Awaited
<1> QED
  BY <1>6, <1>7, <1>8, <1>9, <1>10 DEF OverlapInv

LEMMA ShowingDesktopKeeps ==
  ASSUME OverlapInv, Overlap!ShowingDesktopChanged
  PROVE  OverlapInv'
<1>1. /\ desktop' = ~desktop /\ heard' = Overlap!IsWindowOverlap(windows, desktop')
      /\ UNCHANGED <<clients, gone, place, minimized, selected, events, area, areaTimer,
                     smart, windows, dockArea, list, adding, requests>>
  BY DEF Overlap!ShowingDesktopChanged, Overlap!Turn
<1>2. heard' \in BOOLEAN /\ desktop' \in BOOLEAN
  BY <1>1 DEF Overlap!IsWindowOverlap
<1>3. (ServerTypes /\ DockTypes)'
  BY <1>1, <1>2 DEF OverlapInv, ServerTypes, DockTypes
<1>4. KnownTypes'
  BY <1>1 DEF OverlapInv, KnownTypes, Overlap!Data
<1>5. (LiveInv /\ ListInv /\ AreaInv)'
  BY <1>1 DEF OverlapInv, LiveInv, ListInv, Adds, AreaInv, Overlap!Nothing
<1>6. DataInv'
  BY <1>1 DEF OverlapInv, DataInv, KnownRight, Awaited
<1>7. Overlap!HeardRight'
  BY <1>1 DEF Overlap!HeardRight, Overlap!IsWindowOverlap
<1> QED
  BY <1>3, <1>4, <1>5, <1>6, <1>7 DEF OverlapInv

LEMMA OverlapStutter ==
  ASSUME OverlapInv, UNCHANGED Overlap!vars
  PROVE  OverlapInv'
<1>1. UNCHANGED <<clients, gone, place, minimized, selected, events, area, areaTimer, smart,
                  desktop, windows, dockArea, list, adding, requests, heard>>
  BY DEF Overlap!vars, Overlap!server, Overlap!panel, Overlap!helper
<1>2. (ServerTypes /\ DockTypes)'
  BY <1>1 DEF OverlapInv, ServerTypes, DockTypes
<1>3. KnownTypes'
  BY <1>1 DEF OverlapInv, KnownTypes, Overlap!Data
<1>4. (LiveInv /\ ListInv /\ AreaInv)'
  BY <1>1 DEF OverlapInv, LiveInv, ListInv, Adds, AreaInv, Overlap!Nothing
<1>5. DataInv'
  BY <1>1 DEF OverlapInv, DataInv, KnownRight, Awaited
<1>6. Overlap!HeardRight'
  BY <1>1 DEF OverlapInv, Overlap!HeardRight, Overlap!IsWindowOverlap
<1> QED
  BY <1>2, <1>3, <1>4, <1>5, <1>6 DEF OverlapInv

LEMMA OverlapInitInv == Overlap!Init => OverlapInv
<1> SUFFICES ASSUME Overlap!Init PROVE OverlapInv
  OBVIOUS
<1>1. /\ clients = {} /\ gone = {} /\ place = [w \in Top |-> {}] /\ minimized = {}
      /\ selected = {} /\ events = <<>> /\ area = NoWhere /\ areaTimer = FALSE
      /\ smart \in BOOLEAN /\ desktop \in BOOLEAN /\ windows = Overlap!Nothing
      /\ dockArea = NoWhere /\ heard = FALSE /\ list = NoList /\ adding = {}
      /\ requests = <<>>
  BY DEF Overlap!Init
<1>2. ServerTypes
  <2>1. place \in [Top -> Places]
    BY <1>1 DEF Places
  <2> QED
    BY <1>1, <2>1, InNone DEF ServerTypes
<1>3. DockTypes
  BY <1>1 DEF DockTypes
<1>4. KnownTypes
  BY <1>1, NothingKnown, InNone DEF KnownTypes
<1>5. LiveInv /\ AreaInv
  BY <1>1 DEF LiveInv, AreaInv
<1>6. ListInv
  BY <1>1, NothingKnown DEF ListInv
<1>7. DataInv
  BY <1>1, NothingKnown DEF DataInv
<1>8. Overlap!HeardRight
  BY <1>1, NothingKnown DEF Overlap!HeardRight
<1> QED
  BY <1>2, <1>3, <1>4, <1>5, <1>6, <1>7, <1>8 DEF OverlapInv

LEMMA OverlapNextInv == OverlapInv /\ [Overlap!Next]_(Overlap!vars) => OverlapInv'
<1> SUFFICES ASSUME OverlapInv, [Overlap!Next]_(Overlap!vars) PROVE OverlapInv'
  OBVIOUS
<1>1. CASE Overlap!Server
  BY <1>1, ServerKeeps
<1>2. CASE Overlap!Request
  BY <1>2, RequestsKeep
<1>3. CASE Overlap!Dispatch
  BY <1>3, DispatchKeeps
<1>4. CASE Overlap!UpdateDockArea
  BY <1>4, UpdateAreaKeeps
<1>5. CASE Overlap!ShowingDesktopChanged
  BY <1>5, ShowingDesktopKeeps
<1>6. CASE \E s \in BOOLEAN : Overlap!HideModeChanged(s)
  BY <1>6, HideModeKeeps
<1>7. CASE \E a \in Area : Overlap!DockMoves(a)
  BY <1>7, DockMovesKeeps
<1>8. CASE UNCHANGED Overlap!vars
  BY <1>8, OverlapStutter
<1> QED
  BY <1>1, <1>2, <1>3, <1>4, <1>5, <1>6, <1>7, <1>8 DEF Overlap!Next

\* When nothing is under way or asked for, what is known is what there is.
LEMMA OverlapInvSound == OverlapInv => Overlap!OverlapFollows
<1> SUFFICES ASSUME OverlapInv PROVE Overlap!OverlapFollows
  OBVIOUS
<1>1. ServerTypes /\ DockTypes /\ KnownTypes /\ ListInv /\ DataInv /\ LiveInv /\ AreaInv
  BY DEF OverlapInv
<1>2. Overlap!TypeOK
  <2>1. {area, dockArea} \subseteq Area \cup {NoWhere}
    BY <1>1 DEF DockTypes
  <2>2. {areaTimer, smart, desktop, heard} \subseteq BOOLEAN
    BY <1>1 DEF DockTypes
  <2>3. DOMAIN windows \subseteq Top /\ \A w \in DOMAIN windows : windows[w] \in Overlap!Data
    BY <1>1 DEF KnownTypes
  <2> QED
    BY <1>1, <2>1, <2>2, <2>3 DEF ListInv, Overlap!TypeOK
<1>3. Overlap!OverlapRight
  <2> SUFFICES ASSUME smart, events = <<>>, list = NoList, ~areaTimer
               PROVE  /\ DOMAIN windows = clients
                      /\ \A w \in clients : windows[w].overlap = (w \notin minimized /\ area \in place[w])
    BY DEF Overlap!OverlapRight
  <2>1. requests = <<>> /\ \A e : ~In(events, e) /\ ~In(requests, e)
    BY <1>1, InNone DEF ListInv
  <2>2. DOMAIN windows = clients
    BY <1>1, <2>1 DEF ListInv
  <2>3. ASSUME NEW w \in clients
        PROVE  windows[w].overlap = (w \notin minimized /\ area \in place[w])
    <3>1. w \notin gone /\ w \in DOMAIN windows /\ dockArea = area
      BY <1>1, <2>2 DEF LiveInv, AreaInv
    <3>2. KnownRight(w)
      BY <1>1, <3>1 DEF DataInv
    <3>3. windows[w].isMinimized = (w \in minimized) /\ windows[w].rect = place[w]
      BY <2>1, <3>1, <3>2 DEF KnownRight, Awaited
    <3> QED
      BY <3>1, <3>2, <3>3 DEF KnownRight
  <2> QED
    BY <2>2, <2>3
<1> QED
  BY <1>2, <1>3 DEF OverlapInv, Overlap!OverlapFollows

-----------------------------------------------------------------------------
(* Each part alone, and the parts together: a step is one of at most one part.     *)

\* Once the news is heard, and unless something went astray since the center opened, the
\* staging list has the live notifications it has room for, each once, and counts the rest.
THEOREM StagingKeepsSound == Staging!Spec => []Staging!StagingSound
<1>1. Staging!Spec => []StagingInv
  BY StagingInitInv, StagingNextInv, PTL DEF Staging!Spec
<1> QED
  BY <1>1, StagingInvSound, PTL

\* Whatever the pointer, the timers and the windows do, on X11 a preview has windows to
\* show or is about to look, forgets all when it hides, and hides once it is left.
THEOREM PreviewKeepsSound == Preview!Spec => []Preview!PreviewSound
<1>1. Preview!Spec => []PreviewInv
  BY PreviewInitInv, PreviewNextInv, PTL DEF Preview!Spec
<1> QED
  BY <1>1, PreviewInvSound, PTL

\* Under Treeland the dock's rows are the windows of the compositor's ready handles, each
\* once, it is told of a fullscreen window exactly when there is one but for those that
\* came so, and a preview that is shown is held or about to close.
THEOREM TreelandKeepsSound == Treeland!Spec => []Treeland!TreelandSound
<1>1. Treeland!Spec => []TreelandInv
  BY TreelandInitInv, TreelandNextInv, PTL DEF Treeland!Spec
<1> QED
  BY <1>1, TreelandInvSound, PTL

\* Whatever the X server goes on to do while it is asked, once all it said was handled
\* the dock on X11 knows which windows lie over it.
THEOREM OverlapKeepsUp == Overlap!Spec => []Overlap!OverlapFollows
<1>1. Overlap!Spec => []OverlapInv
  BY OverlapInitInv, OverlapNextInv, PTL DEF Overlap!Spec
<1> QED
  BY <1>1, OverlapInvSound, PTL

LEMMA PartsStepIsStagings ==
  [PartsNext]_<<part, vars, stagingVars, previewVars, treelandVars, overlapVars>>
    => [Staging!Next]_(Staging!vars)
<1> SUFFICES ASSUME [PartsNext]_<<part, vars, stagingVars, previewVars, treelandVars, overlapVars>>
             PROVE  [Staging!Next]_(Staging!vars)
  OBVIOUS
<1>1. UNCHANGED stagingVars => UNCHANGED Staging!vars
  BY DEF stagingVars, Staging!vars
<1>2. Staging!Next \/ UNCHANGED stagingVars
  BY DEF PartsNext
<1> QED
  BY <1>1, <1>2

LEMMA PartsStepIsPreviews ==
  [PartsNext]_<<part, vars, stagingVars, previewVars, treelandVars, overlapVars>>
    => [Preview!Next]_(Preview!vars)
<1> SUFFICES ASSUME [PartsNext]_<<part, vars, stagingVars, previewVars, treelandVars, overlapVars>>
             PROVE  [Preview!Next]_(Preview!vars)
  OBVIOUS
<1>1. UNCHANGED previewVars => UNCHANGED Preview!vars
  BY DEF previewVars, Preview!vars, Preview!view
<1>2. Preview!Next \/ UNCHANGED previewVars
  BY DEF PartsNext
<1> QED
  BY <1>1, <1>2

LEMMA PartsStepIsTreelands ==
  [PartsNext]_<<part, vars, stagingVars, previewVars, treelandVars, overlapVars>>
    => [Treeland!Next]_(Treeland!vars)
<1> SUFFICES ASSUME [PartsNext]_<<part, vars, stagingVars, previewVars, treelandVars, overlapVars>>
             PROVE  [Treeland!Next]_(Treeland!vars)
  OBVIOUS
<1>1. UNCHANGED treelandVars => UNCHANGED Treeland!vars
  BY DEF treelandVars, Treeland!vars, Treeland!monitor, Treeland!context
<1>2. Treeland!Next \/ UNCHANGED treelandVars
  BY DEF PartsNext
<1> QED
  BY <1>1, <1>2

LEMMA PartsStepIsOverlaps ==
  [PartsNext]_<<part, vars, stagingVars, previewVars, treelandVars, overlapVars>>
    => [Overlap!Next]_(Overlap!vars)
<1> SUFFICES ASSUME [PartsNext]_<<part, vars, stagingVars, previewVars, treelandVars, overlapVars>>
             PROVE  [Overlap!Next]_(Overlap!vars)
  OBVIOUS
<1>1. UNCHANGED overlapVars => UNCHANGED Overlap!vars
  BY DEF overlapVars, Overlap!vars, Overlap!server, Overlap!panel, Overlap!helper
<1>2. Overlap!Next \/ UNCHANGED overlapVars
  BY DEF PartsNext
<1> QED
  BY <1>1, <1>2

\* The same of the parts together, as the runs check them.
THEOREM PartsStaging == PartsSpec => []StagingSound
<1>1. PartsInit => Staging!Init
  BY DEF PartsInit
<1>2. PartsSpec => Staging!Spec
  BY <1>1, PartsStepIsStagings, PTL DEF PartsSpec, Staging!Spec
<1> QED
  BY <1>2, StagingKeepsSound, PTL DEF StagingSound

\* And the previews, the windows under Treeland and the overlap.
THEOREM PartsPreview == PartsSpec => []PreviewSound
<1>1. PartsInit => Preview!Init
  BY DEF PartsInit
<1>2. PartsSpec => Preview!Spec
  BY <1>1, PartsStepIsPreviews, PTL DEF PartsSpec, Preview!Spec
<1> QED
  BY <1>2, PreviewKeepsSound, PTL DEF PreviewSound

THEOREM PartsTreeland == PartsSpec => []TreelandSound
<1>1. PartsInit => Treeland!Init
  BY DEF PartsInit
<1>2. PartsSpec => Treeland!Spec
  BY <1>1, PartsStepIsTreelands, PTL DEF PartsSpec, Treeland!Spec
<1> QED
  BY <1>2, TreelandKeepsSound, PTL DEF TreelandSound

THEOREM PartsOverlap == PartsSpec => []OverlapFollows
<1>1. PartsInit => Overlap!Init
  BY DEF PartsInit
<1>2. PartsSpec => Overlap!Spec
  BY <1>1, PartsStepIsOverlaps, PTL DEF PartsSpec, Overlap!Spec
<1> QED
  BY <1>2, OverlapKeepsUp, PTL DEF OverlapFollows
=============================================================================
