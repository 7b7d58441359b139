---------------------------- MODULE Lists_proofs ----------------------------
(***************************************************************************)
(* What the proofs of several components use of numbers, lists and sets:       *)
(* induction over them, what Only selects, and that Ascending has every number   *)
(* of a set once, in order.                                                   *)
(***************************************************************************)
EXTENDS Lists, FiniteSetTheorems, WellFoundedInduction, TLAPS

-----------------------------------------------------------------------------
(* Induction, and the selection from a list.                                 *)

\* The least-number principle, for a set.
LEMMA LeastNumber ==
  ASSUME NEW T, T \subseteq Nat, T # {}
  PROVE  \E n \in T : \A m \in T : n <= m
<1>1. IsWellFoundedOn(OpToRel(<, Nat), Nat)
  BY NatLessThanWellFounded
<1>2. PICK n \in T : \A m \in T : ~(<<m, n>> \in OpToRel(<, Nat))
  BY <1>1, WFMin
<1>3. ASSUME NEW m \in T PROVE n <= m
  <2>1. m \in Nat /\ n \in Nat
    OBVIOUS
  <2>2. m < n => <<m, n>> \in OpToRel(<, Nat)
    BY <2>1 DEF OpToRel
  <2>3. ~(m < n)
    BY <1>2, <2>2, Zenon
  <2> QED
    BY <2>1, <2>3
<1> QED
  BY <1>3

LEMMA NumberInduction ==
  ASSUME NEW T, 0 \in T, \A n \in Nat : n \in T => n + 1 \in T
  PROVE  Nat \subseteq T
<1> SUFFICES ASSUME Nat \ T # {} PROVE FALSE
  OBVIOUS
<1>1. PICK n \in Nat \ T : \A m \in Nat \ T : n <= m
  BY LeastNumber
<1>2. n - 1 \in Nat /\ n - 1 \in T
  BY <1>1
<1>3. (n - 1) + 1 \in T /\ (n - 1) + 1 = n
  BY <1>2
<1> QED
  BY <1>3

LEMMA AppendItems ==
  ASSUME NEW A, NEW s \in Seq(A), NEW x
  PROVE  ToSet(Append(s, x)) = ToSet(s) \cup {x}
<1>1. Len(s) \in Nat /\ DOMAIN s = 1..Len(s) /\ DOMAIN Append(s, x) = 1..Len(s) + 1
  OBVIOUS
<1>2. \A i \in 1..Len(s) + 1 : Append(s, x)[i] = IF i = Len(s) + 1 THEN x ELSE s[i]
  OBVIOUS
<1> QED
  BY <1>1, <1>2 DEF ToSet

\* What holds of the empty list, and of a list with one more item if it holds of the list,
\* holds of all.
LEMMA ListInduction ==
  ASSUME NEW A, NEW T, <<>> \in T, \A s \in Seq(A), x \in A : s \in T => Append(s, x) \in T
  PROVE  Seq(A) \subseteq T
<1> DEFINE Good == {n \in Nat : \A s \in Seq(A) : Len(s) = n => s \in T}
<1>1. 0 \in Good
  <2>1. \A s \in Seq(A) : Len(s) = 0 => s = <<>>
    OBVIOUS
  <2> QED
    BY <2>1
<1>2. ASSUME NEW n \in Nat, n \in Good PROVE n + 1 \in Good
  <2> SUFFICES ASSUME NEW s \in Seq(A), Len(s) = n + 1 PROVE s \in T
    OBVIOUS
  <2> DEFINE front == SubSeq(s, 1, n)
  <2>1. front \in Seq(A) /\ Len(front) = n /\ s[n + 1] \in A /\ s = Append(front, s[n + 1])
    OBVIOUS
  <2>2. front \in T
    BY <1>2, <2>1
  <2> HIDE DEF front
  <2> QED
    BY <2>1, <2>2
<1>3. Nat \subseteq Good
  <2> HIDE DEF Good
  <2> QED
    BY <1>1, <1>2, NumberInduction
<1>4. \A s \in Seq(A) : Len(s) \in Good
  BY <1>3
<1> QED
  BY <1>4

\* One step of Only's recursion; the recursion has a solution, and only one.
Selects(s, S, f, n) ==
  IF n = 0 THEN <<>> ELSE IF s[n] \in S THEN Append(f[n - 1], s[n]) ELSE f[n - 1]

LEMMA SelectionExists ==
  ASSUME NEW s, NEW S, NEW m \in Nat
  PROVE  \E f : f = [n \in 0..m |-> Selects(s, S, f, n)]
<1> DEFINE Good == {k \in Nat : \E f : f = [n \in 0..k |-> Selects(s, S, f, n)]}
<1>1. 0 \in Good
  <2> DEFINE g == [n \in 0..0 |-> <<>>]
  <2>1. g = [n \in 0..0 |-> Selects(s, S, g, n)]
    BY DEF Selects
  <2> QED
    BY <2>1
<1>2. ASSUME NEW k \in Nat, k \in Good PROVE k + 1 \in Good
  <2>1. PICK f : f = [n \in 0..k |-> Selects(s, S, f, n)]
    BY <1>2
  <2> DEFINE g == [n \in 0..k + 1 |-> IF n = k + 1 THEN Selects(s, S, f, k + 1) ELSE f[n]]
  <2>2. ASSUME NEW n \in 0..k + 1 PROVE g[n] = Selects(s, S, g, n)
    <3>1. CASE n = k + 1
      <4>1. g[k] = f[k] /\ g[n] = Selects(s, S, f, k + 1) /\ n - 1 = k /\ n # 0
        BY <3>1
      <4> QED
        BY <3>1, <4>1 DEF Selects
    <3>2. CASE n # k + 1
      <4>1. n \in 0..k /\ g[n] = f[n] /\ f[n] = Selects(s, S, f, n)
        BY <2>1, <3>2
      <4>2. n # 0 => g[n - 1] = f[n - 1]
        BY <3>2
      <4> QED
        BY <4>1, <4>2 DEF Selects
    <3> QED
      BY <3>1, <3>2
  <2>3. g = [n \in 0..k + 1 |-> Selects(s, S, g, n)]
    BY <2>2
  <2> HIDE DEF g
  <2>4. \E h : h = [n \in 0..k + 1 |-> Selects(s, S, h, n)]
    BY <2>3, Zenon
  <2> QED
    BY <2>4
<1>3. Nat \subseteq Good
  <2> HIDE DEF Good
  <2> QED
    BY <1>1, <1>2, NumberInduction
<1> QED
  BY <1>3

LEMMA SelectionOf ==
  ASSUME NEW s, Len(s) \in Nat, NEW S
  PROVE  \E f : /\ \A n \in 0..Len(s) : f[n] = Selects(s, S, f, n)
               /\ Only(s, S) = f[Len(s)]
<1> DEFINE F == CHOOSE f : f = [n \in 0..Len(s) |-> Selects(s, S, f, n)]
<1>1. F = [n \in 0..Len(s) |-> Selects(s, S, F, n)]
  BY SelectionExists
<1>2. Only(s, S) = F[Len(s)]
  BY DEF Only, Selects
<1>3. \A n \in 0..Len(s) : F[n] = Selects(s, S, F, n)
  <2> HIDE DEF F
  <2> QED
    BY <1>1
<1> HIDE DEF F
<1> QED
  BY <1>2, <1>3

\* What Only selects, item by item.
LEMMA OnlyEmpty == ASSUME NEW S PROVE Only(<<>>, S) = <<>>
<1>1. Len(<<>>) = 0
  OBVIOUS
<1>2. PICK f : (\A n \in 0..0 : f[n] = Selects(<<>>, S, f, n)) /\ Only(<<>>, S) = f[0]
  BY <1>1, SelectionOf
<1>3. f[0] = Selects(<<>>, S, f, 0)
  BY <1>2
<1> QED
  BY <1>2, <1>3 DEF Selects

LEMMA OnlyAppend ==
  ASSUME NEW A, NEW s \in Seq(A), NEW x \in A, NEW S
  PROVE  Only(Append(s, x), S) = IF x \in S THEN Append(Only(s, S), x) ELSE Only(s, S)
<1> DEFINE t == Append(s, x)
           k == Len(s)
<1>1. k \in Nat /\ Len(t) = k + 1 /\ t[k + 1] = x /\ \A i \in 1..k : s[i] = t[i]
  OBVIOUS
<1> HIDE DEF t
<1>2. PICK f : (\A n \in 0..k : f[n] = Selects(s, S, f, n)) /\ Only(s, S) = f[k]
  BY <1>1, SelectionOf
<1>3. PICK g : (\A n \in 0..k + 1 : g[n] = Selects(t, S, g, n)) /\ Only(t, S) = g[k + 1]
  BY <1>1, SelectionOf
<1> HIDE DEF k
<1>4. \A n \in 0..k : f[n] = g[n]
  <2> DEFINE Good == {n \in Nat : n <= k => f[n] = g[n]}
  <2>1. 0 \in Good
    <3>1. f[0] = Selects(s, S, f, 0) /\ g[0] = Selects(t, S, g, 0)
      BY <1>1, <1>2, <1>3
    <3> QED
      BY <3>1 DEF Selects
  <2>2. ASSUME NEW n \in Nat, n \in Good PROVE n + 1 \in Good
    <3> SUFFICES ASSUME n + 1 <= k PROVE f[n + 1] = g[n + 1]
      OBVIOUS
    <3>1. f[n] = g[n] /\ s[n + 1] = t[n + 1] /\ (n + 1) - 1 = n /\ n + 1 # 0
      BY <1>1, <2>2
    <3>2. f[n + 1] = Selects(s, S, f, n + 1) /\ g[n + 1] = Selects(t, S, g, n + 1)
      BY <1>1, <1>2, <1>3
    <3> QED
      BY <3>1, <3>2 DEF Selects
  <2>3. Nat \subseteq Good
    <3> HIDE DEF Good
    <3> QED
      BY <2>1, <2>2, NumberInduction
  <2> QED
    BY <1>1, <2>3
<1>5. g[k + 1] = Selects(t, S, g, k + 1) /\ f[k] = g[k] /\ (k + 1) - 1 = k /\ k + 1 # 0
  BY <1>1, <1>3, <1>4
<1>6. Only(t, S) = IF x \in S THEN Append(f[k], x) ELSE f[k]
  BY <1>1, <1>3, <1>5 DEF Selects
<1> QED
  BY <1>2, <1>6 DEF t

\* Whatever is selected: its items, in two selections as in one.
LEMMA OnlyItems ==
  ASSUME NEW A, NEW S
  PROVE  \A s \in Seq(A) : Only(s, S) \in Seq(A) /\ ToSet(Only(s, S)) = ToSet(s) \cap S
<1> DEFINE Good == {s \in Seq(A) : Only(s, S) \in Seq(A) /\ ToSet(Only(s, S)) = ToSet(s) \cap S}
<1>1. <<>> \in Good
  <2>1. ToSet(<<>>) = {} /\ <<>> \in Seq(A)
    BY DEF ToSet
  <2> QED
    BY <2>1, OnlyEmpty
<1>2. ASSUME NEW s \in Seq(A), NEW x \in A, s \in Good PROVE Append(s, x) \in Good
  <2>1. \A t \in Seq(A) : ToSet(Append(t, x)) = ToSet(t) \cup {x}
    BY AppendItems
  <2>2. CASE x \in S
    <3>1. Only(Append(s, x), S) = Append(Only(s, S), x)
      BY <2>2, OnlyAppend
    <3>2. Only(s, S) \in Seq(A) /\ ToSet(Only(s, S)) = ToSet(s) \cap S
      BY <1>2
    <3>3. Append(Only(s, S), x) \in Seq(A)
          /\ ToSet(Append(Only(s, S), x)) = (ToSet(s) \cap S) \cup {x}
      BY <2>1, <3>2
    <3>4. ToSet(Append(s, x)) \cap S = (ToSet(s) \cap S) \cup {x}
      BY <2>1, <2>2
    <3>5. Only(Append(s, x), S) \in Seq(A)
          /\ ToSet(Only(Append(s, x), S)) = ToSet(Append(s, x)) \cap S
      BY <3>1, <3>3, <3>4, Zenon
    <3> QED
      BY <3>5
  <2>3. CASE x \notin S
    <3>1. Only(Append(s, x), S) = Only(s, S)
      BY <2>3, OnlyAppend
    <3> QED
      BY <1>2, <2>1, <2>3, <3>1
  <2> QED
    BY <2>2, <2>3
<1>3. Seq(A) \subseteq Good
  <2> HIDE DEF Good
  <2> QED
    BY <1>1, <1>2, ListInduction
<1> QED
  BY <1>3

LEMMA OnlyTwice ==
  ASSUME NEW A, NEW S, NEW T
  PROVE  \A s \in Seq(A) : Only(Only(s, S), T) = Only(s, S \cap T)
<1> DEFINE Good == {s \in Seq(A) : Only(Only(s, S), T) = Only(s, S \cap T)}
<1>1. <<>> \in Good
  BY OnlyEmpty
<1>2. ASSUME NEW s \in Seq(A), NEW x \in A, s \in Good PROVE Append(s, x) \in Good
  <2>1. Only(s, S) \in Seq(A)
    BY OnlyItems
  <2>2. /\ Only(Append(s, x), S) = IF x \in S THEN Append(Only(s, S), x) ELSE Only(s, S)
        /\ Only(Append(s, x), S \cap T)
             = IF x \in S \cap T THEN Append(Only(s, S \cap T), x) ELSE Only(s, S \cap T)
        /\ Only(Append(Only(s, S), x), T)
             = IF x \in T THEN Append(Only(Only(s, S), T), x) ELSE Only(Only(s, S), T)
    BY <2>1, OnlyAppend
  <2>3. Only(Only(s, S), T) = Only(s, S \cap T)
    BY <1>2
  <2>4. Only(Only(Append(s, x), S), T) = Only(Append(s, x), S \cap T)
    <3>1. CASE x \in S
      <4>1. Only(Append(s, x), S) = Append(Only(s, S), x)
        BY <2>2, <3>1
      <4>2. CASE x \in T
        BY <2>2, <2>3, <3>1, <4>1, <4>2, Zenon
      <4>3. CASE x \notin T
        BY <2>2, <2>3, <4>1, <4>3, Zenon
      <4> QED
        BY <4>2, <4>3
    <3>2. CASE x \notin S
      <4>1. Only(Append(s, x), S) = Only(s, S) /\ Only(Append(s, x), S \cap T) = Only(s, S \cap T)
        BY <2>2, <3>2
      <4> QED
        BY <2>3, <4>1
    <3> QED
      BY <3>1, <3>2
  <2> QED
    BY <2>4
<1>3. Seq(A) \subseteq Good
  <2> HIDE DEF Good
  <2> QED
    BY <1>1, <1>2, ListInduction
<1> QED
  BY <1>3

-----------------------------------------------------------------------------
(* Lists whose items differ.                                                 *)

LEMMA JoinedItems ==
  ASSUME NEW A, NEW s \in Seq(A), NEW t \in Seq(A)
  PROVE  /\ s \o t \in Seq(A) /\ Len(s \o t) = Len(s) + Len(t)
         /\ \A k \in 1..Len(s) + Len(t) :
              (s \o t)[k] = IF k <= Len(s) THEN s[k] ELSE t[k - Len(s)]
OBVIOUS

LEMMA AppendDiffers ==
  ASSUME NEW A, NEW s \in Seq(A), IsInjective(s), NEW x \in A, x \notin ToSet(s)
  PROVE  IsInjective(Append(s, x))
<1>1. PICK r : r = Append(s, x)
  OBVIOUS
<1>2. /\ Len(s) \in Nat /\ DOMAIN s = 1..Len(s) /\ DOMAIN r = 1..Len(s) + 1
      /\ \A i \in 1..Len(s) + 1 : r[i] = IF i = Len(s) + 1 THEN x ELSE s[i]
  BY <1>1
<1>3. \A i \in 1..Len(s) : s[i] # x
  BY <1>2 DEF ToSet
<1>4. \A i, j \in 1..Len(s) : s[i] = s[j] => i = j
  BY <1>2 DEF IsInjective
<1>5. \A i, j \in DOMAIN r : r[i] = r[j] => i = j
  BY <1>2, <1>3, <1>4
<1> QED
  BY <1>1, <1>5 DEF IsInjective

\* And no more of them, different ones if they were.
LEMMA OnlyDiffers ==
  ASSUME NEW A, NEW S
  PROVE  \A s \in Seq(A) : /\ Len(Only(s, S)) <= Len(s)
                           /\ IsInjective(s) => IsInjective(Only(s, S))
<1> DEFINE Good == {s \in Seq(A) : /\ Len(Only(s, S)) <= Len(s)
                                   /\ IsInjective(s) => IsInjective(Only(s, S))}
<1>1. <<>> \in Good
  <2>1. Len(<<>>) <= Len(<<>>) /\ <<>> \in Seq(A)
    OBVIOUS
  <2> QED
    BY <2>1, OnlyEmpty
<1>2. ASSUME NEW s \in Seq(A), NEW x \in A, s \in Good PROVE Append(s, x) \in Good
  <2>1. /\ Only(s, S) \in Seq(A) /\ ToSet(Only(s, S)) = ToSet(s) \cap S
        /\ Len(Only(s, S)) <= Len(s)
    BY <1>2, OnlyItems
  <2>2. Only(Append(s, x), S) = IF x \in S THEN Append(Only(s, S), x) ELSE Only(s, S)
    BY OnlyAppend
  <2>3. PICK r \in Seq(A) : r = Only(s, S)
    BY <2>1
  <2>4. Len(Only(Append(s, x), S)) <= Len(Append(s, x))
    <3>1. /\ Len(Append(s, x)) = Len(s) + 1 /\ Len(Append(r, x)) = Len(r) + 1
          /\ Len(s) \in Nat /\ Len(r) \in Nat /\ Len(r) <= Len(s)
      BY <2>1, <2>3
    <3>2. Len(Append(r, x)) <= Len(Append(s, x)) /\ Len(r) <= Len(Append(s, x))
      BY <3>1
    <3>3. CASE x \in S
      BY <2>2, <2>3, <3>2, <3>3
    <3>4. CASE x \notin S
      BY <2>2, <2>3, <3>2, <3>4
    <3> QED
      BY <3>3, <3>4
  <2>5. ASSUME IsInjective(Append(s, x)) PROVE IsInjective(Only(Append(s, x), S))
    <3>1. IsInjective(s) /\ x \notin ToSet(s)
      <4>1. /\ Len(s) \in Nat /\ DOMAIN s = 1..Len(s) /\ DOMAIN Append(s, x) = 1..Len(s) + 1
            /\ \A i \in 1..Len(s) : Append(s, x)[i] = s[i]
            /\ Append(s, x)[Len(s) + 1] = x
        OBVIOUS
      <4> DEFINE t == Append(s, x)
      <4> HIDE DEF t
      <4>2. \A i, j \in 1..Len(s) + 1 : t[i] = t[j] => i = j
        BY <2>5, <4>1 DEF IsInjective, t
      <4>3. \A i \in 1..Len(s) : i \in 1..Len(s) + 1 /\ i # Len(s) + 1
        BY <4>1
      <4>4. Len(s) + 1 \in 1..Len(s) + 1
        BY <4>1
      <4>5. \A i \in 1..Len(s) : s[i] # x
        BY <4>1, <4>2, <4>3, <4>4 DEF t
      <4>6. \A i, j \in 1..Len(s) : s[i] = s[j] => i = j
        BY <4>1, <4>2, <4>3 DEF t
      <4> QED
        BY <4>1, <4>5, <4>6 DEF IsInjective, ToSet
    <3>2. IsInjective(Only(s, S)) /\ x \notin ToSet(Only(s, S))
      BY <1>2, <2>1, <3>1
    <3>3. IsInjective(Append(r, x))
      BY <2>3, <3>2, AppendDiffers
    <3> QED
      BY <2>2, <2>3, <3>2, <3>3
  <2>6. Append(s, x) \in Seq(A)
    OBVIOUS
  <2> QED
    BY <2>4, <2>5, <2>6
<1>3. Seq(A) \subseteq Good
  <2> HIDE DEF Good
  <2> QED
    BY <1>1, <1>2, ListInduction
<1> QED
  BY <1>3

LEMMA LastItem ==
  ASSUME NEW A, NEW s \in Seq(A), s # <<>>
  PROVE  Last(s) \in ToSet(s) /\ Last(s) \in A
BY DEF Last, ToSet

LEMMA TailItems ==
  ASSUME NEW A, NEW s \in Seq(A), s # <<>>
  PROVE  /\ Head(s) \in A /\ Tail(s) \in Seq(A) /\ Len(Tail(s)) = Len(s) - 1
         /\ \A k \in 1..Len(s) - 1 : Tail(s)[k] = s[k + 1]
         /\ ToSet(s) = ToSet(Tail(s)) \cup {Head(s)}
         /\ IsInjective(s) => IsInjective(Tail(s)) /\ Head(s) \notin ToSet(Tail(s))
<1> DEFINE r == Tail(s)
<1>1. /\ Head(s) \in A /\ Head(s) = s[1] /\ r \in Seq(A) /\ Len(r) = Len(s) - 1
      /\ \A k \in 1..Len(s) - 1 : r[k] = s[k + 1]
  OBVIOUS
<1>2. /\ Len(s) \in Nat /\ Len(s) > 0 /\ DOMAIN s = 1..Len(s) /\ DOMAIN r = 1..Len(s) - 1
      /\ 1 \in DOMAIN s
  BY <1>1
<1> HIDE DEF r
<1>3. \A k \in DOMAIN r : k + 1 \in DOMAIN s /\ k + 1 # 1 /\ r[k] = s[k + 1]
  BY <1>1, <1>2
<1>4. \A k \in DOMAIN s : k # 1 => k - 1 \in DOMAIN r /\ r[k - 1] = s[k]
  <2> SUFFICES ASSUME NEW k \in DOMAIN s, k # 1 PROVE k - 1 \in DOMAIN r /\ r[k - 1] = s[k]
    OBVIOUS
  <2>1. k - 1 \in 1..Len(s) - 1 /\ (k - 1) + 1 = k
    BY <1>2
  <2> QED
    BY <1>1, <1>2, <2>1
<1>5. ToSet(s) = ToSet(r) \cup {s[1]}
  <2>1. \A k \in DOMAIN s : s[k] \in ToSet(r) \cup {s[1]}
    BY <1>4 DEF ToSet
  <2>2. \A k \in DOMAIN r : r[k] \in ToSet(s)
    BY <1>3 DEF ToSet
  <2> QED
    BY <1>2, <2>1, <2>2 DEF ToSet
<1>6. ASSUME IsInjective(s) PROVE IsInjective(r) /\ s[1] \notin ToSet(r)
  <2>1. \A j, k \in DOMAIN s : s[j] = s[k] => j = k
    BY <1>6 DEF IsInjective
  <2>2. \A j, k \in DOMAIN r : j + 1 = k + 1 => j = k
    BY <1>2
  <2>3. \A j, k \in DOMAIN r : r[j] = r[k] => j = k
    BY <1>3, <2>1, <2>2
  <2>4. \A k \in DOMAIN r : r[k] # s[1]
    BY <1>2, <1>3, <2>1
  <2> QED
    BY <2>3, <2>4 DEF IsInjective, ToSet
<1> QED
  BY <1>1, <1>5, <1>6 DEF r

\* The list without an item of it, and with one more.
LEMMA RemoveAtItems ==
  ASSUME NEW A, NEW s \in Seq(A), NEW i \in 1..Len(s)
  PROVE  /\ RemoveAt(s, i) \in Seq(A) /\ Len(RemoveAt(s, i)) = Len(s) - 1
         /\ \A k \in 1..Len(s) - 1 : RemoveAt(s, i)[k] = s[IF k < i THEN k ELSE k + 1]
         /\ ToSet(RemoveAt(s, i)) \subseteq ToSet(s)
         /\ ToSet(s) \subseteq ToSet(RemoveAt(s, i)) \cup {s[i]}
         /\ IsInjective(s) => IsInjective(RemoveAt(s, i)) /\ s[i] \notin ToSet(RemoveAt(s, i))
<1> DEFINE r == RemoveAt(s, i)
<1>1. /\ r \in Seq(A) /\ Len(r) = Len(s) - 1
      /\ \A k \in 1..Len(s) - 1 : r[k] = s[IF k < i THEN k ELSE k + 1]
  <2> DEFINE p == SubSeq(s, 1, i - 1)
             q == SubSeq(s, i + 1, Len(s))
  <2>1. /\ p \in Seq(A) /\ Len(p) = i - 1 /\ \A k \in 1..i - 1 : p[k] = s[k]
        /\ q \in Seq(A) /\ Len(q) = Len(s) - i /\ \A k \in 1..Len(s) - i : q[k] = s[i + k]
    OBVIOUS
  <2>2. r = p \o q
    BY DEF RemoveAt
  <2> HIDE DEF p, q, r
  <2>3. /\ r \in Seq(A) /\ Len(r) = Len(s) - 1
        /\ \A k \in 1..Len(s) - 1 : r[k] = IF k < i THEN p[k] ELSE q[k - (i - 1)]
    BY <2>1, <2>2
  <2>4. ASSUME NEW k \in 1..Len(s) - 1, ~(k < i) PROVE q[k - (i - 1)] = s[k + 1]
    <3>1. k - (i - 1) \in 1..Len(s) - i /\ i + (k - (i - 1)) = k + 1
      BY <2>4
    <3> QED
      BY <2>1, <3>1
  <2> QED
    BY <2>1, <2>3, <2>4
<1>2. Len(s) \in Nat /\ DOMAIN s = 1..Len(s) /\ DOMAIN r = 1..Len(s) - 1
  BY <1>1
<1> HIDE DEF r
<1>3. ASSUME NEW k \in DOMAIN r PROVE r[k] \in ToSet(s)
  <2>1. (IF k < i THEN k ELSE k + 1) \in DOMAIN s
    BY <1>2, <1>3
  <2> QED
    BY <1>1, <1>2, <1>3, <2>1 DEF ToSet
<1>4. ASSUME NEW k \in DOMAIN s, k # i PROVE s[k] \in ToSet(r)
  <2>1. CASE k < i
    <3>1. k \in DOMAIN r /\ r[k] = s[k]
      BY <1>1, <1>2, <2>1
    <3> QED
      BY <3>1 DEF ToSet
  <2>2. CASE ~(k < i)
    <3>1. k - 1 \in 1..Len(s) - 1 /\ ~(k - 1 < i)
      BY <1>2, <1>4, <2>2
    <3>2. r[k - 1] = s[(k - 1) + 1] /\ (k - 1) + 1 = k
      BY <1>1, <1>2, <3>1
    <3> QED
      BY <1>2, <3>1, <3>2 DEF ToSet
  <2> QED
    BY <2>1, <2>2
<1>5. ASSUME IsInjective(s) PROVE IsInjective(r) /\ s[i] \notin ToSet(r)
  <2>1. \A j, k \in 1..Len(s) : s[j] = s[k] => j = k
    BY <1>2, <1>5 DEF IsInjective
  <2>2. \A j, k \in DOMAIN r : r[j] = r[k] => j = k
    BY <1>1, <1>2, <2>1
  <2>3. \A k \in DOMAIN r : r[k] # s[i]
    BY <1>1, <1>2, <2>1
  <2> QED
    BY <2>2, <2>3 DEF IsInjective, ToSet
<1>6. ToSet(r) \subseteq ToSet(s) /\ ToSet(s) \subseteq ToSet(r) \cup {s[i]}
  BY <1>3, <1>4 DEF ToSet
<1> QED
  BY <1>1, <1>5, <1>6 DEF r

LEMMA InsertAtItems ==
  ASSUME NEW A, NEW s \in Seq(A), NEW i \in 1..Len(s) + 1, NEW x \in A
  PROVE  /\ InsertAt(s, i, x) \in Seq(A) /\ Len(InsertAt(s, i, x)) = Len(s) + 1
         /\ ToSet(InsertAt(s, i, x)) = ToSet(s) \cup {x}
         /\ IsInjective(s) /\ x \notin ToSet(s) => IsInjective(InsertAt(s, i, x))
<1> DEFINE r == InsertAt(s, i, x)
<1>1. /\ r \in Seq(A) /\ Len(r) = Len(s) + 1
      /\ \A k \in 1..Len(s) + 1 :
           r[k] = IF k < i THEN s[k] ELSE IF k = i THEN x ELSE s[k - 1]
  <2> DEFINE p == SubSeq(s, 1, i - 1)
             q == SubSeq(s, i, Len(s))
  <2>1. /\ p \in Seq(A) /\ Len(p) = i - 1 /\ \A k \in 1..i - 1 : p[k] = s[k]
        /\ q \in Seq(A) /\ Len(q) = Len(s) - (i - 1)
        /\ \A k \in 1..Len(s) - (i - 1) : q[k] = s[(i - 1) + k]
    OBVIOUS
  <2>2. r = p \o <<x>> \o q
    BY DEF InsertAt
  <2> HIDE DEF p, q, r
  <2> DEFINE h == p \o <<x>>
  <2>3. /\ h \in Seq(A) /\ Len(h) = i
        /\ \A k \in 1..i : h[k] = IF k < i THEN p[k] ELSE x
    <3>1. <<x>> \in Seq(A) /\ Len(<<x>>) = 1 /\ <<x>>[1] = x
      OBVIOUS
    <3> DEFINE o == <<x>>
    <3> HIDE DEF o
    <3>2. /\ p \o o \in Seq(A) /\ Len(p \o o) = i
          /\ \A k \in 1..i : (p \o o)[k] = IF k < i THEN p[k] ELSE o[k - (i - 1)]
      BY <2>1, <3>1 DEF o
    <3>3. \A k \in 1..i : ~(k < i) => k - (i - 1) = 1
      OBVIOUS
    <3> QED
      BY <3>1, <3>2, <3>3 DEF o
  <2> HIDE DEF h
  <2>6. r = h \o q
    BY <2>2 DEF h
  <2>4. /\ r \in Seq(A) /\ Len(r) = Len(s) + 1
        /\ \A k \in 1..Len(s) + 1 : r[k] = IF k <= i THEN h[k] ELSE q[k - i]
    <3>1. Len(h) + Len(q) = Len(s) + 1
      BY <2>1, <2>3
    <3> QED
      <4>1. /\ h \o q \in Seq(A) /\ Len(h \o q) = Len(h) + Len(q)
            /\ \A k \in 1..Len(h) + Len(q) :
                 (h \o q)[k] = IF k <= Len(h) THEN h[k] ELSE q[k - Len(h)]
        BY <2>1, <2>3, JoinedItems
      <4> QED
        BY <2>3, <2>6, <3>1, <4>1, Zenon
  <2>5. ASSUME NEW k \in 1..Len(s) + 1, k > i PROVE q[k - i] = s[k - 1]
    <3>1. k - i \in 1..Len(s) - (i - 1) /\ (i - 1) + (k - i) = k - 1
      BY <2>5
    <3> QED
      BY <2>1, <3>1
  <2>7. \A k \in 1..Len(s) + 1 : r[k] = IF k < i THEN s[k] ELSE IF k = i THEN x ELSE s[k - 1]
    <3> SUFFICES ASSUME NEW k \in 1..Len(s) + 1
                 PROVE  r[k] = IF k < i THEN s[k] ELSE IF k = i THEN x ELSE s[k - 1]
      OBVIOUS
    <3>1. CASE k < i
      BY <2>1, <2>3, <2>4, <3>1
    <3>2. CASE k = i
      BY <2>3, <2>4, <3>2
    <3>3. CASE k > i
      BY <2>4, <2>5, <3>3
    <3> QED
      BY <3>1, <3>2, <3>3
  <2> QED
    BY <2>4, <2>7
<1>2. Len(s) \in Nat /\ DOMAIN s = 1..Len(s) /\ DOMAIN r = 1..Len(s) + 1
  BY <1>1
<1> HIDE DEF r
<1>3. ASSUME NEW k \in DOMAIN r PROVE r[k] \in ToSet(s) \cup {x}
  <2>1. k = i \/ (k < i /\ k \in DOMAIN s) \/ (k > i /\ k - 1 \in DOMAIN s)
    BY <1>2, <1>3
  <2> QED
    BY <1>1, <1>2, <1>3, <2>1 DEF ToSet
<1>4. ASSUME NEW k \in DOMAIN s PROVE s[k] \in ToSet(r)
  <2>1. CASE k < i
    <3>1. k \in DOMAIN r /\ r[k] = s[k]
      BY <1>1, <1>2, <1>4, <2>1
    <3> QED
      BY <3>1 DEF ToSet
  <2>2. CASE ~(k < i)
    <3>1. k + 1 \in 1..Len(s) + 1 /\ ~(k + 1 < i) /\ k + 1 # i /\ (k + 1) - 1 = k
      BY <1>2, <1>4, <2>2
    <3>2. r[k + 1] = s[k]
      BY <1>1, <3>1
    <3> QED
      BY <1>2, <3>1, <3>2 DEF ToSet
  <2> QED
    BY <2>1, <2>2
<1>5. x \in ToSet(r)
  BY <1>1, <1>2 DEF ToSet
<1>6. ToSet(r) = ToSet(s) \cup {x}
  BY <1>3, <1>4, <1>5 DEF ToSet
<1>7. ASSUME IsInjective(s), x \notin ToSet(s) PROVE IsInjective(r)
  <2>1. \A j, k \in 1..Len(s) : s[j] = s[k] => j = k
    BY <1>2, <1>7 DEF IsInjective
  <2>2. \A k \in 1..Len(s) : s[k] # x
    BY <1>2, <1>7 DEF ToSet
  <2>3. \A j, k \in 1..Len(s) + 1 : r[j] = r[k] => j = k
    BY <1>1, <1>2, <2>1, <2>2
  <2> QED
    BY <1>2, <2>3 DEF IsInjective
<1> QED
  BY <1>1, <1>6, <1>7 DEF r

\* The first items of a list.
LEMMA FirstItems ==
  ASSUME NEW A, NEW s \in Seq(A), NEW n \in 0..Len(s)
  PROVE  /\ SubSeq(s, 1, n) \in Seq(A) /\ Len(SubSeq(s, 1, n)) = n
         /\ ToSet(SubSeq(s, 1, n)) \subseteq ToSet(s)
         /\ n = Len(s) => SubSeq(s, 1, n) = s
         /\ IsInjective(s) => IsInjective(SubSeq(s, 1, n))
<1> DEFINE r == SubSeq(s, 1, n)
<1>1. r \in Seq(A) /\ Len(r) = n /\ (\A k \in 1..n : r[k] = s[k]) /\ (n = Len(s) => r = s)
  OBVIOUS
<1>2. /\ Len(s) \in Nat /\ DOMAIN s = 1..Len(s) /\ DOMAIN r = 1..n
      /\ \A k \in 1..n : k \in 1..Len(s)
  BY <1>1
<1> HIDE DEF r
<1>3. ToSet(r) \subseteq ToSet(s)
  BY <1>1, <1>2 DEF ToSet
<1>4. IsInjective(s) => IsInjective(r)
  BY <1>1, <1>2 DEF IsInjective
<1> QED
  BY <1>1, <1>3, <1>4 DEF r

LEMMA ReverseItems ==
  ASSUME NEW A, NEW s \in Seq(A)
  PROVE  /\ Reverse(s) \in Seq(A) /\ Len(Reverse(s)) = Len(s)
         /\ ToSet(Reverse(s)) = ToSet(s)
         /\ IsInjective(s) => IsInjective(Reverse(s))
<1> DEFINE r == Reverse(s)
           k == Len(s)
<1>1. /\ k \in Nat /\ DOMAIN s = 1..k /\ r \in Seq(A) /\ Len(r) = k /\ DOMAIN r = 1..k
      /\ \A i \in 1..k : r[i] = s[(k - i) + 1]
  BY DEF Reverse
<1> HIDE DEF r, k
<1>2. \A i \in 1..k : (k - i) + 1 \in 1..k /\ (k - ((k - i) + 1)) + 1 = i
  BY <1>1
<1>3. \A i \in 1..k : s[i] = r[(k - i) + 1]
  BY <1>1, <1>2
<1>4. ToSet(r) = ToSet(s)
  <2>1. \A i \in 1..k : r[i] \in ToSet(s)
    BY <1>1, <1>2 DEF ToSet
  <2>2. \A i \in 1..k : s[i] \in ToSet(r)
    BY <1>1, <1>2, <1>3 DEF ToSet
  <2> QED
    BY <1>1, <2>1, <2>2 DEF ToSet
<1>5. ASSUME IsInjective(s) PROVE IsInjective(r)
  <2>1. \A i, j \in 1..k : s[i] = s[j] => i = j
    BY <1>1, <1>5 DEF IsInjective
  <2>2. \A i, j \in 1..k : r[i] = r[j] => (k - i) + 1 = (k - j) + 1
    BY <1>1, <1>2, <2>1
  <2>3. \A i, j \in 1..k : (k - i) + 1 = (k - j) + 1 => i = j
    BY <1>1
  <2> QED
    BY <1>1, <2>2, <2>3 DEF IsInjective
<1> QED
  BY <1>1, <1>4, <1>5 DEF r, k

\* A list of different items is as long as the set of them is large.
LEMMA InjectiveLength ==
  ASSUME NEW A, NEW s \in Seq(A), IsInjective(s)
  PROVE  IsFiniteSet(ToSet(s)) /\ Cardinality(ToSet(s)) = Len(s)
<1>1. Len(s) \in Nat /\ DOMAIN s = 1..Len(s) /\ s = [i \in 1..Len(s) |-> s[i]]
  OBVIOUS
<1>2. s \in Injection(1..Len(s), ToSet(s)) /\ s \in Surjection(1..Len(s), ToSet(s))
  <2>1. s \in [1..Len(s) -> ToSet(s)]
    BY <1>1 DEF ToSet
  <2>2. \A a, b \in 1..Len(s) : s[a] = s[b] => a = b
    BY <1>1 DEF IsInjective
  <2>3. \A t \in ToSet(s) : \E a \in 1..Len(s) : s[a] = t
    BY <1>1 DEF ToSet
  <2> QED
    BY <2>1, <2>2, <2>3 DEF Injection, Surjection
<1>3. IsFiniteSet(1..Len(s)) /\ Cardinality(1..Len(s)) = Len(s)
  <2>1. ASSUME NEW n \in Nat PROVE IsFiniteSet(1..n) /\ Cardinality(1..n) = n
    BY FS_Interval
  <2> QED
    BY <1>1, <2>1
<1> QED
  BY <1>2, <1>3, FS_Surjection

\* A finite set as a list, in any order.
LEMMA ListOfSet ==
  ASSUME NEW S, IsFiniteSet(S)
  PROVE  SetToSeq(S) \in Seq(S) /\ IsInjective(SetToSeq(S)) /\ ToSet(SetToSeq(S)) = S
<1> DEFINE k == Cardinality(S)
           s == SetToSeq(S)
<1>1. k \in Nat /\ ExistsBijection(1..k, S)
  BY FS_CardinalityType
<1> HIDE DEF k
<1>2. \E f \in [1..k -> S] : IsInjective(f)
  BY <1>1 DEF ExistsBijection, Bijection, Injection, IsInjective
<1>3. s \in [1..k -> S] /\ IsInjective(s)
  BY <1>2 DEF SetToSeq, k
<1> HIDE DEF s
<1>4. s \in Seq(S) /\ Len(s) = k /\ DOMAIN s = 1..k
  BY <1>1, <1>3
<1>5. ToSet(s) \subseteq S
  BY <1>3, <1>4 DEF ToSet
<1>6. IsFiniteSet(ToSet(s)) /\ Cardinality(ToSet(s)) = k
  BY <1>3, <1>4, InjectiveLength
<1>7. ToSet(s) = S
  BY <1>5, <1>6, FS_Subset DEF k
<1> QED
  BY <1>3, <1>4, <1>7 DEF s

-----------------------------------------------------------------------------
(* Ascending.                                                                *)

LEMMA AscendingItems ==
  ASSUME NEW S, S \subseteq Int, IsFiniteSet(S)
  PROVE  /\ Ascending(S) \in Seq(S) /\ Len(Ascending(S)) = Cardinality(S)
         /\ ToSet(Ascending(S)) = S /\ IsInjective(Ascending(S))
         /\ \A i, j \in 1..Cardinality(S) : i < j => Ascending(S)[i] < Ascending(S)[j]
<1> DEFINE upTo(e) == {f \in S : f <= e}
           r == [e \in S |-> Cardinality(upTo(e))]
           k == Cardinality(S)
           a == Ascending(S)
<1>1. k \in Nat
  BY FS_CardinalityType
<1>2. ASSUME NEW e \in S
      PROVE  IsFiniteSet(upTo(e)) /\ r[e] \in 1..k
  <2>1. upTo(e) \in SUBSET S /\ e \in upTo(e)
    OBVIOUS
  <2>2. IsFiniteSet(upTo(e)) /\ Cardinality(upTo(e)) <= k
    BY <2>1, FS_Subset
  <2>3. Cardinality(upTo(e)) \in Nat /\ Cardinality(upTo(e)) # 0
    BY <2>1, <2>2, FS_CardinalityType, FS_EmptySet
  <2> QED
    BY <1>1, <2>2, <2>3
<1>3. ASSUME NEW e \in S, NEW f \in S, e < f PROVE r[e] < r[f]
  <2>1. upTo(e) \in SUBSET upTo(f) /\ f \in upTo(f) /\ f \notin upTo(e)
    <3>1. e \in Int /\ f \in Int /\ \A g \in S : g \in Int
      OBVIOUS
    <3>2. (\A g \in S : g <= e => g <= f) /\ f <= f /\ ~(f <= e)
      BY <1>3, <3>1
    <3> QED
      BY <3>2
  <2>2. IsFiniteSet(upTo(f))
    BY <1>2
  <2>3. Cardinality(upTo(e)) <= Cardinality(upTo(f)) /\ Cardinality(upTo(e)) # Cardinality(upTo(f))
    BY <2>1, <2>2, FS_Subset
  <2>4. r[e] \in Int /\ r[f] \in Int
    BY <1>2
  <2> QED
    BY <2>3, <2>4
<1> HIDE DEF k
<1>4. r \in [S -> 1..k]
  BY <1>2
<1>5. \A e, f \in S : r[e] = r[f] => e = f
  <2> SUFFICES ASSUME NEW e \in S, NEW f \in S, r[e] = r[f], e # f PROVE FALSE
    OBVIOUS
  <2>1. e < f \/ f < e
    OBVIOUS
  <2>2. r[e] < r[f] \/ r[f] < r[e]
    BY <1>3, <2>1
  <2>3. r[e] \in Int
    BY <1>1, <1>4
  <2> HIDE DEF r
  <2> QED
    BY <2>2, <2>3
<1> HIDE DEF r
<1>6. r \in Injection(S, 1..k)
  BY <1>4, <1>5 DEF Injection, IsInjective
<1>7. IsFiniteSet(1..k) /\ Cardinality(1..k) = k
  BY <1>1, FS_Interval
<1>8. r \in Surjection(S, 1..k)
  BY <1>6, <1>7, FS_Injection DEF k
<1>9. \A n \in 1..k : \E e \in S : r[e] = n
  BY <1>8 DEF Surjection
<1>10. \A n \in 1..k : a[n] \in S /\ r[a[n]] = n
  <2> SUFFICES ASSUME NEW n \in 1..k PROVE a[n] \in S /\ r[a[n]] = n
    OBVIOUS
  <2>1. a[n] = CHOOSE e \in S : Cardinality(upTo(e)) = n
    BY DEF Ascending, k
  <2>2. \E e \in S : Cardinality(upTo(e)) = n
    BY <1>9 DEF r
  <2>3. a[n] \in S /\ Cardinality(upTo(a[n])) = n
    <3> HIDE DEF a
    <3> QED
      BY <2>1, <2>2
  <2> QED
    BY <2>3 DEF r
<1>11. a \in Seq(S) /\ Len(a) = k /\ DOMAIN a = 1..k
  <2>1. a \in [1..k -> S]
    BY <1>10 DEF Ascending, k
  <2> HIDE DEF a
  <2> QED
    BY <1>1, <2>1
<1> HIDE DEF a
<1>12. ToSet(a) = S
  <2>1. \A e \in S : r[e] \in 1..k /\ a[r[e]] = e
    BY <1>4, <1>5, <1>10
  <2> QED
    <3>1. \A e \in ToSet(a) : e \in S
      BY <1>10, <1>11 DEF ToSet
    <3>2. \A e \in S : e \in ToSet(a)
      BY <1>11, <2>1 DEF ToSet
    <3> QED
      BY <3>1, <3>2
<1>13. IsInjective(a)
  BY <1>10, <1>11 DEF IsInjective
<1>14. ASSUME NEW i \in 1..k, NEW j \in 1..k, i < j PROVE a[i] < a[j]
  <2>1. a[i] \in S /\ a[j] \in S /\ r[a[i]] = i /\ r[a[j]] = j
    BY <1>10
  <2>2. ~(a[j] < a[i]) /\ a[i] # a[j]
    <3>1. a[j] < a[i] => r[a[j]] < r[a[i]]
      BY <1>3, <2>1
    <3> QED
      BY <1>14, <2>1, <3>1
  <2>3. a[i] \in Int /\ a[j] \in Int
    BY <2>1
  <2> QED
    BY <2>2, <2>3
<1> QED
  BY <1>11, <1>12, <1>13, <1>14 DEF a, k

-----------------------------------------------------------------------------
(* What Only selects of a list with an item put in or taken out.             *)

\* A list is what comes up to an item, and what comes after it.
LEMMA SplitItems ==
  ASSUME NEW A, NEW s \in Seq(A), NEW i \in 0..Len(s)
  PROVE  /\ SubSeq(s, 1, i) \in Seq(A) /\ SubSeq(s, i + 1, Len(s)) \in Seq(A)
         /\ SubSeq(s, 1, i) \o SubSeq(s, i + 1, Len(s)) = s
<1> DEFINE p == SubSeq(s, 1, i)
           q == SubSeq(s, i + 1, Len(s))
<1>1. /\ p \in Seq(A) /\ Len(p) = i /\ \A k \in 1..i : p[k] = s[k]
      /\ q \in Seq(A) /\ Len(q) = Len(s) - i /\ \A k \in 1..Len(s) - i : q[k] = s[i + k]
  OBVIOUS
<1> HIDE DEF p, q
<1>2. /\ p \o q \in Seq(A) /\ Len(p \o q) = Len(s)
      /\ \A k \in 1..Len(s) : (p \o q)[k] = IF k <= i THEN p[k] ELSE q[k - i]
  <2>1. /\ p \o q \in Seq(A) /\ Len(p \o q) = Len(p) + Len(q)
        /\ \A k \in 1..Len(p) + Len(q) :
             (p \o q)[k] = IF k <= Len(p) THEN p[k] ELSE q[k - Len(p)]
    BY <1>1, JoinedItems
  <2>2. Len(p) + Len(q) = Len(s)
    BY <1>1
  <2> QED
    BY <1>1, <2>1, <2>2, Zenon
<1>3. ASSUME NEW k \in 1..Len(s) PROVE (p \o q)[k] = s[k]
  <2>1. CASE k <= i
    BY <1>1, <1>2, <2>1
  <2>2. CASE k > i
    <3>1. k - i \in 1..Len(s) - i /\ i + (k - i) = k
      BY <2>2
    <3> QED
      BY <1>1, <1>2, <2>2, <3>1
  <2>3. k <= i \/ k > i
    <3>1. Len(s) \in Nat
      OBVIOUS
    <3> QED
      BY <3>1
  <2> QED
    BY <2>1, <2>2, <2>3, Zenon
<1>4. PICK r : r = p \o q
  OBVIOUS
<1>5. r = s
  <2>1. r \in Seq(A) /\ Len(r) = Len(s) /\ \A k \in 1..Len(s) : r[k] = s[k]
    BY <1>2, <1>3, <1>4
  <2>2. r = [k \in 1..Len(s) |-> r[k]] /\ s = [k \in 1..Len(s) |-> s[k]]
    BY <2>1
  <2> QED
    BY <2>1, <2>2
<1> QED
  BY <1>1, <1>4, <1>5 DEF p, q

LEMMA OnlyJoin ==
  ASSUME NEW A, NEW S, NEW s \in Seq(A)
  PROVE  \A t \in Seq(A) : Only(s \o t, S) = Only(s, S) \o Only(t, S)
<1> DEFINE Good == {t \in Seq(A) : Only(s \o t, S) = Only(s, S) \o Only(t, S)}
<1>1. <<>> \in Good
  <2>1. Only(s, S) \in Seq(A)
    BY OnlyItems
  <2>2. s \o <<>> = s /\ Only(s, S) \o <<>> = Only(s, S) /\ <<>> \in Seq(A)
    BY <2>1
  <2> QED
    BY <2>2, OnlyEmpty
<1>2. ASSUME NEW t \in Seq(A), NEW x \in A, t \in Good PROVE Append(t, x) \in Good
  <2>1. /\ Only(s, S) \in Seq(A) /\ Only(t, S) \in Seq(A) /\ s \o t \in Seq(A)
        /\ Append(t, x) \in Seq(A)
    BY OnlyItems
  <2>2. s \o Append(t, x) = Append(s \o t, x)
    OBVIOUS
  <2>3. Only(s \o Append(t, x), S)
          = IF x \in S THEN Append(Only(s \o t, S), x) ELSE Only(s \o t, S)
    BY <2>1, <2>2, OnlyAppend
  <2>4. Only(Append(t, x), S) = IF x \in S THEN Append(Only(t, S), x) ELSE Only(t, S)
    BY OnlyAppend
  <2>5. Append(Only(s, S) \o Only(t, S), x) = Only(s, S) \o Append(Only(t, S), x)
    <3>1. ASSUME NEW u \in Seq(A), NEW v \in Seq(A) PROVE u \o Append(v, x) = Append(u \o v, x)
      OBVIOUS
    <3> QED
      BY <2>1, <3>1
  <2>6. Only(s \o t, S) = Only(s, S) \o Only(t, S)
    BY <1>2
  <2>7. Only(s \o Append(t, x), S) = Only(s, S) \o Only(Append(t, x), S)
    BY <2>3, <2>4, <2>5, <2>6, Zenon
  <2> QED
    BY <2>1, <2>7
<1>3. Seq(A) \subseteq Good
  <2> HIDE DEF Good
  <2> QED
    BY <1>1, <1>2, ListInduction
<1> QED
  BY <1>3

\* An item that is not selected is in nobody's way.
LEMMA OnlyAround ==
  ASSUME NEW A, NEW S, NEW p \in Seq(A), NEW q \in Seq(A), NEW x \in A, x \notin S
  PROVE  Only(p \o <<x>> \o q, S) = Only(p \o q, S)
<1>1. p \o <<x>> = Append(p, x) /\ Append(p, x) \in Seq(A)
  OBVIOUS
<1>2. Only(Append(p, x), S) = Only(p, S)
  BY OnlyAppend
<1>3. Only(Append(p, x) \o q, S) = Only(Append(p, x), S) \o Only(q, S)
  BY <1>1, OnlyJoin
<1>4. Only(p \o q, S) = Only(p, S) \o Only(q, S)
  BY OnlyJoin
<1> QED
  BY <1>1, <1>2, <1>3, <1>4, Zenon

LEMMA OnlyInserted ==
  ASSUME NEW A, NEW S, NEW s \in Seq(A), NEW i \in 1..Len(s) + 1, NEW x \in A, x \notin S
  PROVE  Only(InsertAt(s, i, x), S) = Only(s, S)
<1> DEFINE p == SubSeq(s, 1, i - 1)
           q == SubSeq(s, i, Len(s))
<1>1. p \in Seq(A) /\ q \in Seq(A) /\ p \o q = s
  <2>1. i - 1 \in 0..Len(s) /\ (i - 1) + 1 = i
    OBVIOUS
  <2> QED
    BY <2>1, SplitItems
<1>2. InsertAt(s, i, x) = p \o <<x>> \o q
  BY DEF InsertAt
<1> HIDE DEF p, q
<1>3. Only(p \o <<x>> \o q, S) = Only(p \o q, S)
  BY <1>1, OnlyAround
<1> QED
  BY <1>1, <1>2, <1>3, Zenon

LEMMA OnlyRemoved ==
  ASSUME NEW A, NEW S, NEW s \in Seq(A), NEW i \in 1..Len(s), s[i] \notin S
  PROVE  Only(RemoveAt(s, i), S) = Only(s, S)
<1> DEFINE p == SubSeq(s, 1, i - 1)
           q == SubSeq(s, i + 1, Len(s))
<1>1. q \in Seq(A) /\ SubSeq(s, 1, i) \o q = s
  BY SplitItems
<1>2. p \in Seq(A) /\ s[i] \in A /\ SubSeq(s, 1, i) = p \o <<s[i]>>
  <2>1. p \in Seq(A) /\ s[i] \in A /\ SubSeq(s, 1, i) = Append(p, s[i])
    OBVIOUS
  <2>2. Append(p, s[i]) = p \o <<s[i]>>
    BY <2>1
  <2> QED
    BY <2>1, <2>2
<1>3. RemoveAt(s, i) = p \o q
  BY DEF RemoveAt
<1> HIDE DEF p, q
<1>4. Only(p \o <<s[i]>> \o q, S) = Only(p \o q, S)
  BY <1>1, <1>2, OnlyAround
<1> QED
  BY <1>1, <1>2, <1>3, <1>4, Zenon

\* RemoveFirst takes one item out, if it is there.
LEMMA RemoveFirstItems ==
  ASSUME NEW A, NEW s \in Seq(A), NEW x
  PROVE  /\ RemoveFirst(s, x) \in Seq(A)
         /\ ToSet(RemoveFirst(s, x)) \subseteq ToSet(s)
         /\ ToSet(s) \subseteq ToSet(RemoveFirst(s, x)) \cup {x}
         /\ IsInjective(s) => IsInjective(RemoveFirst(s, x)) /\ x \notin ToSet(RemoveFirst(s, x))
         /\ Len(RemoveFirst(s, x)) = IF x \in ToSet(s) THEN Len(s) - 1 ELSE Len(s)
         /\ x \notin ToSet(s) => RemoveFirst(s, x) = s
         /\ \A S : x \notin S => Only(RemoveFirst(s, x), S) = Only(s, S)
<1>1. Len(s) \in Nat /\ DOMAIN s = 1..Len(s)
  OBVIOUS
<1>2. CASE ~\E i \in 1..Len(s) : s[i] = x
  <2>1. RemoveFirst(s, x) = s
    BY <1>2 DEF RemoveFirst
  <2>2. x \notin ToSet(s)
    BY <1>1, <1>2 DEF ToSet
  <2> QED
    BY <2>1, <2>2
<1>3. CASE \E i \in 1..Len(s) : s[i] = x
  <2> DEFINE I == {i \in 1..Len(s) : s[i] = x}
             k == SelectInSeq(s, LAMBDA v : v = x)
  <2>1. I # {} /\ I \subseteq Nat
    BY <1>3
  <2>2. k = Min(I)
    BY <2>1 DEF SelectInSeq
  <2>3. k \in I
    <3>1. \E n \in I : \A m \in I : n <= m
      <4> HIDE DEF I
      <4> QED
        BY <2>1, LeastNumber
    <3> QED
      BY <2>2, <3>1 DEF Min
  <2>4. RemoveFirst(s, x) = RemoveAt(s, k)
    BY <1>3 DEF RemoveFirst
  <2>5. k \in 1..Len(s) /\ s[k] = x
    BY <2>3
  <2> HIDE DEF k, I
  <2>6. x \in ToSet(s)
    BY <1>1, <2>5 DEF ToSet
  <2>7. \A S : x \notin S => Only(RemoveAt(s, k), S) = Only(s, S)
    BY <2>5, OnlyRemoved
  <2> QED
    BY <2>4, <2>5, <2>6, <2>7, RemoveAtItems
<1> QED
  BY <1>2, <1>3
=============================================================================
