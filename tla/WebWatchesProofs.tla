-------------------------- MODULE WebWatchesProofs --------------------------
(***************************************************************************)
(* The theorems about WebWatches.                                          *)
(***************************************************************************)
EXTENDS WebWatches, FiniteSetTheorems, WellFoundedInduction, TLAPS

-----------------------------------------------------------------------------
(***************************************************************************)
(* Places in a list.                                                       *)
(***************************************************************************)

\* The greatest of a set of numbers up to n.
LEMMA Greatest ==
    ASSUME NEW n \in Nat, NEW S \in SUBSET (1..n), S # {}
    PROVE  Max(S) \in S /\ \A i \in S : i <= Max(S)
<1> DEFINE Bounds == {m \in Nat : \A i \in S : i <= m}
<1>1. PICK m \in Bounds : \A k \in Bounds : <<k, m>> \notin OpToRel(<, Nat)
  <2>1. n \in Bounds /\ Bounds \subseteq Nat
    OBVIOUS
  <2> QED
    BY <2>1, WFMin, NatLessThanWellFounded
<1>2. m \in S
  <2> SUFFICES ASSUME m \notin S PROVE FALSE
    OBVIOUS
  <2>1. m \in Nat /\ m # 0 /\ \A i \in S : i \in Nat /\ i <= m /\ i # m
    <3>1. \A i \in S : i \in 1..n /\ i <= m /\ i # m
      OBVIOUS
    <3>2. PICK i \in S : TRUE
      OBVIOUS
    <3> QED
      BY <3>1, <3>2
  <2>2. m - 1 \in Bounds
    BY <2>1
  <2>3. <<m - 1, m>> \in OpToRel(<, Nat)
    BY <2>1, SMT DEF OpToRel
  <2> QED
    BY <1>1, <2>2, <2>3
<1>3. \E x \in S : \A y \in S : x >= y
  BY <1>1, <1>2
<1>4. Max(S) \in S /\ \A y \in S : Max(S) >= y
  BY <1>3 DEF Max
<1> DEFINE h == Max(S)
<1>5. h \in S /\ \A y \in S : h >= y
  BY <1>4
<1> HIDE DEF h
<1>6. \A y \in S : y <= h
  BY <1>5
<1> QED
  BY <1>5, <1>6 DEF h

Increasing(f) == \A i, j \in DOMAIN f : i < j => f[i] < f[j]

\* Places can be put in order.
LEMMA OrderExists ==
    ASSUME NEW n \in Nat, NEW S \in SUBSET (1..n)
    PROVE  IsFiniteSet(S) /\ Cardinality(S) \in Nat /\ \E f \in [1..Cardinality(S) -> S] : Increasing(f)
<1> DEFINE Ordered(k) == \A T \in SUBSET (1..k) : \E f \in [1..Cardinality(T) -> T] : Increasing(f)
           Bad == {k \in Nat : ~Ordered(k)}
<1>1. ASSUME NEW k \in Nat, NEW T \in SUBSET (1..k)
      PROVE  IsFiniteSet(T) /\ Cardinality(T) \in Nat
  <2>1. IsFiniteSet(1..k)
    BY FS_Interval
  <2> QED
    BY <2>1, FS_Subset, FS_CardinalityType
<1>2. SUFFICES ASSUME Bad # {} PROVE FALSE
  BY <1>1
<1>3. PICK k \in Bad : \A j \in Bad : <<j, k>> \notin OpToRel(<, Nat)
  <2>1. Bad \subseteq Nat
    OBVIOUS
  <2> QED
    BY <1>2, <2>1, WFMin, NatLessThanWellFounded
<1>4. PICK T \in SUBSET (1..k) : ~ \E f \in [1..Cardinality(T) -> T] : Increasing(f)
  BY <1>3
<1>5. k # 0
  <2> SUFFICES ASSUME k = 0 PROVE FALSE
    OBVIOUS
  <2>1. T = {}
    OBVIOUS
  <2>2. Cardinality(T) = 0
    BY <2>1, FS_EmptySet
  <2>3. [i \in {} |-> 0] \in [1..Cardinality(T) -> T] /\ Increasing([i \in {} |-> 0])
    BY <2>1, <2>2 DEF Increasing
  <2> QED
    BY <1>4, <2>3
<1>6. Ordered(k - 1)
  <2>1. k - 1 \in Nat /\ <<k - 1, k>> \in OpToRel(<, Nat)
    BY <1>5, SMT DEF OpToRel
  <2> QED
    BY <1>3, <2>1
<1>7. k \in T
  <2> SUFFICES ASSUME k \notin T PROVE FALSE
    OBVIOUS
  <2>1. T \in SUBSET (1..(k - 1))
    BY <1>5
  <2> QED
    BY <1>4, <1>6, <2>1
<1> DEFINE R == T \ {k}
           m == Cardinality(T)
<1>8. R \in SUBSET (1..(k - 1))
  BY <1>5
<1>9. PICK g \in [1..Cardinality(R) -> R] : Increasing(g)
  BY <1>6, <1>8
<1>10. m \in Nat \ {0} /\ Cardinality(R) = m - 1
  <2>1. IsFiniteSet(T) /\ m \in Nat
    BY <1>1
  <2>2. Cardinality(R) = m - 1
    BY <1>7, <2>1, FS_RemoveElement
  <2>3. m # 0
    BY <1>7, <2>1, FS_EmptySet
  <2> QED
    BY <2>1, <2>2, <2>3
<1> DEFINE f == [i \in 1..m |-> IF i = m THEN k ELSE g[i]]
<1> HIDE DEF m, R
<1>11. R \subseteq T /\ \A x \in R : x \in Nat /\ x < k
  BY <1>5, <1>8 DEF R
<1>12. \A i \in 1..m : i # m => i \in 1..(m - 1) /\ g[i] \in R
  BY <1>9, <1>10
<1>13. f \in [1..m -> T]
  BY <1>7, <1>11, <1>12
<1>14. Increasing(f)
  <2> SUFFICES ASSUME NEW i \in 1..m, NEW j \in 1..m, i < j
               PROVE  f[i] < f[j]
    BY DEF Increasing
  <2>1. i # m /\ i \in 1..(m - 1)
    BY <1>10
  <2>2. CASE j = m
    BY <1>11, <1>12, <2>1, <2>2
  <2>3. CASE j # m
    BY <1>9, <1>10, <1>12, <2>1, <2>3 DEF Increasing
  <2> QED
    BY <2>2, <2>3
<1> QED
  BY <1>4, <1>13, <1>14 DEF m

LEMMA SizeOfInterval ==
    ASSUME NEW m \in Nat
    PROVE  IsFiniteSet(1..m) /\ Cardinality(1..m) = m
<1>1. \A a, b \in Int : /\ IsFiniteSet(a..b)
                         /\ Cardinality(a..b) = IF a > b THEN 0 ELSE b - a + 1
  BY FS_Interval
<1>2. 1 \in Int /\ m \in Int
  OBVIOUS
<1>3. IsFiniteSet(1..m) /\ Cardinality(1..m) = IF 1 > m THEN 0 ELSE m - 1 + 1
  BY <1>1, <1>2, Zenon
<1>4. (IF 1 > m THEN 0 ELSE m - 1 + 1) = m
  OBVIOUS
<1> QED
  BY <1>3, <1>4

\* The function at puts places in order, and a list follows it there.
Enumerates(at, list, places) ==
    /\ at \in [1..Cardinality(places) -> places]
    /\ Increasing(at)
    /\ At(list, places) = [i \in 1..Cardinality(places) |-> list[at[i]]]

\* An increasing enumeration of places leaves none out.
LEMMA IncreasingCovers ==
    ASSUME NEW n \in Nat, NEW S \in SUBSET (1..n), NEW f, NEW list, Enumerates(f, list, S)
    PROVE  \A j \in S : \E i \in 1..Cardinality(S) : f[i] = j
<1> DEFINE m == Cardinality(S)
<1>m. m \in Nat /\ f \in [1..m -> S] /\ Increasing(f)
  BY OrderExists DEF Enumerates
<1>c. m = Cardinality(S)
  OBVIOUS
<1> HIDE DEF m
<1>0. \A i, j \in 1..m : i < j => f[i] < f[j]
  BY <1>m DEF Increasing
<1>1. \A i \in 1..m : f[i] \in Nat
  <2>1. \A i \in S : i \in Nat
    OBVIOUS
  <2> QED
    BY <1>m, <2>1
<1>2. ASSUME NEW i \in 1..m, NEW j \in 1..m, f[i] = f[j]
      PROVE  i = j
  <2>1. CASE i < j
    BY <1>0, <1>1, <1>2, <2>1
  <2>2. CASE j < i
    BY <1>0, <1>1, <1>2, <2>2
  <2> QED
    BY <2>1, <2>2
<1>3. f \in Injection(1..m, S)
  BY <1>m, <1>2 DEF Injection, IsInjective
<1>4. IsFiniteSet(1..m) /\ Cardinality(1..m) = m /\ IsFiniteSet(S)
  <2>1. IsFiniteSet(1..m) /\ Cardinality(1..m) = m
    BY <1>m, SizeOfInterval
  <2>2. IsFiniteSet(S)
    BY OrderExists
  <2> QED
    BY <2>1, <2>2
<1>5. f \in Surjection(1..m, S)
  BY <1>c, <1>3, <1>4, FS_Injection
<1> QED
  BY <1>c, <1>5 DEF Surjection

\* The part of a list at some places follows an increasing enumeration of them.
LEMMA AtOrder ==
    ASSUME NEW n \in Nat, NEW places \in SUBSET (1..n), NEW list
    PROVE  \E at : Enumerates(at, list, places)
<1> DEFINE m == Cardinality(places)
           Order(f) == \A i, j \in DOMAIN f : i < j => f[i] < f[j]
           at == CHOOSE f \in [1..m -> places] : Order(f)
<1>1. at \in [1..m -> places] /\ Order(at)
  BY OrderExists DEF Increasing
<1>2. At(list, places) = [i \in 1..m |-> list[at[i]]]
  BY DEF At
<1> HIDE DEF at
<1>3. Enumerates(at, list, places)
  BY <1>1, <1>2 DEF Increasing, Enumerates
<1> QED
  BY <1>3

\* The sequence s is over X.
Over(s, X) == s \in Seq(X)

\* It is a sequence of what stands there, and leaves nothing out.
LEMMA AtPlaces ==
    ASSUME NEW n \in Nat, NEW places \in SUBSET (1..n), NEW list, NEW X,
           \A i \in places : list[i] \in X
    PROVE  /\ Over(At(list, places), X)
           /\ Range(At(list, places)) = {list[i] : i \in places}
<1>a. PICK at : Enumerates(at, list, places)
  BY AtOrder
<1>c. \A j \in places : \E i \in 1..Cardinality(places) : at[i] = j
  BY <1>a, IncreasingCovers
<1> DEFINE m == Cardinality(places)
           s == At(list, places)
<1>1. m \in Nat /\ m = Cardinality(places)
  BY OrderExists
<1>2. at \in [1..m -> places] /\ Increasing(at) /\ s = [i \in 1..m |-> list[at[i]]]
  BY <1>a DEF Enumerates
<1> HIDE DEF s, m
<1>3. \A j \in places : \E i \in 1..m : at[i] = j
  BY <1>c, <1>1
<1>4. s \in [1..m -> X] /\ DOMAIN s = 1..m
  BY <1>2
<1>5. Over(s, X)
  BY <1>1, <1>4 DEF Over
<1>6. ASSUME NEW i \in places
      PROVE  list[i] \in Range(s)
  <2>1. PICK j \in 1..m : at[j] = i
    BY <1>3
  <2>2. s[j] = list[i]
    BY <1>2, <2>1
  <2> QED
    BY <1>4, <2>2 DEF Range
<1>7. ASSUME NEW x \in Range(s)
      PROVE  x \in {list[i] : i \in places}
  <2>1. PICK j \in 1..m : x = s[j]
    BY <1>4 DEF Range
  <2>2. x = list[at[j]] /\ at[j] \in places
    BY <1>2, <2>1
  <2> QED
    BY <2>2
<1>8. Range(s) = {list[i] : i \in places}
  BY <1>6, <1>7
<1> QED
  BY <1>5, <1>8 DEF s

\* At all places it is the list.
LEMMA AtAll ==
    ASSUME NEW n \in Nat, NEW list, list = [i \in 1..n |-> list[i]]
    PROVE  At(list, 1..n) = list
<1>1. PICK at : Enumerates(at, list, 1..n)
  BY AtOrder
<1> DEFINE m == Cardinality(1..n)
           s == At(list, 1..n)
<1>a. m = n
  BY SizeOfInterval
<1>b. at \in [1..m -> 1..n] /\ Increasing(at) /\ s = [i \in 1..m |-> list[at[i]]]
  BY <1>1 DEF Enumerates
<1> HIDE DEF m, s
<1>2. at \in [1..n -> 1..n] /\ Increasing(at) /\ s = [i \in 1..n |-> list[at[i]]]
  BY <1>a, <1>b
<1>3. \A i \in 1..n : at[i] >= i
  <2> DEFINE Bad == {i \in 1..n : at[i] < i}
  <2> SUFFICES ASSUME Bad # {} PROVE FALSE
    BY <1>2
  <2>1. PICK i \in Bad : \A j \in Bad : <<j, i>> \notin OpToRel(<, Nat)
    <3>1. Bad \subseteq Nat
      OBVIOUS
    <3> QED
      BY <3>1, WFMin, NatLessThanWellFounded
  <2> DEFINE j == at[i]
  <2>2. i \in 1..n /\ j \in 1..n /\ j < i
    BY <1>2
  <2>3. at[j] < j
    BY <1>2, <2>2 DEF Increasing
  <2>4. <<j, i>> \in OpToRel(<, Nat)
    BY <2>2, SMT DEF OpToRel
  <2> QED
    BY <2>1, <2>2, <2>3, <2>4
<1>4. \A i \in 1..n : at[i] = i
  <2> DEFINE Bad == {i \in 1..n : at[i] # i}
  <2> SUFFICES ASSUME Bad # {} PROVE FALSE
    OBVIOUS
  <2> DEFINE i == Max(Bad)
  <2>1. i \in Bad /\ \A j \in Bad : j <= i
    <3>1. Bad \in SUBSET (1..n) /\ Bad # {}
      OBVIOUS
    <3> HIDE DEF Bad
    <3> QED
      BY <3>1, Greatest
  <2> HIDE DEF i
  <2> DEFINE j == at[i]
  <2>2. i \in 1..n /\ j \in 1..n /\ j > i
    BY <1>2, <1>3, <2>1
  <2>3. at[j] = j
    BY <2>1, <2>2
  <2>4. at[j] > at[i]
    BY <1>2, <2>2 DEF Increasing
  <2> QED
    BY <2>2, <2>3, <2>4
<1>5. s = list
  BY <1>2, <1>4
<1> QED
  BY <1>5 DEF s

-----------------------------------------------------------------------------
(***************************************************************************)
(* What a list holds.                                                      *)
(***************************************************************************)

LEMMA RangeOfSeq ==
    ASSUME NEW X, NEW s, Over(s, X)
    PROVE  /\ Len(s) \in Nat
           /\ \A i \in 1..Len(s) : s[i] \in X /\ s[i] \in Range(s)
           /\ \A x \in Range(s) : x \in X /\ \E i \in 1..Len(s) : x = s[i]
<1>1. Len(s) \in Nat /\ DOMAIN s = 1..Len(s) /\ \A i \in 1..Len(s) : s[i] \in X
  BY DEF Over
<1>2. \A i \in 1..Len(s) : s[i] \in Range(s)
  BY <1>1 DEF Range
<1>3. \A x \in Range(s) : \E i \in 1..Len(s) : x = s[i]
  BY <1>1 DEF Range
<1>4. \A x \in Range(s) : x \in X
  BY <1>1, <1>3
<1> QED
  BY <1>1, <1>2, <1>3, <1>4

LEMMA RangeOfTail ==
    ASSUME NEW X, NEW s, Over(s, X), s # <<>>
    PROVE  /\ Head(s) \in X /\ Over(Tail(s), X) /\ Len(Tail(s)) = Len(s) - 1
           /\ \A i \in 1..(Len(s) - 1) : Tail(s)[i] = s[i + 1]
           /\ Range(s) = {Head(s)} \cup Range(Tail(s))
<1>1. Len(s) \in Nat \ {0} /\ Head(s) = s[1] /\ Head(s) \in X
  BY DEF Over
<1> DEFINE t == Tail(s)
<1>2. Over(t, X) /\ Len(t) = Len(s) - 1 /\ \A i \in 1..(Len(s) - 1) : t[i] = s[i + 1]
  BY DEF Over
<1> HIDE DEF t
<1>3. /\ \A i \in 1..Len(s) : s[i] \in Range(s)
      /\ \A x \in Range(s) : \E i \in 1..Len(s) : x = s[i]
      /\ \A i \in 1..Len(t) : t[i] \in Range(t)
      /\ \A x \in Range(t) : \E i \in 1..Len(t) : x = t[i]
  BY <1>2, RangeOfSeq
<1>4. ASSUME NEW x \in Range(s)
      PROVE  x = Head(s) \/ x \in Range(t)
  <2>1. PICK i \in 1..Len(s) : x = s[i]
    BY <1>3
  <2>2. CASE i = 1
    BY <1>1, <2>1, <2>2
  <2>3. CASE i # 1
    <3>1. i - 1 \in 1..Len(t) /\ t[i - 1] = s[i]
      BY <1>1, <1>2, <2>1, <2>3
    <3> QED
      BY <1>3, <2>1, <3>1
  <2> QED
    BY <2>2, <2>3
<1>5. Head(s) \in Range(s)
  BY <1>1, <1>3
<1>6. ASSUME NEW x \in Range(t)
      PROVE  x \in Range(s)
  <2>1. PICK i \in 1..Len(t) : x = t[i]
    BY <1>3
  <2>2. i + 1 \in 1..Len(s) /\ x = s[i + 1]
    BY <1>1, <1>2, <2>1
  <2> QED
    BY <1>3, <2>2
<1> QED
  BY <1>1, <1>2, <1>4, <1>5, <1>6 DEF t

LEMMA RangeOfAppend ==
    ASSUME NEW X, NEW s, Over(s, X), NEW x \in X
    PROVE  Over(Append(s, x), X) /\ Range(Append(s, x)) = Range(s) \cup {x}
<1> DEFINE t == Append(s, x)
<1>1. /\ Over(t, X) /\ Len(t) = Len(s) + 1 /\ Len(s) \in Nat
      /\ t[Len(s) + 1] = x /\ \A i \in 1..Len(s) : t[i] = s[i]
  BY DEF Over
<1> HIDE DEF t
<1>2. /\ \A i \in 1..Len(s) : s[i] \in Range(s)
      /\ \A y \in Range(s) : \E i \in 1..Len(s) : y = s[i]
      /\ \A i \in 1..Len(t) : t[i] \in Range(t)
      /\ \A y \in Range(t) : \E i \in 1..Len(t) : y = t[i]
  BY <1>1, RangeOfSeq
<1>3. ASSUME NEW y \in Range(t)
      PROVE  y \in Range(s) \/ y = x
  <2>1. PICK i \in 1..Len(t) : y = t[i]
    BY <1>2
  <2>2. i \in 1..Len(s) \/ i = Len(s) + 1
    BY <1>1, <2>1
  <2> QED
    BY <1>1, <1>2, <2>1, <2>2
<1>4. ASSUME NEW y, y \in Range(s) \/ y = x
      PROVE  y \in Range(t)
  <2>1. CASE y = x
    BY <1>1, <1>2, <2>1
  <2>2. CASE y \in Range(s)
    <3>1. PICK i \in 1..Len(s) : y = s[i]
      BY <1>2, <2>2
    <3>2. i \in 1..Len(t) /\ y = t[i]
      BY <1>1, <3>1
    <3> QED
      BY <1>2, <3>2
  <2> QED
    BY <1>4, <2>1, <2>2
<1> QED
  BY <1>1, <1>3, <1>4 DEF t

LEMMA RangeOfEmpty == Range(<<>>) = {}
BY DEF Range

-----------------------------------------------------------------------------
(***************************************************************************)
(* Reconciliation.                                                         *)
(***************************************************************************)

Paired(old) == Over(old.urls, URLs) /\ Over(old.ids, Watches)

LEMMA NoneIsNoWatch == None \notin Watches /\ None \notin Seq(Watches) /\ Watches \subseteq Nat
<1>1. Watches \subseteq Nat
  BY UrlsAssumption DEF Watches
<1>2. Seq(Watches) \subseteq Seq(Nat)
  <2> SUFFICES ASSUME NEW s \in Seq(Watches)
               PROVE  s \in Seq(Nat)
    OBVIOUS
  <2> DEFINE n == Len(s)
  <2>1. n \in Nat /\ s \in [1..n -> Watches]
    OBVIOUS
  <2> HIDE DEF n
  <2>2. s \in [1..n -> Nat]
    BY <1>1, <2>1
  <2> QED
    BY <2>1, <2>2
<1> QED
  BY <1>1, <1>2, NoneAssumption

\* The watch that is known for an address stands at a place of the address.
LEMMA WatchOfPlace ==
    ASSUME NEW old, Paired(old), NEW u
    PROVE  \/ /\ WatchOf(old, u) = None
              /\ \A i \in 1..Len(old.urls) : old.urls[i] = u => i > Len(old.ids)
           \/ \E i \in 1..Len(old.urls) :
                 i \in 1..Len(old.ids) /\ old.urls[i] = u /\ WatchOf(old, u) = old.ids[i]
<1> DEFINE places == {i \in 1..Len(old.urls) : old.urls[i] = u /\ i <= Len(old.ids)}
           i == Max(places)
<1>1. Len(old.urls) \in Nat /\ Len(old.ids) \in Nat
  BY DEF Paired, Over
<1>2. CASE places = {}
  <2>1. WatchOf(old, u) = None
    BY <1>2 DEF WatchOf
  <2>2. \A j \in 1..Len(old.urls) : old.urls[j] = u => j > Len(old.ids)
    BY <1>1, <1>2
  <2> QED
    BY <2>1, <2>2
<1>3. CASE places # {}
  <2>1. WatchOf(old, u) = old.ids[i]
    BY <1>3 DEF WatchOf
  <2>2. i \in places
    <3>1. places \in SUBSET (1..Len(old.urls))
      OBVIOUS
    <3> HIDE DEF places
    <3> QED
      BY <1>1, <1>3, <3>1, Greatest
  <2> HIDE DEF i
  <2>3. i \in 1..Len(old.urls) /\ i \in 1..Len(old.ids) /\ old.urls[i] = u
    BY <1>1, <2>2
  <2> QED
    BY <2>1, <2>3
<1> QED
  BY <1>2, <1>3

LEMMA WatchOfType ==
    ASSUME NEW old, Paired(old), NEW u
    PROVE  /\ WatchOf(old, u) \in Watches \cup {None}
           /\ WatchOf(old, u) # None => WatchOf(old, u) \in Range(old.ids)
<1>1. \A i \in 1..Len(old.ids) : old.ids[i] \in Watches /\ old.ids[i] \in Range(old.ids)
  BY RangeOfSeq DEF Paired
<1>2. WatchOf(old, u) = None \/ \E i \in 1..Len(old.ids) : WatchOf(old, u) = old.ids[i]
  BY WatchOfPlace
<1> QED
  BY <1>1, <1>2

\* The watches that go are those of addresses that go.
LEMMA DroppedRange ==
    ASSUME NEW old, Paired(old), NEW new
    PROVE  /\ Over(Dropped(old, new), Watches)
           /\ Range(Dropped(old, new)) =
                 {WatchOf(old, old.urls[i]) :
                     i \in {j \in 1..Len(old.urls) :
                               old.urls[j] \notin Range(new) /\ WatchOf(old, old.urls[j]) # None}}
<1> DEFINE n == Len(old.urls)
           list == [i \in 1..n |-> WatchOf(old, old.urls[i])]
           places == {i \in 1..n : old.urls[i] \notin Range(new) /\ WatchOf(old, old.urls[i]) # None}
<1>1. n \in Nat
  BY DEF Paired, Over
<1>2. places \in SUBSET (1..n)
  OBVIOUS
<1>3. \A i \in places : list[i] = WatchOf(old, old.urls[i])
  OBVIOUS
<1>4. \A i \in places : list[i] \in Watches
  BY WatchOfType
<1>5. Dropped(old, new) = At(list, places)
  BY DEF Dropped
<1>6. {list[i] : i \in places} = {WatchOf(old, old.urls[i]) : i \in places}
  BY <1>3
<1> HIDE DEF n, list, places
<1>7. Over(At(list, places), Watches) /\ Range(At(list, places)) = {list[i] : i \in places}
  BY <1>1, <1>2, <1>4, AtPlaces
<1> QED
  BY <1>5, <1>6, <1>7 DEF n, list, places

\* The watches of a list of addresses are those that are known for them, and if
\* all are known they follow the list.
LEMMA ListedRange ==
    ASSUME NEW urls, Over(urls, URLs), NEW of \in [URLs -> Watches \cup {None}]
    PROVE  /\ Over(Listed(urls, of), Watches)
           /\ \A d \in Range(Listed(urls, of)) : \E u \in Range(urls) : d = of[u] /\ of[u] # None
           /\ (\A u \in Range(urls) : of[u] # None) =>
                 Listed(urls, of) = [i \in 1..Len(urls) |-> of[urls[i]]]
<1> DEFINE n == Len(urls)
           list == [i \in 1..n |-> of[urls[i]]]
           places == {i \in 1..n : of[urls[i]] # None}
<1>1. /\ n \in Nat
      /\ \A i \in 1..n : urls[i] \in URLs /\ urls[i] \in Range(urls)
      /\ \A u \in Range(urls) : \E i \in 1..n : u = urls[i]
  BY RangeOfSeq
<1>2. places \in SUBSET (1..n)
  OBVIOUS
<1>3. \A i \in places : list[i] \in Watches /\ list[i] = of[urls[i]] /\ urls[i] \in Range(urls) /\ of[urls[i]] # None
  BY <1>1
<1>4. Listed(urls, of) = At(list, places)
  BY DEF Listed
<1>5. (\A u \in Range(urls) : of[u] # None) => places = 1..n
  BY <1>1
<1>6. list = [i \in 1..n |-> list[i]]
  OBVIOUS
<1> HIDE DEF n, list, places
<1>7. Over(At(list, places), Watches) /\ Range(At(list, places)) = {list[i] : i \in places}
  <2>1. \A i \in places : list[i] \in Watches
    BY <1>3
  <2> QED
    BY <1>1, <1>2, <2>1, AtPlaces
<1>8. \A d \in Range(At(list, places)) : \E u \in Range(urls) : d = of[u] /\ of[u] # None
  BY <1>3, <1>7
<1>9. (\A u \in Range(urls) : of[u] # None) => At(list, places) = list
  BY <1>1, <1>5, <1>6, AtAll
<1> QED
  BY <1>4, <1>7, <1>8, <1>9 DEF n, list, places

-----------------------------------------------------------------------------
(***************************************************************************)
(* The inductive invariant.                                                *)
(***************************************************************************)

\* The watches of a source.
Own(s) == {w \in watch : w.source = s}

Present(ids, own) == \A d \in Range(ids) : \E w \in own : w.id = d

\* The stages of each kind of request.
Stages == {<<"create", "call">>, <<"create", "write">>, <<"create", "track">>,
           <<"update", "read">>, <<"update", "call">>, <<"update", "track">>, <<"update", "write">>,
           <<"delete", "call">>, <<"delete", "track">>, <<"delete", "write">>}

\* What a request holds at its stage.
Shaped(q) ==
    /\ q.source \in Sources /\ <<q.op, q.pc>> \in Stages
    /\ q.op = "create" => q.drop = <<>> /\ q.web
    /\ q.op = "delete" => q.make = <<>>
    /\ q.op = "update" /\ ~q.web => q.pc = "write" /\ q.ids = <<>>
    /\ q.pc = "read" => q.drop = <<>> /\ q.make = <<>> /\ q.ids = <<>>
    /\ q.pc \in {"write", "track"} => q.drop = <<>> /\ q.make = <<>>
    /\ Range(q.make) \subseteq Range(q.urls)

Formed(q) == q \in RequestState /\ (q = Idle \/ Shaped(q))

\* Only a row that is kept holds anything.
Shapes ==
    /\ \A r \in Requests : Formed(request[r])
    /\ \A s \in Sources : ~Kept(s) => row[s] = [NoRow EXCEPT !.life = row[s].life]

\* The watch d was made for source s.
Mine(d, s) == d \in 1..made /\ \A w \in watch : w.id = d => w.source = s

\* The watches that a request has at hand.
Handled(q) == Range(q.drop) \cup Range(q.ids) \cup ({q.of[u] : u \in URLs} \ {None})

\* Nobody handles the watch of another source.
Owned ==
    /\ \A w \in watch : w.id \in 1..made
    /\ \A s \in Sources : \A d \in Range(row[s].ids) : Mine(d, s)
    /\ \A r \in Requests : \A d \in Handled(request[r]) : Mine(d, request[r].source)

\* What a request, or Idle for a source without one, finds while its source is not
\* torn: the watches exist that the row lists or will list.
Lists(q, rw, own) ==
    /\ q.op = "none" => (rw.life = "kept" => Present(rw.ids, own))
    /\ q.op # "none" => rw.life = "kept"
    /\ q.op = "create" => Present(q.ids, own) /\ Present(rw.ids, own)
    /\ q.op = "update" /\ q.pc = "read" => Present(rw.ids, own)
    /\ q.op = "update" /\ q.pc = "call" =>
          \A u \in Range(q.urls) :
             q.of[u] # None => (\E w \in own : w.id = q.of[u]) /\ q.of[u] \notin Range(q.drop)
    /\ q.op = "update" /\ q.pc \in {"track", "write"} => Present(q.ids, own)

\* One watch for each address, in their order, and no other.
Pairs(s, urls, ids, own) ==
    own = {[id |-> ids[i], url |-> urls[i], source |-> s] : i \in 1..Len(ids)}

Agrees(rw, inst) == inst # None => rw.life = "kept" /\ inst = rw.ids

Settled(s, rw, inst, own) ==
    /\ Pairs(s, rw.urls, rw.ids, own)
    /\ rw.life = "kept" /\ rw.web => Len(rw.ids) = Len(rw.urls)
    /\ Agrees(rw, inst)

\* What a request finds while its source has no flaw: a creation has made the
\* watches of the first addresses,
Creating(s, q, rw, inst, own) ==
    /\ rw.urls = q.urls /\ rw.web /\ inst = None
    /\ rw.ids = IF q.pc = "track" THEN q.ids ELSE <<>>
    /\ Len(q.ids) + Len(q.make) = Len(q.urls)
    /\ \A i \in 1..Len(q.make) : q.make[i] = q.urls[Len(q.ids) + i]
    /\ Pairs(s, q.urls, q.ids, own)

\* an update knows every watch of the source, to keep or to drop, and has those
\* of the new addresses or makes them,
Calling(s, q, rw, inst, own) ==
    /\ Agrees(rw, inst)
    /\ \A w \in own : q.of[w.url] = w.id /\ (w.url \in Range(q.urls) \/ w.id \in Range(q.drop))
    /\ \A u \in Range(q.urls) :
          \/ q.of[u] = None /\ u \in Range(q.make)
          \/ q.of[u] # None /\ [id |-> q.of[u], url |-> u, source |-> s] \in own

\* and lists them in the end,
Listing(s, q, rw, inst, own) ==
    /\ Pairs(s, q.urls, q.ids, own)
    /\ q.web => Len(q.ids) = Len(q.urls)
    /\ q.pc = "track" => Agrees(rw, inst)
    /\ q.pc = "write" => inst = None \/ (q.web /\ inst = q.ids)

\* and a deletion drops every watch.
Deleting(q, inst, own) ==
    /\ \A w \in own : w.id \in Range(q.drop)
    /\ q.pc = "write" => inst = None

Matches(s, q, rw, inst, own) ==
    /\ IsInjective(rw.urls) /\ IsInjective(q.urls)
    /\ ~rw.web => rw.ids = <<>> /\ inst = None
    /\ q.op = "none" \/ (q.op = "update" /\ q.pc = "read") => Settled(s, rw, inst, own)
    /\ q.op = "create" => Creating(s, q, rw, inst, own)
    /\ q.op = "update" /\ q.pc = "call" => Calling(s, q, rw, inst, own)
    /\ q.op = "update" /\ q.pc \in {"track", "write"} => Listing(s, q, rw, inst, own)
    /\ q.op = "delete" => Deleting(q, inst, own)

Finds(s, q) ==
    /\ s \notin torn => Lists(q, row[s], Own(s))
    /\ s \notin flawed => Matches(s, q, row[s], instance[s], Own(s))

\* A source that is not torn has one request at a time.
Alone(r, s) == \A p \in Requests : request[p].source = s => p = r

Sound(s) ==
    /\ s \notin torn => \A r \in Requests : request[r].source = s => Alone(r, s)
    /\ \A r \in Requests : request[r].source = s => Finds(s, request[r])
    /\ ~Busy(s) => Finds(s, Idle)

WatchInv == TypeOK /\ Shapes /\ Owned /\ \A s \in Sources : Sound(s)

-----------------------------------------------------------------------------
(***************************************************************************)
(* Types, and what requests hold.                                          *)
(***************************************************************************)

LEMMA RequestFields ==
    ASSUME NEW q \in RequestState
    PROVE  /\ q.op \in {"create", "update", "delete", "none"}
           /\ q.pc \in {"idle", "read", "call", "track", "write"}
           /\ q.source \in Sources \cup {None} /\ q.web \in BOOLEAN
           /\ q.urls \in Seq(URLs) /\ q.drop \in Seq(Watches)
           /\ q.make \in Seq(URLs) /\ q.ids \in Seq(Watches)
           /\ q.of \in [URLs -> Watches \cup {None}]
BY DEF RequestState

LEMMA RowFields ==
    ASSUME NEW s \in Sources, row \in [Sources -> RowState]
    PROVE  /\ row[s].life \in {"unused", "kept", "deleted", "gone"} /\ row[s].web \in BOOLEAN
           /\ row[s].urls \in Seq(URLs) /\ row[s].ids \in Seq(Watches) /\ Paired(row[s])
<1>1. row[s] \in RowState
  OBVIOUS
<1> DEFINE rw == row[s]
<1> HIDE DEF rw
<1>2. rw \in RowState
  BY <1>1 DEF rw
<1>3. /\ rw.life \in {"unused", "kept", "deleted", "gone"} /\ rw.web \in BOOLEAN
      /\ rw.urls \in Seq(URLs) /\ rw.ids \in Seq(Watches)
  BY <1>2 DEF RowState
<1> QED
  BY <1>3 DEF rw, Paired, Over

LEMMA IdleFormed == Idle \in RequestState /\ Formed(Idle) /\ NoRow \in RowState
<1>1. NoWatch \in [URLs -> Watches \cup {None}]
  BY DEF NoWatch
<1>2. Idle \in RequestState
  BY <1>1 DEF Idle, RequestState
<1>3. NoRow \in RowState
  BY DEF NoRow, RowState
<1> QED
  BY <1>2, <1>3 DEF Formed

LEMMA StepFormed ==
    ASSUME TypeOK, Shapes, NEW r \in Requests, NEW q, Formed(q), Step(r, q)
    PROVE  /\ request' \in [Requests -> RequestState]
           /\ request'[r] = q /\ \A p \in Requests : p # r => request'[p] = request[p]
           /\ \A p \in Requests : Formed(request'[p])
<1>1. request' = [request EXCEPT ![r] = q] /\ q \in RequestState
  BY DEF Step, Formed
<1>2. request' \in [Requests -> RequestState]
  BY <1>1 DEF TypeOK
<1>3. request'[r] = q /\ \A p \in Requests : p # r => request'[p] = request[p]
  BY <1>1 DEF TypeOK
<1> QED
  BY <1>2, <1>3 DEF Shapes

\* A request at a stage is one of those that the handlers begin.
LEMMA AtStage ==
    ASSUME Shapes, NEW r \in Requests, request[r].pc # "idle"
    PROVE  request[r] \in RequestState /\ Shaped(request[r]) /\ request[r].source \in Sources
<1>1. Formed(request[r])
  BY DEF Shapes
<1>2. Idle.pc = "idle"
  BY DEF Idle
<1> QED
  BY <1>1, <1>2 DEF Formed, Shaped

\* What is common to the steps that leave rows and instances alone.
LEMMA HistoryType ==
    ASSUME TypeOK, NEW s \in Sources, Tear(s) \/ Flaw(s) \/ Fine
    PROVE  /\ torn' \subseteq flawed' /\ flawed' \subseteq Sources
           /\ torn \subseteq torn' /\ flawed \subseteq flawed'
           /\ \A t \in Sources : t # s => (t \in torn' <=> t \in torn) /\ (t \in flawed' <=> t \in flawed)
BY DEF TypeOK, Tear, Flaw, Fine, history

\* A step of a request that leaves the rows and the instances alone.
LEMMA RequestStep ==
    ASSUME TypeOK, Shapes, NEW r \in Requests, NEW q, Formed(q), Step(r, q),
           NEW s \in Sources, Tear(s) \/ Flaw(s) \/ Fine,
           UNCHANGED <<row, instance>>, watch' \subseteq WatchState, made' \in 0..MaxWatch
    PROVE  TypeOK' /\ Shapes'
<1>1. request' \in [Requests -> RequestState] /\ \A p \in Requests : Formed(request'[p])
  BY StepFormed
<1>2. torn' \subseteq flawed' /\ flawed' \subseteq Sources
  BY HistoryType
<1>3. TypeOK'
  BY <1>1, <1>2 DEF TypeOK
<1>4. Shapes'
  BY <1>1 DEF Shapes, Kept
<1> QED
  BY <1>3, <1>4

LEMMA BegunHistory ==
    ASSUME NEW s, NEW urls, NEW web, Begun(s, urls, web)
    PROVE  Tear(s) \/ Flaw(s) \/ Fine
BY DEF Begun

-----------------------------------------------------------------------------
(***************************************************************************)
(* What the steps make of a request.                                       *)
(***************************************************************************)

Creation(s, urls) == [Idle EXCEPT !.op = "create", !.pc = "call", !.source = s, !.web = TRUE,
                                  !.urls = urls, !.make = urls]

Change(s, urls, web) == [Idle EXCEPT !.op = "update", !.pc = IF web THEN "read" ELSE "write",
                                     !.source = s, !.web = web, !.urls = urls]

Deletion(s) == [Idle EXCEPT !.op = "delete", !.pc = IF row[s].web THEN "call" ELSE "write",
                            !.source = s, !.drop = IF row[s].web THEN row[s].ids ELSE <<>>]

Reconciled(q) == [q EXCEPT !.pc = "call", !.drop = Dropped(row[q.source], q.urls), !.make = q.urls,
                           !.of = [u \in URLs |-> WatchOf(row[q.source], u)]]

Dropping(q) == [q EXCEPT !.drop = Tail(q.drop)]

Skipping(q) == [q EXCEPT !.make = Tail(q.make)]

Making(q) == [Skipping(q) EXCEPT !.ids = Append(@, made + 1), !.of[Head(q.make)] = made + 1]

Ordered(q) == [q EXCEPT !.pc = "track", !.ids = Listed(q.urls, q.of)]

To(q, pc) == [q EXCEPT !.pc = pc]

LEMMA CreationFields ==
    ASSUME NEW s \in Sources, NEW urls \in UrlLists
    PROVE  LET p == Creation(s, urls) IN
           /\ Formed(p)
           /\ p.op = "create" /\ p.pc = "call" /\ p.source = s /\ p.web
           /\ p.urls = urls /\ p.drop = <<>> /\ p.make = urls /\ p.ids = <<>> /\ p.of = NoWatch
<1> DEFINE p == Creation(s, urls)
<1>1. urls \in Seq(URLs)
  BY UrlsAssumption
<1>2. /\ p \in RequestState /\ p.op = "create" /\ p.pc = "call" /\ p.source = s /\ p.web
      /\ p.urls = urls /\ p.drop = <<>> /\ p.make = urls /\ p.ids = <<>> /\ p.of = NoWatch
  BY <1>1, IdleFormed DEF RequestState, Idle, Creation
<1> HIDE DEF p
<1>3. Formed(p)
  BY <1>2 DEF Formed, Shaped, Stages
<1> QED
  BY <1>2, <1>3 DEF p

LEMMA ChangeFields ==
    ASSUME NEW s \in Sources, NEW urls \in UrlLists, NEW web \in BOOLEAN
    PROVE  LET p == Change(s, urls, web) IN
           /\ Formed(p)
           /\ p.op = "update" /\ p.pc = (IF web THEN "read" ELSE "write") /\ p.source = s /\ p.web = web
           /\ p.urls = urls /\ p.drop = <<>> /\ p.make = <<>> /\ p.ids = <<>> /\ p.of = NoWatch
<1> DEFINE p == Change(s, urls, web)
<1>1. urls \in Seq(URLs)
  BY UrlsAssumption
<1>2. /\ p \in RequestState /\ p.op = "update" /\ p.pc = (IF web THEN "read" ELSE "write")
      /\ p.source = s /\ p.web = web
      /\ p.urls = urls /\ p.drop = <<>> /\ p.make = <<>> /\ p.ids = <<>> /\ p.of = NoWatch
  BY <1>1, IdleFormed DEF RequestState, Idle, Change
<1> HIDE DEF p
<1>3. Formed(p)
  BY <1>2, RangeOfEmpty DEF Formed, Shaped, Stages
<1> QED
  BY <1>2, <1>3 DEF p

LEMMA DeletionFields ==
    ASSUME TypeOK, NEW s \in Sources
    PROVE  LET p == Deletion(s) IN
           /\ Formed(p)
           /\ p.op = "delete" /\ p.pc = (IF row[s].web THEN "call" ELSE "write") /\ p.source = s
           /\ p.urls = <<>> /\ p.drop = (IF row[s].web THEN row[s].ids ELSE <<>>)
           /\ p.make = <<>> /\ p.ids = <<>> /\ p.of = NoWatch
<1> DEFINE p == Deletion(s)
<1>1. row[s].ids \in Seq(Watches)
  BY RowFields DEF TypeOK
<1>2. /\ p \in RequestState /\ p.op = "delete" /\ p.pc = (IF row[s].web THEN "call" ELSE "write")
      /\ p.source = s /\ p.urls = <<>> /\ p.drop = (IF row[s].web THEN row[s].ids ELSE <<>>)
      /\ p.make = <<>> /\ p.ids = <<>> /\ p.of = NoWatch
  BY <1>1, IdleFormed DEF RequestState, Idle, Deletion
<1> HIDE DEF p
<1>3. Formed(p)
  BY <1>2, RangeOfEmpty DEF Formed, Shaped, Stages
<1> QED
  BY <1>2, <1>3 DEF p

LEMMA ReconciledFields ==
    ASSUME TypeOK, NEW q \in RequestState, Shaped(q), q.pc = "read"
    PROVE  LET p == Reconciled(q) IN
           /\ Formed(p)
           /\ p.op = "update" /\ p.pc = "call" /\ p.source = q.source /\ p.web
           /\ p.urls = q.urls /\ p.drop = Dropped(row[q.source], q.urls) /\ p.make = q.urls
           /\ p.ids = <<>> /\ p.of = [u \in URLs |-> WatchOf(row[q.source], u)]
<1> DEFINE old == row[q.source]
           drop == Dropped(old, q.urls)
           of == [u \in URLs |-> WatchOf(old, u)]
           p == Reconciled(q)
<1>1. q.op = "update" /\ q.web /\ q.ids = <<>> /\ q.source \in Sources
  BY RequestFields DEF Shaped, Stages
<1>2. Paired(old)
  BY <1>1, RowFields DEF TypeOK
<1>3. drop \in Seq(Watches) /\ of \in [URLs -> Watches \cup {None}]
  BY <1>2, DroppedRange, WatchOfType DEF Over
<1>4. p = [q EXCEPT !.pc = "call", !.drop = drop, !.make = q.urls, !.of = of]
  BY DEF Reconciled
<1> HIDE DEF old, drop, of, p
<1>5. /\ p \in RequestState /\ p.op = "update" /\ p.pc = "call" /\ p.source = q.source /\ p.web
      /\ p.urls = q.urls /\ p.drop = drop /\ p.make = q.urls /\ p.ids = <<>> /\ p.of = of
  BY <1>1, <1>3, <1>4 DEF RequestState
<1>6. Formed(p)
  BY <1>1, <1>5 DEF Formed, Shaped, Stages
<1> QED
  BY <1>5, <1>6 DEF p, drop, of, old

LEMMA DroppingFields ==
    ASSUME NEW q \in RequestState, Shaped(q), q.pc = "call", q.drop # <<>>
    PROVE  LET p == Dropping(q) IN
           /\ Formed(p)
           /\ p.op = q.op /\ p.pc = "call" /\ p.source = q.source /\ p.web = q.web
           /\ p.urls = q.urls /\ p.drop = Tail(q.drop) /\ p.make = q.make /\ p.ids = q.ids /\ p.of = q.of
<1> DEFINE p == Dropping(q)
<1>1. Tail(q.drop) \in Seq(Watches)
  BY RequestFields
<1>2. /\ p \in RequestState /\ p.op = q.op /\ p.pc = "call" /\ p.source = q.source /\ p.web = q.web
      /\ p.urls = q.urls /\ p.drop = Tail(q.drop) /\ p.make = q.make /\ p.ids = q.ids /\ p.of = q.of
  BY <1>1 DEF RequestState, Dropping
<1> HIDE DEF p
<1>3. Formed(p)
  BY <1>2 DEF Formed, Shaped, Stages
<1> QED
  BY <1>2, <1>3 DEF p

LEMMA SkippingFields ==
    ASSUME NEW q \in RequestState, Shaped(q), q.pc = "call", q.drop = <<>>, q.make # <<>>
    PROVE  LET p == Skipping(q) IN
           /\ p \in RequestState /\ Formed(p)
           /\ p.op = q.op /\ p.pc = "call" /\ p.source = q.source /\ p.web = q.web
           /\ p.urls = q.urls /\ p.drop = <<>> /\ p.make = Tail(q.make) /\ p.ids = q.ids /\ p.of = q.of
<1> DEFINE p == Skipping(q)
<1>1. Tail(q.make) \in Seq(URLs) /\ Range(Tail(q.make)) \subseteq Range(q.make)
  BY RequestFields, RangeOfTail DEF Over
<1>2. /\ p \in RequestState /\ p.op = q.op /\ p.pc = "call" /\ p.source = q.source /\ p.web = q.web
      /\ p.urls = q.urls /\ p.drop = <<>> /\ p.make = Tail(q.make) /\ p.ids = q.ids /\ p.of = q.of
  BY <1>1 DEF RequestState, Skipping
<1> HIDE DEF p
<1>3. Formed(p)
  BY <1>1, <1>2 DEF Formed, Shaped, Stages
<1> QED
  BY <1>2, <1>3 DEF p

LEMMA MakingFields ==
    ASSUME TypeOK, NEW q \in RequestState, Shaped(q), q.pc = "call", q.drop = <<>>, q.make # <<>>,
           made < MaxWatch
    PROVE  LET p == Making(q) IN
           /\ made \in Nat /\ made + 1 \in Watches /\ made + 1 \in 0..MaxWatch /\ Head(q.make) \in URLs
           /\ Formed(p)
           /\ p.op = q.op /\ p.pc = "call" /\ p.source = q.source /\ p.web = q.web
           /\ p.urls = q.urls /\ p.drop = <<>> /\ p.make = Tail(q.make)
           /\ p.ids = Append(q.ids, made + 1) /\ p.of = [q.of EXCEPT ![Head(q.make)] = made + 1]
<1> DEFINE rest == Skipping(q)
           u == Head(q.make)
           p == Making(q)
<1>1. made \in Nat /\ made + 1 \in Watches /\ made + 1 \in 0..MaxWatch
  BY UrlsAssumption DEF TypeOK, Watches
<1>2. /\ rest \in RequestState /\ Formed(rest)
      /\ rest.op = q.op /\ rest.pc = "call" /\ rest.source = q.source /\ rest.web = q.web
      /\ rest.urls = q.urls /\ rest.drop = <<>> /\ rest.make = Tail(q.make)
      /\ rest.ids = q.ids /\ rest.of = q.of
  BY SkippingFields
<1>3. u \in URLs /\ Range(Tail(q.make)) \subseteq Range(q.make)
  BY RequestFields, RangeOfTail DEF Over
<1>4. p = [rest EXCEPT !.ids = Append(@, made + 1), !.of[u] = made + 1]
  BY DEF Making
<1>5. q.ids \in Seq(Watches) /\ q.of \in [URLs -> Watches \cup {None}]
  BY RequestFields
<1> HIDE DEF rest, u, p
<1> DEFINE ids == Append(q.ids, made + 1)
           of == [q.of EXCEPT ![u] = made + 1]
<1>6. ids \in Seq(Watches) /\ of \in [URLs -> Watches \cup {None}]
  BY <1>1, <1>3, <1>5
<1>7. p = [rest EXCEPT !.ids = ids, !.of = of]
  BY <1>2, <1>4 DEF RequestState
<1> HIDE DEF ids, of
<1>8. /\ p \in RequestState /\ p.op = q.op /\ p.pc = "call" /\ p.source = q.source /\ p.web = q.web
      /\ p.urls = q.urls /\ p.drop = <<>> /\ p.make = Tail(q.make) /\ p.ids = ids /\ p.of = of
  BY <1>2, <1>6, <1>7 DEF RequestState
<1>9. Formed(p)
  BY <1>3, <1>8 DEF Formed, Shaped, Stages
<1> QED
  BY <1>1, <1>3, <1>8, <1>9 DEF p, u, ids, of

LEMMA OrderedFields ==
    ASSUME NEW q \in RequestState, Shaped(q), q.op = "update", q.pc = "call", q.drop = <<>>, q.make = <<>>
    PROVE  LET p == Ordered(q) IN
           /\ Formed(p)
           /\ p.op = q.op /\ p.pc = "track" /\ p.source = q.source /\ p.web = q.web
           /\ p.urls = q.urls /\ p.drop = <<>> /\ p.make = <<>> /\ p.ids = Listed(q.urls, q.of) /\ p.of = q.of
<1> DEFINE ids == Listed(q.urls, q.of)
           p == Ordered(q)
<1>1. ids \in Seq(Watches)
  BY RequestFields, ListedRange DEF Over
<1>2. p = [q EXCEPT !.pc = "track", !.ids = ids]
  BY DEF Ordered
<1> HIDE DEF ids, p
<1>3. /\ p \in RequestState /\ p.op = q.op /\ p.pc = "track" /\ p.source = q.source /\ p.web = q.web
      /\ p.urls = q.urls /\ p.drop = <<>> /\ p.make = <<>> /\ p.ids = ids /\ p.of = q.of
  BY <1>1, <1>2 DEF RequestState
<1>4. Formed(p)
  BY <1>3, RangeOfEmpty DEF Formed, Shaped, Stages
<1> QED
  BY <1>3, <1>4 DEF p, ids

\* A request that goes on has nothing left to drop or to make.
LEMMA ToFields ==
    ASSUME NEW q \in RequestState, Shaped(q), q.drop = <<>>, q.make = <<>>,
           NEW pc \in {"write", "track"}, <<q.op, pc>> \in Stages, q.op = "update" => q.web
    PROVE  LET p == To(q, pc) IN
           /\ Formed(p)
           /\ p.op = q.op /\ p.pc = pc /\ p.source = q.source /\ p.web = q.web
           /\ p.urls = q.urls /\ p.drop = <<>> /\ p.make = <<>> /\ p.ids = q.ids /\ p.of = q.of
<1> DEFINE p == To(q, pc)
<1>1. /\ p \in RequestState /\ p.op = q.op /\ p.pc = pc /\ p.source = q.source /\ p.web = q.web
      /\ p.urls = q.urls /\ p.drop = <<>> /\ p.make = <<>> /\ p.ids = q.ids /\ p.of = q.of
  BY DEF RequestState, To
<1> HIDE DEF p
<1>2. Formed(p)
  BY <1>1, RangeOfEmpty DEF Formed, Shaped
<1> QED
  BY <1>1, <1>2 DEF p

-----------------------------------------------------------------------------
(***************************************************************************)
(* Types and shapes are kept.                                              *)
(***************************************************************************)

LEMMA CreateTypes ==
    ASSUME TypeOK, Shapes, NEW r \in Requests, NEW s \in Sources, NEW urls \in UrlLists,
           NEW web \in BOOLEAN, Create(r, s, urls, web)
    PROVE  TypeOK' /\ Shapes'
<1> DEFINE rw == [life |-> "kept", web |-> web, urls |-> urls, ids |-> <<>>]
<1>1. PICK p : Formed(p) /\ Step(r, p)
  BY CreationFields, IdleFormed DEF Create, Creation
<1>2. request' \in [Requests -> RequestState] /\ \A t \in Requests : Formed(request'[t])
  BY <1>1, StepFormed
<1>3. torn' \subseteq flawed' /\ flawed' \subseteq Sources
  BY BegunHistory, HistoryType DEF Create
<1>4. rw \in RowState /\ rw.life = "kept"
  BY UrlsAssumption DEF RowState
<1>5. row' = [row EXCEPT ![s] = rw] /\ UNCHANGED <<instance, watch, made>>
  BY DEF Create
<1> HIDE DEF rw
<1>6. row' \in [Sources -> RowState]
  BY <1>4, <1>5 DEF TypeOK
<1>7. TypeOK'
  BY <1>2, <1>3, <1>5, <1>6 DEF TypeOK
<1>8. \A t \in Sources : ~Kept(t)' => row'[t] = [NoRow EXCEPT !.life = row'[t].life]
  BY <1>4, <1>5 DEF Shapes, Kept, TypeOK
<1> QED
  BY <1>2, <1>7, <1>8 DEF Shapes

LEMMA UpdateTypes ==
    ASSUME TypeOK, Shapes, NEW r \in Requests, NEW s \in Sources, NEW urls \in UrlLists,
           NEW web \in BOOLEAN, Update(r, s, urls, web)
    PROVE  TypeOK' /\ Shapes'
<1>1. /\ Step(r, Change(s, urls, web)) /\ (Tear(s) \/ Flaw(s) \/ Fine)
      /\ UNCHANGED <<row, instance, watch, made>>
  BY BegunHistory DEF Update, Change
<1> QED
  BY <1>1, ChangeFields, RequestStep DEF TypeOK

LEMMA DeleteTypes ==
    ASSUME TypeOK, Shapes, NEW r \in Requests, NEW s \in Sources, Delete(r, s)
    PROVE  TypeOK' /\ Shapes'
<1>1. /\ Step(r, Deletion(s)) /\ (Tear(s) \/ Flaw(s) \/ Fine)
      /\ UNCHANGED <<row, instance, watch, made>>
  BY DEF Delete, Deletion
<1> QED
  BY <1>1, DeletionFields, RequestStep DEF TypeOK

LEMMA ReadOldTypes ==
    ASSUME TypeOK, Shapes, NEW r \in Requests, ReadOld(r)
    PROVE  TypeOK' /\ Shapes'
<1> DEFINE q == request[r]
<1>1. /\ q.pc = "read" /\ UNCHANGED <<row, instance, watch, made>>
      /\ Step(r, Reconciled(q)) \/ Step(r, To(q, "write"))
      /\ Tear(q.source) \/ Fine
  BY DEF ReadOld, Reconciled, To
<1>2. q \in RequestState /\ Shaped(q) /\ q.source \in Sources
  BY <1>1, AtStage
<1>3. Formed(Reconciled(q))
  BY <1>1, <1>2, ReconciledFields
<1>4. Formed(To(q, "write"))
  <2>1. q.op = "update" /\ q.web /\ q.drop = <<>> /\ q.make = <<>> /\ <<q.op, "write">> \in Stages
    BY <1>1, <1>2, RequestFields DEF Shaped, Stages
  <2> QED
    BY <1>2, <2>1, ToFields
<1> QED
  BY <1>1, <1>2, <1>3, <1>4, RequestStep DEF TypeOK

LEMMA DropWatchTypes ==
    ASSUME TypeOK, Shapes, NEW r \in Requests, DropWatch(r)
    PROVE  TypeOK' /\ Shapes'
<1> DEFINE q == request[r]
<1>1. /\ q.pc = "call" /\ q.drop # <<>> /\ Step(r, Dropping(q)) /\ UNCHANGED <<row, instance, made>>
      /\ watch' \subseteq watch /\ (Fine \/ Flaw(q.source))
  BY DEF DropWatch, Dropping
<1>2. q \in RequestState /\ Shaped(q) /\ q.source \in Sources
  BY <1>1, AtStage
<1>3. Formed(Dropping(q))
  BY <1>1, <1>2, DroppingFields
<1> QED
  BY <1>1, <1>2, <1>3, RequestStep DEF TypeOK

LEMMA MakeWatchTypes ==
    ASSUME TypeOK, Shapes, NEW r \in Requests, MakeWatch(r)
    PROVE  TypeOK' /\ Shapes'
<1> DEFINE q == request[r]
           w == [id |-> made + 1, url |-> Head(q.make), source |-> q.source]
<1>1. /\ q.pc = "call" /\ q.drop = <<>> /\ q.make # <<>> /\ UNCHANGED <<row, instance>>
      /\ Fine \/ Flaw(q.source)
      /\ \/ Step(r, Skipping(q)) /\ UNCHANGED <<watch, made>>
         \/ made < MaxWatch /\ made' = made + 1 /\ watch' = watch \cup {w} /\ Step(r, Making(q))
  BY DEF MakeWatch, Skipping, Making
<1>2. q \in RequestState /\ Shaped(q) /\ q.source \in Sources
  BY <1>1, AtStage
<1>3. Formed(Skipping(q))
  BY <1>1, <1>2, SkippingFields
<1>4. ASSUME made < MaxWatch
      PROVE  made + 1 \in 0..MaxWatch /\ w \in WatchState /\ Formed(Making(q))
  <2>1. made + 1 \in Watches /\ made + 1 \in 0..MaxWatch /\ Head(q.make) \in URLs /\ Formed(Making(q))
    BY <1>1, <1>2, <1>4, MakingFields
  <2> QED
    BY <1>2, <2>1 DEF WatchState
<1> HIDE DEF w
<1> QED
  BY <1>1, <1>2, <1>3, <1>4, RequestStep DEF TypeOK

LEMMA CallsDoneStep ==
    ASSUME Shapes, NEW r \in Requests, CallsDone(r)
    PROVE  LET q == request[r] IN
           /\ q \in RequestState /\ Shaped(q) /\ q.source \in Sources
           /\ q.pc = "call" /\ q.drop = <<>> /\ q.make = <<>>
           /\ UNCHANGED <<row, instance, watch, made>> /\ Fine
           /\ \/ q.op = "create" /\ q.ids = <<>> /\ Step(r, Idle)
              \/ q.op = "create" /\ q.ids # <<>> /\ Step(r, To(q, "write")) /\ Formed(To(q, "write"))
              \/ q.op = "update" /\ Step(r, Ordered(q)) /\ Formed(Ordered(q))
              \/ q.op = "delete" /\ Step(r, To(q, "track")) /\ Formed(To(q, "track"))
<1> DEFINE q == request[r]
<1>1. q.pc = "call" /\ q.drop = <<>> /\ q.make = <<>> /\ UNCHANGED <<row, instance, watch, made>> /\ Fine
  BY DEF CallsDone, Fine
<1>2. q \in RequestState /\ Shaped(q) /\ q.source \in Sources
  BY <1>1, AtStage
<1>3. q.op \in {"create", "update", "delete"}
  BY <1>2 DEF Shaped, Stages
<1>4. CASE q.op = "create"
  <2>1. Step(r, IF q.ids = <<>> THEN Idle ELSE To(q, "write"))
    BY <1>4 DEF CallsDone, To
  <2>2. Formed(To(q, "write"))
    BY <1>1, <1>2, <1>4, ToFields DEF Stages
  <2> HIDE DEF q
  <2> QED
    BY <1>1, <1>2, <1>4, <2>1, <2>2 DEF q
<1>5. CASE q.op = "update"
  <2>1. Step(r, Ordered(q))
    BY <1>5 DEF CallsDone, Ordered
  <2>2. Formed(Ordered(q))
    BY <1>1, <1>2, <1>5, OrderedFields
  <2> QED
    BY <1>1, <1>2, <1>5, <2>1, <2>2
<1>6. CASE q.op = "delete"
  <2>1. Step(r, To(q, "track"))
    BY <1>6 DEF CallsDone, To
  <2>2. Formed(To(q, "track"))
    BY <1>1, <1>2, <1>6, ToFields DEF Stages
  <2> QED
    BY <1>1, <1>2, <1>6, <2>1, <2>2
<1> QED
  BY <1>3, <1>4, <1>5, <1>6

LEMMA CallsDoneTypes ==
    ASSUME TypeOK, Shapes, NEW r \in Requests, CallsDone(r)
    PROVE  TypeOK' /\ Shapes'
<1>1. \E p : Formed(p) /\ Step(r, p)
  BY CallsDoneStep, IdleFormed
<1>2. request[r].source \in Sources /\ UNCHANGED <<row, instance, watch, made>> /\ Fine
  BY CallsDoneStep
<1> QED
  BY <1>1, <1>2, RequestStep DEF TypeOK

LEMMA TrackStep ==
    ASSUME Shapes, NEW r \in Requests, Track(r)
    PROVE  LET q == request[r] IN
           /\ q \in RequestState /\ Shaped(q) /\ q.source \in Sources
           /\ q.pc = "track" /\ q.drop = <<>> /\ q.make = <<>>
           /\ UNCHANGED <<row, watch, made>> /\ (Fine \/ Tear(q.source))
           /\ \/ q.op = "create" /\ Step(r, Idle)
              \/ q.op \in {"update", "delete"} /\ Step(r, To(q, "write")) /\ Formed(To(q, "write"))
<1> DEFINE q == request[r]
<1>1. /\ q.pc = "track" /\ UNCHANGED <<row, watch, made>> /\ (Fine \/ Tear(q.source))
      /\ Step(r, IF q.op = "create" THEN Idle ELSE To(q, "write"))
  BY DEF Track, To
<1>2. q \in RequestState /\ Shaped(q) /\ q.source \in Sources
  BY <1>1, AtStage
<1>3. /\ q.op \in {"create", "update", "delete"} /\ (q.op = "update" => q.web)
      /\ q.drop = <<>> /\ q.make = <<>>
  BY <1>1, <1>2, RequestFields DEF Shaped, Stages
<1>4. q.op # "create" => Formed(To(q, "write"))
  BY <1>2, <1>3, ToFields DEF Stages
<1> QED
  BY <1>1, <1>2, <1>3, <1>4

LEMMA TrackTypes ==
    ASSUME TypeOK, Shapes, NEW r \in Requests, Track(r)
    PROVE  TypeOK' /\ Shapes'
<1> DEFINE q == request[r]
<1>1. /\ q \in RequestState /\ q.source \in Sources /\ q.op \in {"create", "update", "delete"}
      /\ UNCHANGED <<row, watch, made>> /\ (Fine \/ Tear(q.source))
      /\ \E p : Formed(p) /\ Step(r, p)
  BY TrackStep, IdleFormed
<1>2. instance' \in [Sources -> Seq(Watches) \cup {None}]
  <2>1. q.ids \in Seq(Watches)
    BY <1>1, RequestFields
  <2> DEFINE old == instance[q.source]
             inst == CASE q.op = "create" -> IF row[q.source].life # "gone" THEN q.ids ELSE old
                       [] q.op = "update" -> IF old = None THEN None ELSE q.ids
                       [] q.op = "delete" -> None
  <2>2. UNCHANGED instance \/ instance' = [instance EXCEPT ![q.source] = inst]
    BY DEF Track
  <2>3. old \in Seq(Watches) \cup {None}
    BY <1>1 DEF TypeOK
  <2>4. inst \in Seq(Watches) \cup {None}
    <3>1. CASE q.op = "create"
      BY <2>1, <2>3, <3>1
    <3>2. CASE q.op = "update"
      BY <2>1, <3>2
    <3>3. CASE q.op = "delete"
      BY <3>3
    <3> QED
      BY <1>1, <3>1, <3>2, <3>3
  <2> HIDE DEF inst
  <2> QED
    BY <2>2, <2>4 DEF TypeOK
<1>3. request' \in [Requests -> RequestState] /\ \A p \in Requests : Formed(request'[p])
  BY <1>1, StepFormed
<1>4. torn' \subseteq flawed' /\ flawed' \subseteq Sources
  BY <1>1, HistoryType
<1>5. TypeOK'
  BY <1>1, <1>2, <1>3, <1>4 DEF TypeOK
<1> QED
  BY <1>1, <1>3, <1>5 DEF Shapes, Kept

\* The row that a request leaves.
Left(q) == IF q.op = "delete" THEN [NoRow EXCEPT !.life = "deleted"]
           ELSE IF Kept(q.source) THEN Written(q) ELSE row[q.source]

LEMMA WriteStep ==
    ASSUME Shapes, NEW r \in Requests, Write(r)
    PROVE  LET q == request[r] IN
           /\ q \in RequestState /\ Shaped(q) /\ q.source \in Sources
           /\ q.pc = "write" /\ q.drop = <<>> /\ q.make = <<>>
           /\ UNCHANGED <<instance, watch, made>>
           /\ \/ row' = [row EXCEPT ![q.source] = Left(q)] /\ Fine
              \/ row' = row /\ Tear(q.source)
           /\ \/ q.op = "create" /\ Step(r, To(q, "track")) /\ Formed(To(q, "track"))
              \/ q.op \in {"update", "delete"} /\ Step(r, Idle)
<1> DEFINE q == request[r]
<1>1. /\ q.pc = "write" /\ UNCHANGED <<instance, watch, made>>
      /\ \/ row' = [row EXCEPT ![q.source] = Left(q)] /\ Fine
         \/ row' = row /\ Tear(q.source)
      /\ Step(r, IF q.op = "create" THEN To(q, "track") ELSE Idle)
  BY DEF Write, To, Left
<1>2. q \in RequestState /\ Shaped(q) /\ q.source \in Sources
  BY <1>1, AtStage
<1>3. q.op \in {"create", "update", "delete"} /\ q.drop = <<>> /\ q.make = <<>>
  BY <1>1, <1>2, RequestFields DEF Shaped, Stages
<1>4. q.op = "create" => Formed(To(q, "track"))
  BY <1>2, <1>3, ToFields DEF Stages
<1> QED
  BY <1>1, <1>2, <1>3, <1>4

LEMMA LeftFields ==
    ASSUME TypeOK, Shapes, NEW q \in RequestState, Shaped(q)
    PROVE  LET rw == Left(q) IN
           /\ rw \in RowState
           /\ rw.life # "kept" => rw = [NoRow EXCEPT !.life = rw.life]
           /\ q.op = "delete" => rw.life = "deleted" /\ ~rw.web /\ rw.urls = <<>> /\ rw.ids = <<>>
           /\ q.op # "delete" /\ Kept(q.source) => rw = Written(q)
           /\ q.op # "delete" /\ ~Kept(q.source) => rw = row[q.source]
<1>1. CASE q.op = "delete"
  <2> DEFINE n == [NoRow EXCEPT !.life = "deleted"]
  <2>1. n \in RowState /\ n.life = "deleted"
    BY IdleFormed DEF RowState
  <2>2. ~n.web /\ n.urls = <<>> /\ n.ids = <<>>
    BY DEF NoRow
  <2>3. Left(q) = n
    BY <1>1 DEF Left
  <2>4. n = [NoRow EXCEPT !.life = n.life]
    BY <2>1
  <2> HIDE DEF n
  <2> QED
    BY <1>1, <2>1, <2>2, <2>3, <2>4
<1>2. CASE q.op # "delete" /\ Kept(q.source)
  <2>1. Written(q) \in RowState /\ Written(q).life = "kept"
    BY RequestFields DEF Written, RowState
  <2>2. Left(q) = Written(q)
    BY <1>2 DEF Left
  <2> QED
    BY <1>2, <2>1, <2>2
<1>3. CASE q.op # "delete" /\ ~Kept(q.source)
  <2>1. Left(q) = row[q.source] /\ row[q.source] \in RowState
    BY <1>3 DEF TypeOK, Left, Shaped
  <2>2. row[q.source] = [NoRow EXCEPT !.life = row[q.source].life]
    BY <1>3 DEF Shapes, Shaped
  <2> QED
    BY <1>3, <2>1, <2>2
<1> QED
  BY <1>1, <1>2, <1>3

LEMMA WriteTypes ==
    ASSUME TypeOK, Shapes, NEW r \in Requests, Write(r)
    PROVE  TypeOK' /\ Shapes'
<1> DEFINE q == request[r]
           rw == Left(q)
<1>1. /\ q \in RequestState /\ Shaped(q) /\ q.source \in Sources
      /\ UNCHANGED <<instance, watch, made>> /\ (Fine \/ Tear(q.source))
      /\ row' = [row EXCEPT ![q.source] = rw] \/ row' = row
      /\ \E p : Formed(p) /\ Step(r, p)
  BY WriteStep, IdleFormed
<1>2. rw \in RowState /\ (rw.life # "kept" => rw = [NoRow EXCEPT !.life = rw.life])
  BY <1>1, LeftFields
<1> HIDE DEF q, rw
<1>3. request' \in [Requests -> RequestState] /\ \A p \in Requests : Formed(request'[p])
  BY <1>1, StepFormed
<1>4. torn' \subseteq flawed' /\ flawed' \subseteq Sources
  BY <1>1, HistoryType
<1>5. row' \in [Sources -> RowState]
  BY <1>1, <1>2 DEF TypeOK
<1>6. TypeOK'
  BY <1>1, <1>3, <1>4, <1>5 DEF TypeOK
<1>7. \A t \in Sources : ~Kept(t)' => row'[t] = [NoRow EXCEPT !.life = row'[t].life]
  BY <1>1, <1>2 DEF Shapes, Kept, TypeOK
<1> QED
  BY <1>3, <1>6, <1>7 DEF Shapes

LEMMA CrashTypes ==
    ASSUME TypeOK, Shapes, Crash
    PROVE  TypeOK' /\ Shapes'
<1>1. request' = [r \in Requests |-> Idle] /\ UNCHANGED <<row, instance, watch, made>>
  BY DEF Crash
<1>2. request' \in [Requests -> RequestState] /\ \A p \in Requests : Formed(request'[p])
  BY <1>1, IdleFormed
<1>3. torn' \subseteq flawed' /\ flawed' \subseteq Sources
  BY DEF Crash, TypeOK
<1>4. TypeOK'
  BY <1>1, <1>2, <1>3 DEF TypeOK
<1> QED
  BY <1>1, <1>2, <1>4 DEF Shapes, Kept

LEMMA DeleteProjectTypes ==
    ASSUME TypeOK, Shapes, DeleteProject
    PROVE  TypeOK' /\ Shapes'
<1> DEFINE gone == [NoRow EXCEPT !.life = "gone"]
<1>1. /\ row' = [s \in Sources |-> IF row[s].life = "unused" THEN NoRow ELSE gone]
      /\ instance' = [s \in Sources |-> None] /\ UNCHANGED <<watch, made, request>>
  BY DEF DeleteProject
<1>2. gone \in RowState /\ gone.life = "gone" /\ gone = [NoRow EXCEPT !.life = gone.life]
  BY IdleFormed DEF RowState
<1>3. NoRow \in RowState /\ NoRow.life = "unused" /\ NoRow = [NoRow EXCEPT !.life = NoRow.life]
  BY IdleFormed DEF NoRow
<1> HIDE DEF gone
<1>4. row' \in [Sources -> RowState] /\ \A s \in Sources : row'[s] = [NoRow EXCEPT !.life = row'[s].life]
  BY <1>1, <1>2, <1>3
<1>5. instance' \in [Sources -> Seq(Watches) \cup {None}]
  BY <1>1
<1>6. torn' \subseteq flawed' /\ flawed' \subseteq Sources
  BY DEF DeleteProject, TypeOK
<1>7. TypeOK'
  BY <1>1, <1>4, <1>5, <1>6 DEF TypeOK
<1> QED
  BY <1>1, <1>4, <1>7 DEF Shapes

-----------------------------------------------------------------------------
(***************************************************************************)
(* Nobody handles the watch of another source.                             *)
(***************************************************************************)

LEMMA HandledIdle == Handled(Idle) = {}
<1>1. Idle.drop = <<>> /\ Idle.ids = <<>> /\ \A u \in URLs : Idle.of[u] = None
  BY DEF Idle, NoWatch
<1> QED
  BY <1>1, RangeOfEmpty DEF Handled

LEMMA MineStays ==
    ASSUME NEW d, NEW s, Mine(d, s), made \in Nat, made' \in Nat, made' >= made,
           \A w \in watch' : w \in watch \/ w.id \notin 1..made
    PROVE  Mine(d, s)'
BY DEF Mine

\* A step of a request may make a watch, which is new.
LEMMA OwnedStep ==
    ASSUME TypeOK, Shapes, Owned, NEW r \in Requests, NEW q, Formed(q), Step(r, q),
           \A s \in Sources : \A d \in Range(row'[s].ids) : Mine(d, s),
           \/ /\ watch' \subseteq watch /\ made' = made
              /\ \A d \in Handled(q) : Mine(d, q.source)
           \/ /\ made < MaxWatch /\ made' = made + 1
              /\ \E w : w.id = made + 1 /\ w.source = q.source /\ watch' = watch \cup {w}
              /\ \A d \in Handled(q) : Mine(d, q.source) \/ d = made + 1
    PROVE  Owned'
<1>1. request'[r] = q /\ \A p \in Requests : p # r => request'[p] = request[p]
  BY StepFormed
<1>2. made \in Nat /\ made' \in Nat /\ made' >= made
  BY UrlsAssumption DEF TypeOK
<1>3. \A w \in watch' : w \in watch \/ (w.id \in 1..made' /\ w.id \notin 1..made)
  BY <1>2
<1>4. \A w \in watch' : w.id \in 1..made'
  BY <1>2, <1>3 DEF Owned
<1>5. \A d, s : Mine(d, s) => Mine(d, s)'
  BY <1>2, <1>3, MineStays
<1>6. \A s \in Sources : \A d \in Range(row'[s].ids) : Mine(d, s)'
  BY <1>5
<1>7. ASSUME NEW p \in Requests, NEW d \in Handled(request'[p])
      PROVE  d \in 1..made' /\ \A w \in watch' : w.id = d => w.source = request'[p].source
  <2>1. CASE Mine(d, request'[p].source)
    BY <1>2, <1>3, <2>1 DEF Mine
  <2>2. CASE p # r
    BY <1>1, <2>1, <2>2 DEF Owned
  <2>3. CASE p = r /\ d = made + 1 /\ made' = made + 1
             /\ \E w : w.id = made + 1 /\ w.source = q.source /\ watch' = watch \cup {w}
    <3>1. \A w \in watch : w.id # made + 1
      BY <1>2 DEF Owned
    <3> QED
      BY <1>1, <1>2, <2>3, <3>1
  <2> QED
    BY <1>1, <2>1, <2>2, <2>3
<1>8. \A p \in Requests : \A d \in Handled(request[p])' : Mine(d, request[p].source)'
  BY <1>7 DEF Handled, Mine
<1> QED
  BY <1>4, <1>6, <1>8 DEF Owned

LEMMA OwnedRequest ==
    ASSUME Owned, NEW r \in Requests, NEW d
    PROVE  /\ d \in Range(request[r].drop) => Mine(d, request[r].source)
           /\ d \in Range(request[r].ids) => Mine(d, request[r].source)
           /\ \A u \in URLs : d = request[r].of[u] /\ d # None => Mine(d, request[r].source)
BY DEF Owned, Handled

\* Steps that leave rows, watches and their number alone, and hand the request
\* nothing that it did not handle.
LEMMA OwnedQuiet ==
    ASSUME TypeOK, Shapes, Owned, NEW r \in Requests, NEW q, Formed(q), Step(r, q),
           UNCHANGED row, watch' \subseteq watch, made' = made,
           \A d \in Handled(q) : Mine(d, q.source)
    PROVE  Owned'
<1>1. \A s \in Sources : \A d \in Range(row'[s].ids) : Mine(d, s)
  BY DEF Owned
<1> QED
  BY <1>1, OwnedStep

LEMMA CreateOwned ==
    ASSUME TypeOK, Shapes, Owned, NEW r \in Requests, NEW s \in Sources, NEW urls \in UrlLists,
           NEW web \in BOOLEAN, Create(r, s, urls, web)
    PROVE  Owned'
<1> DEFINE p == Creation(s, urls)
           rw == [life |-> "kept", web |-> web, urls |-> urls, ids |-> <<>>]
<1>1. Formed(p) /\ Handled(p) = {}
  BY CreationFields, RangeOfEmpty DEF Handled, NoWatch
<1>2. Step(r, p) \/ Step(r, Idle)
  BY DEF Create, Creation
<1>3. row' = [row EXCEPT ![s] = rw] /\ watch' = watch /\ made' = made
  BY DEF Create
<1>4. rw.ids = <<>>
  OBVIOUS
<1> HIDE DEF p, rw
<1>5. row'[s] = rw /\ \A t \in Sources : t # s => row'[t] = row[t]
  BY <1>3 DEF TypeOK
<1>6. \A t \in Sources : \A d \in Range(row'[t].ids) : Mine(d, t)
  BY <1>4, <1>5, RangeOfEmpty DEF Owned
<1>7. PICK q : Formed(q) /\ Handled(q) = {} /\ Step(r, q)
  BY <1>1, <1>2, IdleFormed, HandledIdle
<1> QED
  BY <1>3, <1>6, <1>7, OwnedStep

LEMMA UpdateOwned ==
    ASSUME TypeOK, Shapes, Owned, NEW r \in Requests, NEW s \in Sources, NEW urls \in UrlLists,
           NEW web \in BOOLEAN, Update(r, s, urls, web)
    PROVE  Owned'
<1> DEFINE p == Change(s, urls, web)
<1>1. Formed(p) /\ Handled(p) = {}
  BY ChangeFields, RangeOfEmpty DEF Handled, NoWatch
<1>2. Step(r, p) /\ row' = row /\ watch' = watch /\ made' = made
  BY DEF Update, Change
<1> HIDE DEF p
<1> QED
  BY <1>1, <1>2, OwnedQuiet

LEMMA DeleteOwned ==
    ASSUME TypeOK, Shapes, Owned, NEW r \in Requests, NEW s \in Sources, Delete(r, s)
    PROVE  Owned'
<1> DEFINE p == Deletion(s)
<1>1. /\ Formed(p) /\ p.source = s /\ p.ids = <<>> /\ p.of = NoWatch
      /\ p.drop = row[s].ids \/ p.drop = <<>>
  BY DeletionFields
<1>2. Step(r, p) /\ row' = row /\ watch' = watch /\ made' = made
  BY DEF Delete, Deletion
<1> HIDE DEF p
<1>3. \A d \in Handled(p) : Mine(d, p.source)
  BY <1>1, RangeOfEmpty DEF Handled, NoWatch, Owned
<1> QED
  BY <1>1, <1>2, <1>3, OwnedQuiet

LEMMA ReadOldOwned ==
    ASSUME TypeOK, Shapes, Owned, NEW r \in Requests, ReadOld(r)
    PROVE  Owned'
<1> DEFINE q == request[r]
           s == q.source
           p == Reconciled(q)
           t == To(q, "write")
<1>1. /\ q.pc = "read" /\ UNCHANGED <<row, instance, watch, made>>
      /\ Step(r, p) \/ Step(r, t)
  BY DEF ReadOld, Reconciled, To
<1>2. q \in RequestState /\ Shaped(q) /\ s \in Sources
  BY <1>1, AtStage
<1>3. /\ Formed(p) /\ p.source = s /\ p.ids = <<>>
      /\ p.drop = Dropped(row[s], q.urls) /\ p.of = [u \in URLs |-> WatchOf(row[s], u)]
  BY <1>1, <1>2, ReconciledFields
<1>4. Paired(row[s])
  BY <1>2, RowFields DEF TypeOK
<1>5. \A u : WatchOf(row[s], u) # None => Mine(WatchOf(row[s], u), s)
  BY <1>2, <1>4, WatchOfType DEF Owned
<1>6. \A d \in Range(p.drop) : Mine(d, s)
  BY <1>3, <1>4, <1>5, DroppedRange
<1>7. \A d \in Handled(p) : Mine(d, p.source)
  BY <1>3, <1>5, <1>6, RangeOfEmpty DEF Handled
<1>8. Formed(t) /\ t.source = s /\ t.drop = <<>> /\ t.ids = q.ids /\ t.of = q.of
  <2>1. q.op = "update" /\ q.web /\ q.drop = <<>> /\ q.make = <<>> /\ <<q.op, "write">> \in Stages
    BY <1>1, <1>2, RequestFields DEF Shaped, Stages
  <2> QED
    BY <1>2, <2>1, ToFields
<1>9. \A d \in Handled(t) : Mine(d, t.source)
  BY <1>8, RangeOfEmpty DEF Owned, Handled
<1> HIDE DEF p, t
<1> QED
  BY <1>1, <1>3, <1>7, <1>8, <1>9, OwnedQuiet

LEMMA DropWatchOwned ==
    ASSUME TypeOK, Shapes, Owned, NEW r \in Requests, DropWatch(r)
    PROVE  Owned'
<1> DEFINE q == request[r]
           p == Dropping(q)
<1>1. /\ q.pc = "call" /\ q.drop # <<>> /\ Step(r, p) /\ UNCHANGED <<row, instance, made>>
      /\ watch' \subseteq watch
  BY DEF DropWatch, Dropping
<1>2. q \in RequestState /\ Shaped(q) /\ q.source \in Sources
  BY <1>1, AtStage
<1>3. Formed(p) /\ p.source = q.source /\ p.drop = Tail(q.drop) /\ p.ids = q.ids /\ p.of = q.of
  BY <1>1, <1>2, DroppingFields
<1>4. Range(p.drop) \subseteq Range(q.drop)
  BY <1>1, <1>2, <1>3, RequestFields, RangeOfTail DEF Over
<1> HIDE DEF p
<1>5. \A d \in Handled(p) : Mine(d, p.source)
  BY <1>3, <1>4 DEF Owned, Handled
<1> QED
  BY <1>1, <1>3, <1>5, OwnedQuiet

LEMMA MakeWatchOwned ==
    ASSUME TypeOK, Shapes, Owned, NEW r \in Requests, MakeWatch(r)
    PROVE  Owned'
<1> DEFINE q == request[r]
           w == [id |-> made + 1, url |-> Head(q.make), source |-> q.source]
           p == Skipping(q)
           t == Making(q)
<1>1. /\ q.pc = "call" /\ q.drop = <<>> /\ q.make # <<>> /\ UNCHANGED <<row, instance>>
      /\ \/ Step(r, p) /\ UNCHANGED <<watch, made>>
         \/ made < MaxWatch /\ made' = made + 1 /\ watch' = watch \cup {w} /\ Step(r, t)
  BY DEF MakeWatch, Skipping, Making
<1>2. q \in RequestState /\ Shaped(q) /\ q.source \in Sources
  BY <1>1, AtStage
<1>3. CASE Step(r, p) /\ UNCHANGED <<watch, made>>
  <2>1. Formed(p) /\ p.source = q.source /\ p.drop = <<>> /\ p.ids = q.ids /\ p.of = q.of
    BY <1>1, <1>2, SkippingFields
  <2> HIDE DEF p
  <2>2. \A d \in Handled(p) : Mine(d, p.source)
    BY <2>1, RangeOfEmpty DEF Owned, Handled
  <2> QED
    BY <1>1, <1>3, <2>1, <2>2, OwnedQuiet
<1>4. CASE made < MaxWatch /\ made' = made + 1 /\ watch' = watch \cup {w} /\ Step(r, t)
  <2>1. /\ made + 1 \in Watches
        /\ Formed(t) /\ t.source = q.source /\ t.drop = <<>> /\ t.ids = Append(q.ids, made + 1)
        /\ t.of = [q.of EXCEPT ![Head(q.make)] = made + 1]
    BY <1>1, <1>2, <1>4, MakingFields
  <2>2. Over(q.ids, Watches) /\ q.of \in [URLs -> Watches \cup {None}]
    BY <1>2, RequestFields DEF Over
  <2>3. Range(t.ids) = Range(q.ids) \cup {made + 1}
    BY <2>1, <2>2, RangeOfAppend
  <2>4. \A u \in URLs : t.of[u] = q.of[u] \/ t.of[u] = made + 1
    BY <2>1, <2>2
  <2>5. w.id = made + 1 /\ w.source = q.source
    OBVIOUS
  <2> HIDE DEF t, w
  <2>6. \A d \in Handled(t) : Mine(d, t.source) \/ d = made + 1
    BY <2>1, <2>3, <2>4, RangeOfEmpty DEF Owned, Handled
  <2>7. \A s \in Sources : \A d \in Range(row'[s].ids) : Mine(d, s)
    BY <1>1 DEF Owned
  <2> QED
    BY <1>4, <2>1, <2>5, <2>6, <2>7, OwnedStep
<1> QED
  BY <1>1, <1>3, <1>4

LEMMA CallsDoneOwned ==
    ASSUME TypeOK, Shapes, Owned, NEW r \in Requests, CallsDone(r)
    PROVE  Owned'
<1> DEFINE q == request[r]
<1>1. /\ q \in RequestState /\ Shaped(q) /\ q.source \in Sources
      /\ q.pc = "call" /\ q.drop = <<>> /\ q.make = <<>>
      /\ UNCHANGED <<row, instance, watch, made>>
      /\ \/ Step(r, Idle)
         \/ q.op = "create" /\ Step(r, To(q, "write"))
         \/ q.op = "update" /\ Step(r, Ordered(q))
         \/ q.op = "delete" /\ Step(r, To(q, "track"))
  BY CallsDoneStep
<1>2. \E p : Formed(p) /\ Step(r, p) /\ \A d \in Handled(p) : Mine(d, p.source)
  <2>1. CASE Step(r, Idle)
    BY <2>1, IdleFormed, HandledIdle
  <2>2. ASSUME NEW pc \in {"write", "track"}, <<q.op, pc>> \in Stages, q.op # "update"
        PROVE  Formed(To(q, pc)) /\ \A d \in Handled(To(q, pc)) : Mine(d, To(q, pc).source)
    <3> DEFINE p == To(q, pc)
    <3>1. Formed(p) /\ p.source = q.source /\ p.drop = <<>> /\ p.ids = q.ids /\ p.of = q.of
      BY <1>1, <2>2, ToFields
    <3> HIDE DEF p
    <3>2. \A d \in Handled(p) : Mine(d, p.source)
      BY <3>1, RangeOfEmpty DEF Owned, Handled
    <3> QED
      BY <3>1, <3>2 DEF p
  <2>3. CASE q.op = "create" /\ Step(r, To(q, "write"))
    BY <2>2, <2>3 DEF Stages
  <2>4. CASE q.op = "delete" /\ Step(r, To(q, "track"))
    BY <2>2, <2>4 DEF Stages
  <2>5. CASE q.op = "update" /\ Step(r, Ordered(q))
    <3> DEFINE p == Ordered(q)
    <3>1. Formed(p) /\ p.source = q.source /\ p.drop = <<>> /\ p.ids = Listed(q.urls, q.of) /\ p.of = q.of
      BY <1>1, <2>5, OrderedFields
    <3>2. Over(q.urls, URLs) /\ q.of \in [URLs -> Watches \cup {None}] /\ Range(q.urls) \subseteq URLs
      BY <1>1, RequestFields, RangeOfSeq DEF Over
    <3>3. \A d \in Range(p.ids) : \E u \in URLs : d = q.of[u] /\ q.of[u] # None
      BY <3>1, <3>2, ListedRange
    <3> HIDE DEF p
    <3>4. \A d \in Handled(p) : Mine(d, p.source)
      BY <3>1, <3>3, RangeOfEmpty DEF Owned, Handled
    <3> QED
      BY <2>5, <3>1, <3>4 DEF p
  <2> QED
    BY <1>1, <2>1, <2>3, <2>4, <2>5
<1> QED
  BY <1>1, <1>2, OwnedQuiet

LEMMA TrackOwned ==
    ASSUME TypeOK, Shapes, Owned, NEW r \in Requests, Track(r)
    PROVE  Owned'
<1> DEFINE q == request[r]
           p == To(q, "write")
<1>1. /\ q \in RequestState /\ Shaped(q) /\ q.drop = <<>> /\ q.make = <<>> /\ q.pc = "track"
      /\ UNCHANGED <<row, watch, made>>
      /\ Step(r, Idle) \/ (q.op \in {"update", "delete"} /\ Step(r, p))
  BY TrackStep
<1>2. ASSUME q.op \in {"update", "delete"}
      PROVE  Formed(p) /\ p.source = q.source /\ p.drop = <<>> /\ p.ids = q.ids /\ p.of = q.of
  <2>1. <<q.op, "write">> \in Stages /\ (q.op = "update" => q.web)
    BY <1>1, <1>2, RequestFields DEF Shaped, Stages
  <2> QED
    BY <1>1, <2>1, ToFields
<1> HIDE DEF p
<1>3. q.op \in {"update", "delete"} => \A d \in Handled(p) : Mine(d, p.source)
  BY <1>2, RangeOfEmpty DEF Owned, Handled
<1>4. \E t : Formed(t) /\ Step(r, t) /\ \A d \in Handled(t) : Mine(d, t.source)
  BY <1>1, <1>2, <1>3, IdleFormed, HandledIdle
<1> QED
  BY <1>1, <1>4, OwnedQuiet

LEMMA WriteOwned ==
    ASSUME TypeOK, Shapes, Owned, NEW r \in Requests, Write(r)
    PROVE  Owned'
<1> DEFINE q == request[r]
           s == q.source
           p == To(q, "track")
           rw == Left(q)
<1>1. /\ q \in RequestState /\ Shaped(q) /\ s \in Sources /\ q.drop = <<>> /\ q.make = <<>> /\ q.pc = "write"
      /\ UNCHANGED <<watch, made>>
      /\ row' = [row EXCEPT ![s] = rw] \/ row' = row
      /\ (q.op = "create" /\ Step(r, p)) \/ Step(r, Idle)
  BY WriteStep
<1>2. ASSUME q.op = "create"
      PROVE  Formed(p) /\ p.source = s /\ p.drop = <<>> /\ p.ids = q.ids /\ p.of = q.of
  BY <1>1, <1>2, ToFields DEF Stages
<1>3. \A d \in Range(rw.ids) : Mine(d, s)
  <2>1. rw.ids = <<>> \/ rw.ids = q.ids \/ rw = row[s]
    BY <1>1, LeftFields DEF Written
  <2> QED
    BY <1>1, <2>1, RangeOfEmpty DEF Owned, Handled
<1> HIDE DEF p, rw
<1>4. q.op = "create" => \A d \in Handled(p) : Mine(d, p.source)
  BY <1>2, RangeOfEmpty DEF Owned, Handled
<1>5. \E t : Formed(t) /\ Step(r, t) /\ \A d \in Handled(t) : Mine(d, t.source)
  BY <1>1, <1>2, <1>4, IdleFormed, HandledIdle
<1>6. \A t \in Sources : \A d \in Range(row'[t].ids) : Mine(d, t)
  BY <1>1, <1>3 DEF Owned, TypeOK
<1> QED
  BY <1>1, <1>5, <1>6, OwnedStep

LEMMA CrashOwned ==
    ASSUME TypeOK, Owned, Crash
    PROVE  Owned'
<1>1. request' = [r \in Requests |-> Idle] /\ UNCHANGED <<row, instance, watch, made>>
  BY DEF Crash
<1>2. \A r \in Requests : Handled(request'[r]) = {}
  BY <1>1, HandledIdle
<1> QED
  BY <1>1, <1>2 DEF Owned, Mine, Handled

LEMMA DeleteProjectOwned ==
    ASSUME TypeOK, Owned, DeleteProject
    PROVE  Owned'
<1>1. row' = [s \in Sources |-> IF row[s].life = "unused" THEN NoRow ELSE [NoRow EXCEPT !.life = "gone"]]
      /\ UNCHANGED <<watch, made, request>>
  BY DEF DeleteProject
<1>2. NoRow.ids = <<>> /\ [NoRow EXCEPT !.life = "gone"].ids = <<>>
  BY DEF NoRow
<1>3. \A s \in Sources : row'[s].ids = <<>>
  BY <1>1, <1>2
<1> QED
  BY <1>1, <1>3, RangeOfEmpty DEF Owned, Mine, Handled

-----------------------------------------------------------------------------
(***************************************************************************)
(* What the requests of a source find.                                     *)
(***************************************************************************)

LEMMA NoPlaces == IsInjective(<<>>) /\ Len(<<>>) = 0 /\ \A own : Present(<<>>, own)
BY RangeOfEmpty DEF IsInjective, Present

LEMMA PairsOfNone ==
    ASSUME NEW s, NEW urls, NEW own
    PROVE  Pairs(s, urls, <<>>, own) <=> own = {}
<1> DEFINE pairs == {[id |-> <<>>[i], url |-> urls[i], source |-> s] : i \in 1..Len(<<>>)}
<1>1. pairs = {}
  <2>1. 1..Len(<<>>) = {}
    BY NoPlaces
  <2> QED
    BY <2>1
<1> HIDE DEF pairs
<1>2. Pairs(s, urls, <<>>, own) <=> own = pairs
  BY DEF Pairs, pairs
<1> QED
  BY <1>1, <1>2

\* A watch is one of the pairs.
LEMMA PairsMember ==
    ASSUME NEW s, NEW urls, NEW ids, NEW own, Pairs(s, urls, ids, own), NEW w
    PROVE  w \in own <=> \E i \in 1..Len(ids) : w = [id |-> ids[i], url |-> urls[i], source |-> s]
BY DEF Pairs

LEMMA OnlyIdle ==
    ASSUME NEW q, Formed(q), q.source = None \/ q.op = "none"
    PROVE  q = Idle
BY NoneAssumption DEF Formed, Shaped, Stages

LEMMA IdleFields ==
    /\ Idle.op = "none" /\ Idle.pc = "idle" /\ Idle.source = None /\ Idle.urls = <<>>
    /\ Idle.source \notin Sources
BY NoneAssumption DEF Idle

\* A step that changes nothing of a source.
LEMMA Elsewhere ==
    ASSUME NEW s \in Sources, Sound(s),
           row'[s] = row[s], instance'[s] = instance[s], Own(s)' = Own(s),
           s \in torn => s \in torn', s \in flawed => s \in flawed',
           \A p \in Requests :
              request'[p].source = s \/ request[p].source = s => request'[p] = request[p]
    PROVE  Sound(s)'
<1>1. Busy(s)' <=> Busy(s)
  BY DEF Busy
<1>2. ASSUME NEW q, Finds(s, q)
      PROVE  /\ s \notin torn' => Lists(q, row'[s], Own(s)')
             /\ s \notin flawed' => Matches(s, q, row'[s], instance'[s], Own(s)')
  BY <1>2 DEF Finds
<1>3. ~Busy(s)' => Finds(s, Idle)'
  <2>1. ASSUME ~Busy(s)
        PROVE  /\ s \notin torn' => Lists(Idle, row'[s], Own(s)')
               /\ s \notin flawed' => Matches(s, Idle, row'[s], instance'[s], Own(s)')
    BY <1>2, <2>1 DEF Sound
  <2>2. Idle' = Idle
    BY DEF Idle, NoWatch
  <2> QED
    BY <1>1, <2>1, <2>2 DEF Finds
<1>4. \A r \in Requests : request'[r].source = s => Finds(s, request[r])'
  <2> SUFFICES ASSUME NEW r \in Requests, request'[r].source = s
               PROVE  Finds(s, request[r])'
    OBVIOUS
  <2>1. request'[r] = request[r] /\ Finds(s, request[r])
    BY DEF Sound
  <2> QED
    BY <1>2, <2>1 DEF Finds
<1>5. s \notin torn' => \A r \in Requests : request'[r].source = s => Alone(r, s)'
  BY DEF Sound, Alone
<1> QED
  BY <1>3, <1>4, <1>5 DEF Sound

\* A step of the only request of a source.
LEMMA SoundStep ==
    ASSUME TypeOK, Shapes, \A t \in Sources : Sound(t), torn' \subseteq flawed',
           NEW r \in Requests, NEW q, Formed(q), Step(r, q), NEW s \in Sources,
           request[r].source \in {s, None}, q.source \in {s, None},
           Tear(s) \/ Flaw(s) \/ Fine,
           \A t \in Sources : t # s => row'[t] = row[t] /\ instance'[t] = instance[t] /\ Own(t)' = Own(t),
           s \notin torn' => \A p \in Requests : p # r => request[p].source # s,
           s \notin torn' => Lists(q, row'[s], Own(s)'),
           s \notin flawed' => Matches(s, q, row'[s], instance'[s], Own(s)')
    PROVE  \A t \in Sources : Sound(t)'
<1>1. request'[r] = q /\ \A p \in Requests : p # r => request'[p] = request[p]
  BY StepFormed
<1>2. ASSUME NEW t \in Sources, t # s
      PROVE  Sound(t)'
  <2>1. t \in torn => t \in torn'
    BY DEF Tear, Flaw, Fine, history
  <2>2. t \in flawed => t \in flawed'
    BY DEF Tear, Flaw, Fine, history
  <2>3. \A p \in Requests : request'[p].source = t \/ request[p].source = t => request'[p] = request[p]
    BY <1>1, <1>2, NoneAssumption
  <2> QED
    BY <1>2, <2>1, <2>2, <2>3, Elsewhere
<1>3. Sound(s)'
  <2>1. Idle' = Idle
    BY DEF Idle, NoWatch
  <2>2. ~Busy(s)' => Finds(s, Idle)'
    <3>1. ASSUME ~Busy(s)'
          PROVE  q = Idle
      <4>1. q.source # s
        BY <1>1, <3>1 DEF Busy
      <4> QED
        BY <4>1, OnlyIdle
    <3> QED
      BY <2>1, <3>1 DEF Finds
  <2>3. ASSUME NEW p \in Requests, request'[p].source = s
        PROVE  Finds(s, request[p])'
    <3>1. CASE p = r
      BY <1>1, <3>1 DEF Finds
    <3>2. CASE p # r
      <4>1. s \in torn' /\ s \in flawed'
        BY <1>1, <2>3, <3>2
      <4> QED
        BY <4>1 DEF Finds
    <3> QED
      BY <3>1, <3>2
  <2>4. ASSUME s \notin torn', NEW p \in Requests, request'[p].source = s
        PROVE  Alone(p, s)'
    BY <1>1, <2>4 DEF Alone
  <2> QED
    BY <2>2, <2>3, <2>4 DEF Sound
<1> QED
  BY <1>2, <1>3

\* What the step of a request can rely on.
LEMMA Current ==
    ASSUME TypeOK, NEW r \in Requests, NEW s \in Sources, request[r].source = s, Sound(s)
    PROVE  /\ s \notin torn => \A p \in Requests : p # r => request[p].source # s
           /\ s \notin torn => Lists(request[r], row[s], Own(s))
           /\ s \notin flawed => Matches(s, request[r], row[s], instance[s], Own(s))
BY DEF Sound, Finds, Alone

\* And a request that begins, on a source without one.
LEMMA Before ==
    ASSUME TypeOK, NEW s \in Sources, ~Busy(s), Sound(s)
    PROVE  /\ \A p \in Requests : request[p].source # s
           /\ s \notin torn => (Kept(s) => Present(row[s].ids, Own(s)))
           /\ s \notin flawed => /\ IsInjective(row[s].urls)
                                 /\ ~row[s].web => row[s].ids = <<>> /\ instance[s] = None
                                 /\ Settled(s, row[s], instance[s], Own(s))
BY IdleFields DEF Sound, Finds, Busy, Lists, Matches, Kept

LEMMA CreateSound ==
    ASSUME TypeOK, Shapes, \A t \in Sources : Sound(t), TypeOK',
           NEW r \in Requests, NEW s \in Sources, NEW urls \in UrlLists,
           NEW web \in BOOLEAN, Create(r, s, urls, web)
    PROVE  \A t \in Sources : Sound(t)'
<1> DEFINE p == Creation(s, urls)
           q == IF web /\ urls # <<>> THEN p ELSE Idle
           rw == [life |-> "kept", web |-> web, urls |-> urls, ids |-> <<>>]
<1>1. /\ row[s].life = "unused" /\ request[r] = Idle /\ Step(r, q)
      /\ row' = [row EXCEPT ![s] = rw] /\ UNCHANGED <<instance, watch, made>> /\ Begun(s, urls, web)
  BY DEF Create, Creation
<1>2. /\ Formed(p) /\ p.op = "create" /\ p.pc = "call" /\ p.source = s /\ p.web
      /\ p.urls = urls /\ p.drop = <<>> /\ p.make = urls /\ p.ids = <<>>
  BY CreationFields
<1>3. rw.life = "kept" /\ rw.web = web /\ rw.urls = urls /\ rw.ids = <<>>
  OBVIOUS
<1>4. urls \in Seq(URLs)
  BY UrlsAssumption
<1> HIDE DEF p, rw
<1>5. Formed(q) /\ q.source \in {s, None}
  BY <1>2, IdleFormed, IdleFields
<1>6. Tear(s) \/ Flaw(s) \/ Fine
  BY <1>1, BegunHistory
<1>7. row'[s] = rw /\ \A t \in Sources : t # s => row'[t] = row[t]
  BY <1>1 DEF TypeOK
<1>8. \A t \in Sources : instance'[t] = instance[t] /\ Own(t)' = Own(t)
  BY <1>1 DEF Own
<1>9. s \notin torn' => ~Busy(s)
  BY <1>1 DEF Begun, Tear
<1>10. s \notin flawed' => ~Busy(s) /\ s \notin flawed /\ IsInjective(urls)
  BY <1>1 DEF Begun, Tear, Flaw, Fine, history
<1>11. Lists(q, rw, Own(s))
  <2>1. Lists(p, rw, Own(s))
    BY <1>2, <1>3, NoPlaces DEF Lists
  <2>2. Lists(Idle, rw, Own(s))
    BY <1>3, NoPlaces, IdleFields DEF Lists
  <2> QED
    BY <2>1, <2>2
<1>12. ASSUME s \notin flawed'
       PROVE  Matches(s, q, rw, instance[s], Own(s))
  <2>1. IsInjective(urls) /\ Settled(s, row[s], instance[s], Own(s))
    BY <1>10, <1>12, Before
  <2>2. row[s].ids = <<>> /\ row[s].life # "kept"
    BY <1>1 DEF Shapes, Kept, NoRow
  <2>3. Own(s) = {} /\ instance[s] = None
    BY <2>1, <2>2, PairsOfNone DEF Settled, Agrees
  <2>4. CASE web /\ urls # <<>>
    <3>1. Creating(s, p, rw, instance[s], Own(s))
      <4>1. Pairs(s, p.urls, p.ids, Own(s))
        BY <1>2, <2>3, PairsOfNone
      <4>2. /\ Len(p.ids) + Len(p.make) = Len(p.urls)
            /\ \A i \in 1..Len(p.make) : p.make[i] = p.urls[Len(p.ids) + i]
        BY <1>2, <1>4, NoPlaces
      <4> QED
        BY <1>2, <1>3, <2>3, <2>4, <4>1, <4>2 DEF Creating
    <3> QED
      BY <1>2, <1>3, <2>1, <2>4, <3>1 DEF Matches
  <2>5. CASE ~web \/ urls = <<>>
    <3>1. Settled(s, rw, instance[s], Own(s))
      BY <1>3, <2>3, <2>5, PairsOfNone DEF Settled, Agrees
    <3>2. q = Idle
      BY <2>5
    <3> HIDE DEF q
    <3>3. IsInjective(rw.urls) /\ IsInjective(q.urls) /\ (~rw.web => rw.ids = <<>> /\ instance[s] = None)
      BY <1>3, <2>1, <2>3, <3>2, IdleFields, NoPlaces
    <3> QED
      BY <3>1, <3>2, <3>3, IdleFields DEF Matches
  <2> QED
    BY <2>4, <2>5
<1>13. s \notin torn' => \A t \in Requests : t # r => request[t].source # s
  BY <1>9 DEF Busy
<1>14. request[r].source \in {s, None} /\ torn' \subseteq flawed'
  BY <1>1, IdleFields DEF TypeOK
<1> HIDE DEF q
<1> QED
  BY <1>1, <1>5, <1>6, <1>7, <1>8, <1>11, <1>12, <1>13, <1>14, SoundStep

LEMMA UpdateSound ==
    ASSUME TypeOK, Shapes, \A t \in Sources : Sound(t), TypeOK',
           NEW r \in Requests, NEW s \in Sources, NEW urls \in UrlLists,
           NEW web \in BOOLEAN, Update(r, s, urls, web)
    PROVE  \A t \in Sources : Sound(t)'
<1> DEFINE q == Change(s, urls, web)
<1>1. /\ Kept(s) /\ request[r] = Idle /\ Step(r, q)
      /\ UNCHANGED <<row, instance, watch, made>> /\ Begun(s, urls, web)
  BY DEF Update, Change
<1>2. /\ Formed(q) /\ q.op = "update" /\ q.pc = (IF web THEN "read" ELSE "write") /\ q.source = s
      /\ q.web = web /\ q.urls = urls /\ q.ids = <<>>
  BY ChangeFields
<1> HIDE DEF q
<1>3. Tear(s) \/ Flaw(s) \/ Fine
  BY <1>1, BegunHistory
<1>4. \A t \in Sources : row'[t] = row[t] /\ instance'[t] = instance[t] /\ Own(t)' = Own(t)
  BY <1>1 DEF Own
<1>5. s \notin torn' => ~Busy(s) /\ s \notin torn
  BY <1>1 DEF Begun, Tear, Flaw, Fine, history
<1>6. s \notin flawed' => ~Busy(s) /\ s \notin flawed /\ IsInjective(urls) /\ (row[s].web => web)
  BY <1>1 DEF Begun, Tear, Flaw, Fine, history
<1>7. s \notin torn' => Lists(q, row[s], Own(s))
  BY <1>1, <1>2, <1>5, Before, NoPlaces DEF Lists, Kept
<1>8. ASSUME s \notin flawed'
      PROVE  Matches(s, q, row[s], instance[s], Own(s))
  <2>1. /\ IsInjective(urls) /\ IsInjective(row[s].urls)
        /\ ~row[s].web => row[s].ids = <<>> /\ instance[s] = None
        /\ Settled(s, row[s], instance[s], Own(s))
    BY <1>6, <1>8, Before
  <2>2. CASE web
    BY <1>2, <2>1, <2>2 DEF Matches
  <2>3. CASE ~web
    <3>1. row[s].ids = <<>> /\ instance[s] = None
      BY <1>6, <1>8, <2>1, <2>3
    <3>2. Own(s) = {}
      BY <2>1, <3>1, PairsOfNone DEF Settled
    <3>3. Listing(s, q, row[s], instance[s], Own(s))
      BY <1>2, <2>3, <3>1, <3>2, PairsOfNone DEF Listing
    <3> QED
      BY <1>2, <2>1, <2>3, <3>3 DEF Matches
  <2> QED
    BY <2>2, <2>3
<1>9. s \notin torn' => \A t \in Requests : t # r => request[t].source # s
  BY <1>5 DEF Busy
<1>10. request[r].source \in {s, None} /\ torn' \subseteq flawed'
  BY <1>1, IdleFields DEF TypeOK
<1> QED
  BY <1>1, <1>2, <1>3, <1>4, <1>7, <1>8, <1>9, <1>10, SoundStep

LEMMA DeleteSound ==
    ASSUME TypeOK, Shapes, \A t \in Sources : Sound(t), TypeOK',
           NEW r \in Requests, NEW s \in Sources, Delete(r, s)
    PROVE  \A t \in Sources : Sound(t)'
<1> DEFINE q == Deletion(s)
<1>1. /\ Kept(s) /\ request[r] = Idle /\ Step(r, q)
      /\ UNCHANGED <<row, instance, watch, made>> /\ (IF Busy(s) THEN Tear(s) ELSE Fine)
  BY DEF Delete, Deletion
<1>2. /\ Formed(q) /\ q.op = "delete" /\ q.pc = (IF row[s].web THEN "call" ELSE "write") /\ q.source = s
      /\ q.urls = <<>> /\ q.drop = (IF row[s].web THEN row[s].ids ELSE <<>>)
  BY DeletionFields
<1> HIDE DEF q
<1>3. \A t \in Sources : row'[t] = row[t] /\ instance'[t] = instance[t] /\ Own(t)' = Own(t)
  BY <1>1 DEF Own
<1>4. s \notin torn' => ~Busy(s) /\ s \notin torn
  BY <1>1 DEF Tear, Fine, history
<1>5. s \notin flawed' => ~Busy(s) /\ s \notin flawed
  BY <1>1 DEF Tear, Fine, history
<1>6. s \notin torn' => Lists(q, row[s], Own(s))
  BY <1>1, <1>2, <1>4 DEF Lists, Kept
<1>7. ASSUME s \notin flawed'
      PROVE  Matches(s, q, row[s], instance[s], Own(s))
  <2>1. /\ IsInjective(row[s].urls)
        /\ ~row[s].web => row[s].ids = <<>> /\ instance[s] = None
        /\ Pairs(s, row[s].urls, row[s].ids, Own(s))
    BY <1>5, <1>7, Before DEF Settled
  <2>2. row[s].web \in BOOLEAN /\ Over(row[s].ids, Watches)
    BY RowFields DEF TypeOK, Over
  <2>3. CASE row[s].web
    <3>1. \A w \in Own(s) : \E i \in 1..Len(row[s].ids) : w.id = row[s].ids[i]
      BY <2>1, PairsMember
    <3>2. \A w \in Own(s) : w.id \in Range(q.drop)
      BY <1>2, <2>2, <2>3, <3>1, RangeOfSeq
    <3> QED
      BY <1>2, <2>1, <2>3, <3>2, NoPlaces DEF Matches, Deleting
  <2>4. CASE ~row[s].web
    <3>1. Own(s) = {}
      BY <2>1, <2>4, PairsOfNone
    <3> QED
      BY <1>2, <2>1, <2>4, <3>1, NoPlaces DEF Matches, Deleting
  <2> QED
    BY <2>2, <2>3, <2>4
<1>8. s \notin torn' => \A t \in Requests : t # r => request[t].source # s
  BY <1>4 DEF Busy
<1>9. request[r].source \in {s, None} /\ torn' \subseteq flawed' /\ (Tear(s) \/ Flaw(s) \/ Fine)
  BY <1>1, IdleFields DEF TypeOK
<1> QED
  BY <1>1, <1>2, <1>3, <1>6, <1>7, <1>8, <1>9, SoundStep

LEMMA ReadOldSound ==
    ASSUME TypeOK, Shapes, \A t \in Sources : Sound(t), TypeOK',
           NEW r \in Requests, ReadOld(r)
    PROVE  \A t \in Sources : Sound(t)'
<1> DEFINE q == request[r]
           s == q.source
           old == row[s]
           own == Own(s)
           p == Reconciled(q)
<1>1. /\ q.pc = "read" /\ UNCHANGED <<row, instance, watch, made>>
      /\ \/ Kept(s) /\ Step(r, p) /\ (IF Tangled(old) THEN Tear(s) ELSE Fine)
         \/ Step(r, To(q, "write")) /\ Tear(s)
  BY DEF ReadOld, Reconciled, To
<1>2. q \in RequestState /\ Shaped(q) /\ s \in Sources
  BY <1>1, AtStage
<1>3. q.op = "update" /\ q.web /\ q.drop = <<>> /\ q.make = <<>>
  BY <1>1, <1>2, RequestFields DEF Shaped, Stages
<1>4. \A t \in Sources : row'[t] = row[t] /\ instance'[t] = instance[t] /\ Own(t)' = Own(t)
  BY <1>1 DEF Own
<1>5. /\ s \notin torn => \A t \in Requests : t # r => request[t].source # s
      /\ s \notin torn => Lists(q, old, own)
      /\ s \notin flawed => Matches(s, q, old, instance[s], own)
  BY <1>2, Current
<1>6. CASE Step(r, To(q, "write")) /\ Tear(s)
  <2>1. Formed(To(q, "write")) /\ To(q, "write").source = s
    BY <1>2, <1>3, ToFields DEF Stages
  <2>2. s \in torn' /\ s \in flawed'
    BY <1>6 DEF Tear
  <2>3. torn' \subseteq flawed'
    BY DEF TypeOK
  <2> HIDE DEF s
  <2>4. request[r].source \in {s, None}
    BY DEF s
  <2> QED
    BY <1>2, <1>4, <1>6, <2>1, <2>2, <2>3, <2>4, SoundStep
<1>7. CASE Kept(s) /\ Step(r, p) /\ (IF Tangled(old) THEN Tear(s) ELSE Fine)
  <2>1. /\ Formed(p) /\ p.op = "update" /\ p.pc = "call" /\ p.source = s /\ p.web
        /\ p.urls = q.urls /\ p.drop = Dropped(old, q.urls) /\ p.make = q.urls
        /\ p.of = [u \in URLs |-> WatchOf(old, u)]
    BY <1>1, <1>2, ReconciledFields
  <2>2. s \notin torn' => s \notin torn /\ ~Tangled(old)
    BY <1>7 DEF Tear, Fine, history
  <2>3. s \notin flawed' => s \notin flawed
    BY <1>7 DEF Tear, Fine, history
  <2>4. Paired(old) /\ Over(q.urls, URLs) /\ Range(q.urls) \subseteq URLs
    BY <1>2, RowFields, RequestFields, RangeOfSeq DEF TypeOK, Over
  <2>5. torn' \subseteq flawed' /\ (Tear(s) \/ Flaw(s) \/ Fine)
    BY <1>7 DEF TypeOK
  <2>6. /\ \A i \in 1..Len(old.urls) : old.urls[i] \in URLs
        /\ \A i \in 1..Len(old.ids) : old.ids[i] \in Watches
        /\ Len(old.urls) \in Nat /\ Len(old.ids) \in Nat
    BY <2>4, RangeOfSeq DEF Paired
  <2> DEFINE gone == {j \in 1..Len(old.urls) :
                         old.urls[j] \notin Range(q.urls) /\ WatchOf(old, old.urls[j]) # None}
  <2>7. Range(p.drop) = {WatchOf(old, old.urls[i]) : i \in gone}
    BY <2>1, <2>4, DroppedRange
  <2> HIDE DEF p, gone
  <2>8. ASSUME s \notin torn'
        PROVE  Lists(p, old, own)
    <3>1. Present(old.ids, own) /\ old.life = "kept"
      BY <1>1, <1>3, <1>5, <2>2, <2>8 DEF Lists
    <3>2. ASSUME NEW u \in Range(q.urls), p.of[u] # None
          PROVE  (\E w \in own : w.id = p.of[u]) /\ p.of[u] \notin Range(p.drop)
      <4>1. u \in URLs /\ p.of[u] = WatchOf(old, u)
        BY <2>1, <2>4
      <4>2. \E w \in own : w.id = p.of[u]
        BY <2>4, <3>1, <3>2, <4>1, WatchOfType DEF Present
      <4>3. ASSUME p.of[u] \in Range(p.drop)
            PROVE  FALSE
        <5>1. PICK i \in gone : p.of[u] = WatchOf(old, old.urls[i])
          BY <2>7, <4>3
        <5>2. old.urls[i] \in URLs /\ old.urls[i] # u
          BY <2>6, <3>2 DEF gone
        <5> QED
          BY <2>2, <2>8, <3>2, <4>1, <5>1, <5>2 DEF Tangled
      <4> QED
        BY <4>2, <4>3
    <3> QED
      BY <2>1, <3>1, <3>2 DEF Lists
  <2>9. ASSUME s \notin flawed'
        PROVE  Matches(s, p, old, instance[s], own)
    <3>1. /\ IsInjective(old.urls) /\ IsInjective(q.urls)
          /\ ~old.web => old.ids = <<>> /\ instance[s] = None
          /\ Settled(s, old, instance[s], own)
      BY <1>1, <1>3, <1>5, <2>3, <2>9 DEF Matches
    <3>2. Len(old.ids) <= Len(old.urls)
      <4>1. old.web \in BOOLEAN
        BY <1>2, RowFields DEF TypeOK
      <4>2. old.web => Len(old.ids) = Len(old.urls)
        BY <1>7, <3>1 DEF Settled, Kept
      <4> QED
        BY <2>6, <3>1, <4>1, <4>2, NoPlaces
    <3>3. ASSUME NEW i \in 1..Len(old.ids)
          PROVE  i \in 1..Len(old.urls) /\ WatchOf(old, old.urls[i]) = old.ids[i] /\ old.ids[i] # None
      <4>1. i \in 1..Len(old.urls) /\ old.ids[i] # None
        BY <2>6, <3>2, NoneIsNoWatch
      <4>2. ~(i > Len(old.ids))
        BY <2>6
      <4>3. PICK j \in 1..Len(old.urls) :
               j \in 1..Len(old.ids) /\ old.urls[j] = old.urls[i] /\ WatchOf(old, old.urls[i]) = old.ids[j]
        BY <2>4, <4>1, <4>2, WatchOfPlace
      <4>4. DOMAIN old.urls = 1..Len(old.urls)
        BY <2>4 DEF Paired, Over
      <4>5. j = i
        BY <3>1, <4>1, <4>3, <4>4 DEF IsInjective
      <4> QED
        BY <4>1, <4>3, <4>5
    <3>4. Pairs(s, old.urls, old.ids, own) /\ Agrees(old, instance[s])
      BY <3>1 DEF Settled
    <3>5. ASSUME NEW w \in own
          PROVE  p.of[w.url] = w.id /\ (w.url \in Range(p.urls) \/ w.id \in Range(p.drop))
      <4>1. PICK i \in 1..Len(old.ids) : w = [id |-> old.ids[i], url |-> old.urls[i], source |-> s]
        BY <3>4, PairsMember
      <4>2. w.id = old.ids[i] /\ w.url = old.urls[i]
        BY <4>1
      <4>3. old.urls[i] \in URLs /\ WatchOf(old, old.urls[i]) = old.ids[i] /\ i \in 1..Len(old.urls)
            /\ old.ids[i] # None
        BY <2>6, <3>3
      <4>4. old.urls[i] \notin Range(q.urls) => i \in gone
        BY <4>3 DEF gone
      <4>5. i \in gone => WatchOf(old, old.urls[i]) \in Range(p.drop)
        BY <2>7
      <4> QED
        BY <2>1, <4>2, <4>3, <4>4, <4>5
    <3>6. ASSUME NEW u \in Range(p.urls)
          PROVE  \/ p.of[u] = None /\ u \in Range(p.make)
                 \/ p.of[u] # None /\ [id |-> p.of[u], url |-> u, source |-> s] \in own
      <4>1. u \in URLs /\ p.of[u] = WatchOf(old, u)
        BY <2>1, <2>4
      <4>2. CASE p.of[u] # None
        <5>1. PICK i \in 1..Len(old.urls) :
                 i \in 1..Len(old.ids) /\ old.urls[i] = u /\ WatchOf(old, u) = old.ids[i]
          BY <2>4, <4>1, <4>2, WatchOfPlace
        <5>2. [id |-> old.ids[i], url |-> old.urls[i], source |-> s] \in own
          BY <3>4, <5>1, PairsMember
        <5> QED
          BY <4>1, <4>2, <5>1, <5>2
      <4> QED
        BY <2>1, <4>2
    <3>7. Calling(s, p, old, instance[s], own)
      BY <3>4, <3>5, <3>6 DEF Calling
    <3> QED
      BY <2>1, <3>1, <3>7 DEF Matches
  <2>10. request[r].source = s /\ own = Own(s) /\ old = row[s]
    OBVIOUS
  <2>11. s \notin torn' => \A t \in Requests : t # r => request[t].source # s
    BY <1>5, <2>2
  <2> HIDE DEF s, own, old
  <2> QED
    BY <1>2, <1>4, <1>7, <2>1, <2>5, <2>8, <2>9, <2>10, <2>11, SoundStep
<1> QED
  BY <1>1, <1>6, <1>7

LEMMA DropWatchSound ==
    ASSUME TypeOK, Shapes, Owned, \A t \in Sources : Sound(t), TypeOK',
           NEW r \in Requests, DropWatch(r),
           NEW q, q = request[r], NEW s \in Sources, q.source = s
    PROVE  \A t \in Sources : Sound(t)'
<1> DEFINE d == Head(q.drop)
           own == Own(s)
           p == Dropping(q)
<1>1. /\ q.pc = "call" /\ q.drop # <<>> /\ Step(r, p) /\ UNCHANGED <<row, instance, made>>
      /\ (watch' = {w \in watch : w.id # d} /\ Fine) \/ (watch' = watch /\ Flaw(s))
  BY DEF DropWatch, Dropping
<1>2. q \in RequestState /\ Shaped(q)
  BY <1>1, AtStage
<1>3. q.op \in {"update", "delete"}
  BY <1>1, <1>2 DEF Shaped, Stages
<1>4. /\ Formed(p) /\ p.op = q.op /\ p.pc = "call" /\ p.source = s
      /\ p.urls = q.urls /\ p.drop = Tail(q.drop) /\ p.make = q.make /\ p.of = q.of
  BY <1>1, <1>2, DroppingFields
<1>5. Range(q.drop) = {d} \cup Range(p.drop)
  BY <1>1, <1>2, <1>4, RequestFields, RangeOfTail DEF Over
<1>6. Mine(d, s)
  BY <1>5 DEF Owned, Handled
<1>7. \A t \in Sources : t # s => row'[t] = row[t] /\ instance'[t] = instance[t] /\ Own(t)' = Own(t)
  <2>1. \A t \in Sources : t # s => \A w \in Own(t) : w.id # d
    BY <1>6 DEF Mine, Own
  <2> HIDE DEF d
  <2> QED
    BY <1>1, <2>1 DEF Own
<1>8. /\ s \notin torn => \A t \in Requests : t # r => request[t].source # s
      /\ s \notin torn => Lists(q, row[s], own)
      /\ s \notin flawed => Matches(s, q, row[s], instance[s], own)
  BY <1>2, Current
<1>9. (s \notin torn' => s \notin torn) /\ (s \notin flawed' => s \notin flawed /\ s \notin torn)
  BY <1>1 DEF Flaw, Fine, history, TypeOK
<1>10. /\ Own(s)' = own \/ Own(s)' = {w \in own : w.id # d}
       /\ s \notin flawed' => Own(s)' = {w \in own : w.id # d}
  BY <1>1 DEF Own, Flaw
<1>11. row'[s] = row[s] /\ instance'[s] = instance[s] /\ torn' \subseteq flawed'
       /\ (Tear(s) \/ Flaw(s) \/ Fine)
  BY <1>1 DEF TypeOK
<1> DEFINE now == Own(s)'
<1>12. now = Own(s)'
  OBVIOUS
<1>13. (now = own \/ now = {w \in own : w.id # d}) /\ (s \notin flawed' => now = {w \in own : w.id # d})
  BY <1>10
<1> HIDE DEF d, own, p, now
<1>14. ASSUME s \notin torn'
       PROVE  Lists(p, row[s], now)
  <2>1. Lists(q, row[s], own)
    BY <1>8, <1>9, <1>14
  <2>2. ASSUME q.op = "update", NEW u \in Range(q.urls), q.of[u] # None
        PROVE  (\E w \in now : w.id = q.of[u]) /\ q.of[u] \notin Range(p.drop)
    <3>1. (\E w \in own : w.id = q.of[u]) /\ q.of[u] \notin Range(q.drop)
      BY <1>1, <2>1, <2>2 DEF Lists
    <3> QED
      BY <1>5, <1>13, <3>1
  <2> QED
    BY <1>3, <1>4, <2>1, <2>2 DEF Lists
<1>15. ASSUME s \notin flawed'
       PROVE  Matches(s, p, row[s], instance[s], now)
  <2>1. Matches(s, q, row[s], instance[s], own) /\ Lists(q, row[s], own)
    BY <1>8, <1>9, <1>15
  <2>2. now = {w \in own : w.id # d}
    BY <1>13, <1>15
  <2>3. CASE q.op = "update"
    <3>1. Calling(s, q, row[s], instance[s], own)
      BY <1>1, <2>1, <2>3 DEF Matches
    <3>2. \A w \in now : p.of[w.url] = w.id /\ (w.url \in Range(p.urls) \/ w.id \in Range(p.drop))
      BY <1>4, <1>5, <2>2, <3>1 DEF Calling
    <3>3. ASSUME NEW u \in Range(p.urls)
          PROVE  \/ p.of[u] = None /\ u \in Range(p.make)
                 \/ p.of[u] # None /\ [id |-> p.of[u], url |-> u, source |-> s] \in now
      <4>1. p.of[u] # None => p.of[u] # d
        BY <1>1, <1>4, <1>5, <2>1, <2>3 DEF Lists
      <4>2. \/ p.of[u] = None /\ u \in Range(p.make)
            \/ p.of[u] # None /\ [id |-> p.of[u], url |-> u, source |-> s] \in own
        BY <1>4, <3>1 DEF Calling
      <4>3. [id |-> p.of[u], url |-> u, source |-> s].id = p.of[u]
        OBVIOUS
      <4> QED
        BY <2>2, <4>1, <4>2, <4>3
    <3>4. Calling(s, p, row[s], instance[s], now)
      BY <3>1, <3>2, <3>3 DEF Calling
    <3> QED
      BY <1>4, <2>1, <2>3, <3>4 DEF Matches
  <2>4. CASE q.op = "delete"
    <3>1. \A w \in now : w.id \in Range(p.drop)
      BY <1>5, <2>1, <2>2, <2>4 DEF Matches, Deleting
    <3> QED
      BY <1>4, <2>1, <2>4, <3>1 DEF Matches, Deleting
  <2> QED
    BY <1>3, <2>3, <2>4
<1>16. s \notin torn' => \A t \in Requests : t # r => request[t].source # s
  BY <1>8, <1>9
<1>17. s \notin torn' => Lists(p, row'[s], Own(s)')
  BY <1>11, <1>12, <1>14
<1>18. s \notin flawed' => Matches(s, p, row'[s], instance'[s], Own(s)')
  BY <1>11, <1>12, <1>15
<1>19. request[r].source \in {s, None} /\ p.source \in {s, None}
  BY <1>4, <1>12
<1> QED
  BY <1>1, <1>2, <1>4, <1>7, <1>11, <1>16, <1>17, <1>18, <1>19, SoundStep

LEMMA MakeWatchSound ==
    ASSUME TypeOK, Shapes, Owned, \A t \in Sources : Sound(t), TypeOK',
           NEW r \in Requests, MakeWatch(r),
           NEW q, q = request[r], NEW s \in Sources, q.source = s
    PROVE  \A t \in Sources : Sound(t)'
<1> DEFINE u == Head(q.make)
           w == [id |-> made + 1, url |-> u, source |-> s]
           own == Own(s)
           rest == Skipping(q)
           more == Making(q)
<1>1. /\ q.pc = "call" /\ q.drop = <<>> /\ q.make # <<>> /\ UNCHANGED <<row, instance>>
      /\ \/ q.op = "update" /\ q.of[u] # None /\ Step(r, rest) /\ Fine /\ UNCHANGED watch
         \/ /\ q.op = "create" \/ q.of[u] = None
            /\ made < MaxWatch /\ watch' = watch \cup {w} /\ Step(r, more) /\ Fine
         \/ Step(r, rest) /\ Flaw(s) /\ UNCHANGED watch
  BY DEF MakeWatch, Skipping, Making
<1>2. q \in RequestState /\ Shaped(q)
  BY <1>1, AtStage
<1>3. q.op \in {"create", "update"}
  BY <1>1, <1>2 DEF Shaped, Stages
<1>4. /\ Formed(rest) /\ rest.op = q.op /\ rest.pc = "call" /\ rest.source = s
      /\ rest.urls = q.urls /\ rest.drop = <<>> /\ rest.make = Tail(q.make)
      /\ rest.ids = q.ids /\ rest.of = q.of
  BY <1>1, <1>2, SkippingFields
<1>5. made < MaxWatch =>
         /\ made + 1 \in Watches
         /\ Formed(more) /\ more.op = q.op /\ more.pc = "call" /\ more.source = s
         /\ more.urls = q.urls /\ more.drop = <<>> /\ more.make = Tail(q.make)
         /\ more.ids = Append(q.ids, made + 1) /\ more.of = [q.of EXCEPT ![u] = made + 1]
  BY <1>1, <1>2, MakingFields
<1>6. /\ Over(q.make, URLs) /\ Over(q.ids, Watches) /\ Over(q.urls, URLs)
      /\ q.of \in [URLs -> Watches \cup {None}] /\ Range(q.make) \subseteq Range(q.urls)
  BY <1>2, RequestFields DEF Over, Shaped
<1>7. /\ u \in URLs /\ Len(Tail(q.make)) = Len(q.make) - 1
      /\ \A i \in 1..(Len(q.make) - 1) : Tail(q.make)[i] = q.make[i + 1]
      /\ Range(q.make) = {u} \cup Range(Tail(q.make))
  BY <1>1, <1>6, RangeOfTail
<1>8. Len(q.make) \in Nat \ {0} /\ u = q.make[1] /\ Len(q.ids) \in Nat
  BY <1>1, <1>6 DEF Over
<1>9. w.id = made + 1 /\ w.url = u /\ w.source = s
  OBVIOUS
<1>10. \A t \in Sources : t # s => row'[t] = row[t] /\ instance'[t] = instance[t] /\ Own(t)' = Own(t)
  <2> HIDE DEF w
  <2> QED
    BY <1>1, <1>9 DEF Own
<1>11. /\ s \notin torn => \A t \in Requests : t # r => request[t].source # s
       /\ s \notin torn => Lists(q, row[s], own)
       /\ s \notin flawed => Matches(s, q, row[s], instance[s], own)
  BY Current
<1>12. (s \notin torn' => s \notin torn) /\ (s \notin flawed' => s \notin flawed)
  BY <1>1 DEF Flaw, Fine, history
<1>13. row'[s] = row[s] /\ instance'[s] = instance[s] /\ torn' \subseteq flawed'
       /\ (Tear(s) \/ Flaw(s) \/ Fine)
  BY <1>1 DEF TypeOK
<1>14. s \notin torn' => \A t \in Requests : t # r => request[t].source # s
  BY <1>11, <1>12
<1>15. request[r].source \in {s, None}
  OBVIOUS
<1>16. CASE Step(r, rest) /\ UNCHANGED watch /\ (Flaw(s) \/ (Fine /\ q.op = "update" /\ q.of[u] # None))
  <2>1. Own(s)' = own
    BY <1>16 DEF Own
  <2>2. s \notin flawed' => q.op = "update" /\ q.of[u] # None
    BY <1>16 DEF Flaw
  <2> HIDE DEF rest, own, u
  <2>3. s \notin torn' => Lists(rest, row'[s], Own(s)')
    BY <1>1, <1>3, <1>4, <1>11, <1>12, <1>13, <2>1 DEF Lists
  <2>4. ASSUME s \notin flawed'
        PROVE  Matches(s, rest, row'[s], instance'[s], Own(s)')
    <3>1. Matches(s, q, row[s], instance[s], own) /\ q.op = "update" /\ q.of[u] # None
      BY <1>11, <1>12, <2>2, <2>4
    <3>2. Calling(s, q, row[s], instance[s], own)
      BY <1>1, <3>1 DEF Matches
    <3>3. Calling(s, rest, row[s], instance[s], own)
      BY <1>1, <1>4, <1>7, <3>1, <3>2 DEF Calling
    <3> QED
      BY <1>4, <1>13, <2>1, <3>1, <3>3 DEF Matches
  <2>5. rest.source \in {s, None}
    BY <1>4
  <2> QED
    BY <1>4, <1>10, <1>13, <1>14, <1>15, <1>16, <2>3, <2>4, <2>5, SoundStep
<1>17. CASE /\ q.op = "create" \/ q.of[u] = None
            /\ made < MaxWatch /\ watch' = watch \cup {w} /\ Step(r, more) /\ Fine
  <2>1. Own(s)' = own \cup {w}
    <3> HIDE DEF w
    <3> QED
      BY <1>9, <1>17 DEF Own
  <2>2. /\ made + 1 \in Watches
        /\ Formed(more) /\ more.op = q.op /\ more.pc = "call" /\ more.source = s
        /\ more.urls = q.urls /\ more.drop = <<>> /\ more.make = Tail(q.make)
        /\ more.ids = Append(q.ids, made + 1) /\ more.of = [q.of EXCEPT ![u] = made + 1]
    BY <1>5, <1>17
  <2>3. Range(more.ids) = Range(q.ids) \cup {made + 1}
    BY <1>6, <2>2, RangeOfAppend
  <2>4. /\ Len(more.ids) = Len(q.ids) + 1 /\ more.ids[Len(q.ids) + 1] = made + 1
        /\ \A i \in 1..Len(q.ids) : more.ids[i] = q.ids[i]
    BY <1>6, <2>2 DEF Over
  <2>5. more.of[u] = made + 1 /\ \A v \in URLs : v # u => more.of[v] = q.of[v]
    BY <1>6, <1>7, <2>2
  <2>6. \A v \in own : v.id # None /\ v.url \in URLs
    BY NoneIsNoWatch DEF TypeOK, WatchState, Own
  <2>7. made + 1 # None /\ Range(q.urls) \subseteq URLs
    BY <1>6, <2>2, NoneIsNoWatch, RangeOfSeq
  <2>8. w = [id |-> made + 1, url |-> u, source |-> s]
    OBVIOUS
  <2> HIDE DEF more, own, u, w
  <2>9. ASSUME s \notin torn'
        PROVE  Lists(more, row'[s], Own(s)')
    <3>1. Lists(q, row[s], own)
      BY <1>11, <1>12, <2>9
    <3>2. q.op = "create" => Present(more.ids, own \cup {w}) /\ Present(row[s].ids, own \cup {w})
      BY <1>9, <2>3, <3>1 DEF Lists, Present
    <3>3. ASSUME q.op = "update", NEW v \in Range(q.urls), more.of[v] # None
          PROVE  (\E x \in own \cup {w} : x.id = more.of[v]) /\ more.of[v] \notin Range(more.drop)
      <4>1. more.of[v] \notin Range(more.drop)
        BY <2>2, RangeOfEmpty
      <4>2. v = u \/ (q.of[v] # None /\ q.of[v] = more.of[v])
        BY <2>5, <2>7, <3>3
      <4>3. q.of[v] # None => \E x \in own : x.id = q.of[v]
        BY <1>1, <3>1, <3>3 DEF Lists
      <4> QED
        BY <1>9, <2>5, <4>1, <4>2, <4>3
    <3> QED
      BY <1>3, <1>13, <2>1, <2>2, <3>1, <3>2, <3>3 DEF Lists
  <2>10. ASSUME s \notin flawed'
         PROVE  Matches(s, more, row'[s], instance'[s], Own(s)')
    <3>1. Matches(s, q, row[s], instance[s], own)
      BY <1>11, <1>12, <2>10
    <3>2. CASE q.op = "create"
      <4>1. Creating(s, q, row[s], instance[s], own)
        BY <3>1, <3>2 DEF Matches
      <4>2. /\ Len(q.ids) + Len(q.make) = Len(q.urls) /\ u = q.urls[Len(q.ids) + 1]
            /\ \A i \in 1..Len(q.make) : q.make[i] = q.urls[Len(q.ids) + i]
        <5>1. /\ Len(q.ids) + Len(q.make) = Len(q.urls)
              /\ \A i \in 1..Len(q.make) : q.make[i] = q.urls[Len(q.ids) + i]
          BY <4>1 DEF Creating
        <5>2. 1 \in 1..Len(q.make)
          BY <1>8
        <5> QED
          BY <1>8, <5>1, <5>2
      <4>3. Pairs(s, q.urls, more.ids, own \cup {w})
        <5> DEFINE n == Len(q.ids)
                   pairs == {[id |-> more.ids[i], url |-> q.urls[i], source |-> s] : i \in 1..Len(more.ids)}
        <5>1. \A x : x \in own <=> \E i \in 1..n : x = [id |-> q.ids[i], url |-> q.urls[i], source |-> s]
          BY <4>1, PairsMember DEF Creating
        <5>2. \A i \in 1..Len(more.ids) : i \in 1..n \/ i = n + 1
          BY <1>8, <2>4
        <5>3. n + 1 \in 1..Len(more.ids) /\ \A i \in 1..n : i \in 1..Len(more.ids)
          BY <1>8, <2>4
        <5>4. ASSUME NEW x \in own \cup {w}
              PROVE  x \in pairs
          <6>1. CASE x = w
            BY <2>4, <2>8, <4>2, <5>3, <6>1
          <6>2. CASE x \in own
            BY <2>4, <5>1, <5>3, <6>2
          <6> QED
            BY <6>1, <6>2
        <5>5. ASSUME NEW x \in pairs
              PROVE  x \in own \cup {w}
          <6>1. PICK i \in 1..Len(more.ids) : x = [id |-> more.ids[i], url |-> q.urls[i], source |-> s]
            OBVIOUS
          <6>2. CASE i = n + 1
            BY <2>4, <2>8, <4>2, <6>1, <6>2
          <6>3. CASE i \in 1..n
            BY <2>4, <5>1, <6>1, <6>3
          <6> QED
            BY <5>2, <6>2, <6>3
        <5>6. own \cup {w} = pairs
          BY <5>4, <5>5
        <5> QED
          BY <5>6 DEF Pairs
      <4>4. /\ Len(more.ids) + Len(more.make) = Len(q.urls)
            /\ \A i \in 1..Len(more.make) : more.make[i] = q.urls[Len(more.ids) + i]
        <5>1. Len(more.ids) + Len(more.make) = Len(q.urls)
          <6>1. Len(more.make) = Len(q.make) - 1 /\ Len(more.ids) = Len(q.ids) + 1
            BY <1>7, <2>2, <2>4
          <6>2. Len(q.ids) + Len(q.make) = Len(q.urls)
            BY <4>2
          <6> DEFINE a == Len(q.ids)
                     b == Len(q.make)
          <6>3. a \in Nat /\ b \in Nat
            BY <1>8
          <6> HIDE DEF a, b
          <6>4. (a + 1) + (b - 1) = a + b
            BY <6>3
          <6> QED
            BY <6>1, <6>2, <6>4 DEF a, b
        <5>2. ASSUME NEW i \in 1..Len(more.make)
              PROVE  more.make[i] = q.urls[Len(more.ids) + i]
          <6>1. i \in 1..(Len(q.make) - 1) /\ i + 1 \in 1..Len(q.make) /\ more.make[i] = q.make[i + 1]
            BY <1>7, <1>8, <2>2
          <6>2. q.make[i + 1] = q.urls[Len(q.ids) + (i + 1)]
            BY <4>2, <6>1
          <6>3. Len(q.ids) + (i + 1) = Len(more.ids) + i
            <7> DEFINE a == Len(q.ids)
            <7>1. i \in Nat /\ Len(more.ids) = a + 1 /\ a \in Nat
              BY <1>8, <2>4, <6>1
            <7> HIDE DEF a
            <7>2. a + (i + 1) = (a + 1) + i
              BY <7>1
            <7> QED
              BY <7>1, <7>2 DEF a
          <6> QED
            BY <6>1, <6>2, <6>3
        <5> QED
          BY <5>1, <5>2
      <4>5. Creating(s, more, row[s], instance[s], own \cup {w})
        <5>1. row[s].urls = q.urls /\ row[s].web /\ instance[s] = None /\ row[s].ids = <<>>
          BY <1>1, <4>1 DEF Creating
        <5> QED
          BY <2>2, <4>3, <4>4, <5>1 DEF Creating
      <4> QED
        BY <1>13, <2>1, <2>2, <3>1, <3>2, <4>5 DEF Matches
    <3>3. CASE q.op = "update"
      <4>1. Calling(s, q, row[s], instance[s], own) /\ q.of[u] = None
        BY <1>1, <1>17, <3>1, <3>3 DEF Matches
      <4>2. ASSUME NEW x \in own \cup {w}
            PROVE  more.of[x.url] = x.id /\ (x.url \in Range(q.urls) \/ x.id \in Range(more.drop))
        <5>1. CASE x = w
          BY <1>6, <1>7, <1>9, <2>5, <5>1
        <5>2. CASE x \in own
          <6>1. q.of[x.url] = x.id /\ x.id # None /\ x.url \in URLs
            BY <2>6, <4>1, <5>2 DEF Calling
          <6>2. x.url \in Range(q.urls) \/ x.id \in Range(q.drop)
            BY <4>1, <5>2 DEF Calling
          <6> QED
            BY <1>1, <2>2, <2>5, <4>1, <6>1, <6>2
        <5> QED
          BY <5>1, <5>2
      <4>3. ASSUME NEW v \in Range(q.urls)
            PROVE  \/ more.of[v] = None /\ v \in Range(more.make)
                   \/ more.of[v] # None /\ [id |-> more.of[v], url |-> v, source |-> s] \in own \cup {w}
        <5>1. CASE v = u
          BY <2>5, <2>7, <2>8, <5>1
        <5>2. CASE v # u
          <6>1. more.of[v] = q.of[v]
            BY <2>5, <2>7, <5>2
          <6>2. \/ q.of[v] = None /\ v \in Range(q.make)
                \/ q.of[v] # None /\ [id |-> q.of[v], url |-> v, source |-> s] \in own
            BY <4>1 DEF Calling
          <6> QED
            BY <1>7, <2>2, <5>2, <6>1, <6>2
        <5> QED
          BY <5>1, <5>2
      <4>4. Calling(s, more, row[s], instance[s], own \cup {w})
        BY <2>2, <4>1, <4>2, <4>3 DEF Calling
      <4> QED
        BY <1>13, <2>1, <2>2, <3>1, <3>3, <4>4 DEF Matches
    <3> QED
      BY <1>3, <3>2, <3>3
  <2>11. more.source \in {s, None}
    BY <2>2
  <2> QED
    BY <1>10, <1>13, <1>14, <1>15, <1>17, <2>2, <2>9, <2>10, <2>11, SoundStep
<1> QED
  BY <1>1, <1>16, <1>17

LEMMA CallsDoneSound ==
    ASSUME TypeOK, Shapes, \A t \in Sources : Sound(t), TypeOK',
           NEW r \in Requests, CallsDone(r),
           NEW q, q = request[r], NEW s \in Sources, q.source = s
    PROVE  \A t \in Sources : Sound(t)'
<1> DEFINE own == Own(s)
           rw == row[s]
           inst == instance[s]
<1>1. /\ q \in RequestState /\ Shaped(q)
      /\ q.pc = "call" /\ q.drop = <<>> /\ q.make = <<>>
      /\ UNCHANGED <<row, instance, watch, made>> /\ Fine
      /\ \/ q.op = "create" /\ q.ids = <<>> /\ Step(r, Idle)
         \/ q.op = "create" /\ q.ids # <<>> /\ Step(r, To(q, "write")) /\ Formed(To(q, "write"))
         \/ q.op = "update" /\ Step(r, Ordered(q)) /\ Formed(Ordered(q))
         \/ q.op = "delete" /\ Step(r, To(q, "track")) /\ Formed(To(q, "track"))
  BY CallsDoneStep
<1>2. \A t \in Sources : row'[t] = row[t] /\ instance'[t] = instance[t] /\ Own(t)' = Own(t)
  BY <1>1 DEF Own
<1>3. /\ s \notin torn => \A t \in Requests : t # r => request[t].source # s
      /\ s \notin torn => Lists(q, rw, own)
      /\ s \notin flawed => Matches(s, q, rw, inst, own)
  BY Current
<1>4. (s \in torn' <=> s \in torn) /\ (s \in flawed' <=> s \in flawed) /\ torn' \subseteq flawed'
  BY <1>1 DEF Fine, history, TypeOK
<1>5. /\ Over(q.urls, URLs) /\ Over(q.ids, Watches) /\ Len(q.urls) \in Nat /\ Len(q.ids) \in Nat
      /\ q.of \in [URLs -> Watches \cup {None}]
  BY <1>1, RequestFields DEF Over
<1> HIDE DEF own, rw, inst
<1>6. SUFFICES \E p : /\ Formed(p) /\ Step(r, p) /\ p.source \in {s, None}
                      /\ s \notin torn => Lists(p, rw, own)
                      /\ s \notin flawed => Matches(s, p, rw, inst, own)
  <2>1. ASSUME NEW p, Formed(p), Step(r, p), p.source \in {s, None},
               s \notin torn => Lists(p, rw, own), s \notin flawed => Matches(s, p, rw, inst, own)
        PROVE  \A t \in Sources : Sound(t)'
    <3>1. s \notin torn' => Lists(p, row'[s], Own(s)')
      BY <1>2, <1>4, <2>1 DEF own, rw
    <3>2. s \notin flawed' => Matches(s, p, row'[s], instance'[s], Own(s)')
      BY <1>2, <1>4, <2>1 DEF own, rw, inst
    <3>3. request[r].source \in {s, None} /\ (s \notin torn' => \A t \in Requests : t # r => request[t].source # s)
      BY <1>3, <1>4
    <3> QED
      BY <1>1, <1>2, <1>4, <2>1, <3>1, <3>2, <3>3, SoundStep
  <2> QED
    BY <2>1
<1>7. CASE q.op = "create" /\ q.ids = <<>> /\ Step(r, Idle)
  <2>1. s \notin torn => Lists(Idle, rw, own)
    BY <1>3, <1>7, IdleFields DEF Lists
  <2>2. ASSUME s \notin flawed
        PROVE  Matches(s, Idle, rw, inst, own)
    <3>1. /\ Matches(s, q, rw, inst, own) /\ Creating(s, q, rw, inst, own)
      BY <1>3, <1>7, <2>2 DEF Matches
    <3>2. rw.ids = <<>> /\ inst = None /\ Len(q.urls) = 0 /\ rw.urls = q.urls
      BY <1>1, <1>7, <3>1, NoPlaces DEF Creating
    <3>3. own = {}
      BY <1>7, <3>1, PairsOfNone DEF Creating
    <3>4. Settled(s, rw, inst, own)
      BY <3>2, <3>3, PairsOfNone, NoPlaces DEF Settled, Agrees
    <3> QED
      BY <3>1, <3>4, IdleFields, NoPlaces DEF Matches
  <2> QED
    BY <1>7, <2>1, <2>2, IdleFormed, IdleFields
<1>8. CASE q.op = "create" /\ q.ids # <<>> /\ Step(r, To(q, "write")) /\ Formed(To(q, "write"))
  <2> DEFINE p == To(q, "write")
  <2>1. /\ p.op = q.op /\ p.pc = "write" /\ p.source = s /\ p.urls = q.urls
        /\ p.drop = <<>> /\ p.make = <<>> /\ p.ids = q.ids
    BY <1>1, <1>8, ToFields DEF Stages
  <2>2. Formed(p) /\ Step(r, p)
    BY <1>8
  <2> HIDE DEF p
  <2>3. s \notin torn => Lists(p, rw, own)
    BY <1>3, <1>8, <2>1 DEF Lists
  <2>4. s \notin flawed => Matches(s, p, rw, inst, own)
    BY <1>1, <1>3, <1>8, <2>1 DEF Matches, Creating
  <2> QED
    BY <2>1, <2>2, <2>3, <2>4
<1>9. CASE q.op = "update" /\ Step(r, Ordered(q)) /\ Formed(Ordered(q))
  <2> DEFINE p == Ordered(q)
  <2>1. /\ p.op = q.op /\ p.pc = "track" /\ p.source = s /\ p.urls = q.urls /\ p.web = q.web
        /\ p.ids = Listed(q.urls, q.of)
    BY <1>1, <1>9, OrderedFields
  <2>2. Formed(p) /\ Step(r, p)
    BY <1>9
  <2>3. /\ \A d \in Range(p.ids) : \E u \in Range(q.urls) : d = q.of[u] /\ q.of[u] # None
        /\ (\A u \in Range(q.urls) : q.of[u] # None) =>
              p.ids = [i \in 1..Len(q.urls) |-> q.of[q.urls[i]]]
    BY <1>5, <2>1, ListedRange
  <2> HIDE DEF p
  <2>4. s \notin torn => Lists(p, rw, own)
    <3>1. ASSUME s \notin torn, NEW d \in Range(p.ids)
          PROVE  \E w \in own : w.id = d
      BY <1>1, <1>3, <1>9, <2>3, <3>1 DEF Lists
    <3> QED
      BY <1>3, <1>9, <2>1, <3>1 DEF Lists, Present
  <2>5. ASSUME s \notin flawed
        PROVE  Matches(s, p, rw, inst, own)
    <3>1. Matches(s, q, rw, inst, own) /\ Calling(s, q, rw, inst, own)
      BY <1>1, <1>3, <1>9, <2>5 DEF Matches
    <3>2. /\ \A u \in Range(q.urls) : q.of[u] # None /\ [id |-> q.of[u], url |-> u, source |-> s] \in own
          /\ \A w \in own : q.of[w.url] = w.id /\ w.url \in Range(q.urls)
      BY <1>1, <3>1, RangeOfEmpty DEF Calling
    <3>3. p.ids = [i \in 1..Len(q.urls) |-> q.of[q.urls[i]]]
      BY <2>3, <3>2
    <3>4. Len(p.ids) = Len(q.urls) /\ \A i \in 1..Len(q.urls) : p.ids[i] = q.of[q.urls[i]]
      BY <1>5, <3>3
    <3>5. /\ \A i \in 1..Len(q.urls) : q.urls[i] \in Range(q.urls)
          /\ \A u \in Range(q.urls) : \E i \in 1..Len(q.urls) : u = q.urls[i]
      BY <1>5, RangeOfSeq
    <3>6. Pairs(s, q.urls, p.ids, own)
      <4> DEFINE pairs == {[id |-> p.ids[i], url |-> q.urls[i], source |-> s] : i \in 1..Len(p.ids)}
      <4>1. ASSUME NEW w \in own
            PROVE  w \in pairs
        <5>1. PICK i \in 1..Len(q.urls) : w.url = q.urls[i]
          BY <3>2, <3>5
        <5>2. w = [id |-> q.of[q.urls[i]], url |-> q.urls[i], source |-> s]
          <6>1. w \in WatchState /\ w.source = s
            BY DEF own, Own, TypeOK
          <6>2. w.id = q.of[q.urls[i]]
            BY <3>2, <5>1
          <6> QED
            BY <5>1, <6>1, <6>2 DEF WatchState
        <5> QED
          BY <3>4, <5>1, <5>2
      <4>2. ASSUME NEW w \in pairs
            PROVE  w \in own
        BY <3>2, <3>4, <3>5
      <4>3. own = pairs
        BY <4>1, <4>2
      <4> QED
        BY <4>3 DEF Pairs
    <3>7. Listing(s, p, rw, inst, own)
      BY <2>1, <3>1, <3>4, <3>6 DEF Listing, Calling
    <3> QED
      BY <1>9, <2>1, <3>1, <3>7 DEF Matches
  <2> QED
    BY <2>1, <2>2, <2>4, <2>5
<1>10. CASE q.op = "delete" /\ Step(r, To(q, "track")) /\ Formed(To(q, "track"))
  <2> DEFINE p == To(q, "track")
  <2>1. /\ p.op = q.op /\ p.pc = "track" /\ p.source = s /\ p.urls = q.urls
        /\ p.drop = <<>>
    BY <1>1, <1>10, ToFields DEF Stages
  <2>2. Formed(p) /\ Step(r, p)
    BY <1>10
  <2> HIDE DEF p
  <2>3. s \notin torn => Lists(p, rw, own)
    BY <1>3, <1>10, <2>1 DEF Lists
  <2>4. s \notin flawed => Matches(s, p, rw, inst, own)
    BY <1>1, <1>3, <1>10, <2>1 DEF Matches, Deleting
  <2> QED
    BY <2>1, <2>2, <2>3, <2>4
<1> QED
  BY <1>1, <1>7, <1>8, <1>9, <1>10

LEMMA TrackSound ==
    ASSUME TypeOK, Shapes, \A t \in Sources : Sound(t), TypeOK',
           NEW r \in Requests, Track(r),
           NEW q, q = request[r], NEW s \in Sources, q.source = s
    PROVE  \A t \in Sources : Sound(t)'
<1> DEFINE own == Own(s)
           rw == row[s]
           inst == instance[s]
           p == To(q, "write")
           now == instance'[s]
<1>1. /\ q \in RequestState /\ Shaped(q)
      /\ q.pc = "track" /\ q.drop = <<>> /\ q.make = <<>>
      /\ UNCHANGED <<row, watch, made>> /\ (Fine \/ Tear(s))
      /\ \/ q.op = "create" /\ Step(r, Idle)
         \/ q.op \in {"update", "delete"} /\ Step(r, p) /\ Formed(p)
  BY TrackStep
<1>2. \A t \in Sources : t # s => instance'[t] = instance[t]
  BY DEF Track, TypeOK
<1>3. \A t \in Sources : row'[t] = row[t] /\ Own(t)' = Own(t)
  BY <1>1 DEF Own
<1>4. /\ s \notin torn => \A t \in Requests : t # r => request[t].source # s
      /\ s \notin torn => Lists(q, rw, own)
      /\ s \notin flawed => Matches(s, q, rw, inst, own)
  BY Current
<1>5. (s \notin torn' => s \notin torn) /\ (s \notin flawed' => s \notin flawed /\ s \notin torn)
      /\ torn' \subseteq flawed'
  BY <1>1 DEF Tear, Fine, history, TypeOK
<1>6. ASSUME s \notin flawed'
      PROVE  /\ q.op = "create" => now = IF rw.life # "gone" THEN q.ids ELSE inst
             /\ q.op = "update" => now = IF inst = None THEN None ELSE q.ids
             /\ q.op = "delete" => now = None
  <2>1. instance' = [instance EXCEPT ![s] =
           CASE q.op = "create" -> IF rw.life # "gone" THEN q.ids ELSE @
             [] q.op = "update" -> IF @ = None THEN None ELSE q.ids
             [] q.op = "delete" -> None]
    BY <1>6 DEF Track, Tear
  <2>2. now = CASE q.op = "create" -> IF rw.life # "gone" THEN q.ids ELSE inst
                [] q.op = "update" -> IF inst = None THEN None ELSE q.ids
                [] q.op = "delete" -> None
    BY <2>1 DEF TypeOK
  <2> HIDE DEF now, rw, inst
  <2> QED
    BY <2>2
<1>7. q.op \in {"update", "delete"} =>
         /\ p.op = q.op /\ p.pc = "write" /\ p.source = s /\ p.urls = q.urls /\ p.web = q.web
         /\ p.drop = <<>> /\ p.make = <<>> /\ p.ids = q.ids
  <2>1. q.op \in {"update", "delete"} => <<q.op, "write">> \in Stages /\ (q.op = "update" => q.web)
    BY <1>1, RequestFields DEF Shaped, Stages
  <2> QED
    BY <1>1, <2>1, ToFields
<1>8. q.op = "update" => q.web = TRUE
  BY <1>1, RequestFields DEF Shaped
<1>9. now = instance'[s] /\ row'[s] = rw /\ Own(s)' = own
  BY <1>3
<1> HIDE DEF own, rw, inst, p, now
<1>10. SUFFICES \E x : /\ Formed(x) /\ Step(r, x) /\ x.source \in {s, None}
                       /\ s \notin torn' => Lists(x, rw, own)
                       /\ s \notin flawed' => Matches(s, x, rw, now, own)
  <2>1. ASSUME NEW x, Formed(x), Step(r, x), x.source \in {s, None},
               s \notin torn' => Lists(x, rw, own), s \notin flawed' => Matches(s, x, rw, now, own)
        PROVE  \A t \in Sources : Sound(t)'
    <3>1. s \notin torn' => Lists(x, row'[s], Own(s)')
      BY <1>9, <2>1
    <3>2. s \notin flawed' => Matches(s, x, row'[s], instance'[s], Own(s)')
      BY <1>9, <2>1
    <3>3. request[r].source \in {s, None} /\ (s \notin torn' => \A t \in Requests : t # r => request[t].source # s)
      BY <1>4, <1>5
    <3> QED
      BY <1>1, <1>2, <1>3, <1>5, <2>1, <3>1, <3>2, <3>3, SoundStep
  <2> QED
    BY <2>1
<1>11. CASE q.op = "create" /\ Step(r, Idle)
  <2>1. s \notin torn' => Lists(Idle, rw, own)
    BY <1>4, <1>5, <1>11, IdleFields DEF Lists
  <2>2. ASSUME s \notin flawed'
        PROVE  Matches(s, Idle, rw, now, own)
    <3>1. Matches(s, q, rw, inst, own) /\ Creating(s, q, rw, inst, own)
      BY <1>4, <1>5, <1>11, <2>2 DEF Matches
    <3>2. rw.life = "kept"
      BY <1>4, <1>5, <1>11, <2>2 DEF Lists
    <3>3. now = q.ids
      BY <1>6, <1>11, <2>2, <3>2
    <3>4. rw.urls = q.urls /\ rw.web /\ rw.ids = q.ids /\ Pairs(s, q.urls, q.ids, own)
      BY <1>1, <3>1 DEF Creating
    <3>5. Len(q.ids) = Len(q.urls)
      <4>1. Len(q.ids) + 0 = Len(q.urls) /\ Len(q.ids) \in Nat
        BY <1>1, <3>1, RequestFields, NoPlaces DEF Creating
      <4> QED
        BY <4>1
    <3>6. Settled(s, rw, now, own)
      BY <3>2, <3>3, <3>4, <3>5 DEF Settled, Agrees
    <3> QED
      BY <3>1, <3>4, <3>6, IdleFields, NoPlaces DEF Matches
  <2> QED
    BY <1>11, <2>1, <2>2, IdleFormed, IdleFields
<1>12. CASE q.op \in {"update", "delete"} /\ Step(r, p) /\ Formed(p)
  <2>1. s \notin torn' => Lists(p, rw, own)
    BY <1>1, <1>4, <1>5, <1>7, <1>12 DEF Lists
  <2>2. ASSUME s \notin flawed'
        PROVE  Matches(s, p, rw, now, own)
    <3>1. Matches(s, q, rw, inst, own)
      BY <1>4, <1>5, <2>2
    <3>2. CASE q.op = "update"
      <4>1. Listing(s, q, rw, inst, own)
        BY <1>1, <3>1, <3>2 DEF Matches
      <4>2. now = IF inst = None THEN None ELSE q.ids
        BY <1>6, <2>2, <3>2
      <4>3. Listing(s, p, rw, now, own)
        BY <1>7, <1>8, <3>2, <4>1, <4>2 DEF Listing
      <4>4. ~rw.web => rw.ids = <<>> /\ now = None
        BY <3>1, <4>2 DEF Matches
      <4> QED
        BY <1>7, <3>1, <3>2, <4>3, <4>4 DEF Matches
    <3>3. CASE q.op = "delete"
      BY <1>1, <1>6, <1>7, <2>2, <3>1, <3>3 DEF Matches, Deleting
    <3> QED
      BY <1>12, <3>2, <3>3
  <2> QED
    BY <1>7, <1>12, <2>1, <2>2
<1> QED
  BY <1>1, <1>11, <1>12

LEMMA WriteSound ==
    ASSUME TypeOK, Shapes, \A t \in Sources : Sound(t), TypeOK',
           NEW r \in Requests, Write(r),
           NEW q, q = request[r], NEW s \in Sources, q.source = s
    PROVE  \A t \in Sources : Sound(t)'
<1> DEFINE own == Own(s)
           rw == row[s]
           inst == instance[s]
           p == To(q, "track")
           left == Left(q)
           now == row'[s]
<1>1. /\ q \in RequestState /\ Shaped(q)
      /\ q.pc = "write" /\ q.drop = <<>> /\ q.make = <<>>
      /\ UNCHANGED <<instance, watch, made>>
      /\ \/ row' = [row EXCEPT ![s] = left] /\ Fine
         \/ row' = row /\ Tear(s)
      /\ \/ q.op = "create" /\ Step(r, p) /\ Formed(p)
         \/ q.op \in {"update", "delete"} /\ Step(r, Idle)
  BY WriteStep
<1>2. \A t \in Sources : t # s => row'[t] = row[t]
  BY <1>1 DEF TypeOK
<1>3. \A t \in Sources : instance'[t] = instance[t] /\ Own(t)' = Own(t)
  BY <1>1 DEF Own
<1>4. /\ s \notin torn => \A t \in Requests : t # r => request[t].source # s
      /\ s \notin torn => Lists(q, rw, own)
      /\ s \notin flawed => Matches(s, q, rw, inst, own)
  BY Current
<1>5. /\ s \notin torn' => s \notin torn /\ now = left
      /\ s \notin flawed' => s \notin flawed /\ s \notin torn /\ s \notin torn'
      /\ torn' \subseteq flawed'
  <2>1. torn \subseteq flawed /\ torn' \subseteq flawed'
    BY DEF TypeOK
  <2>2. s \notin torn' => Fine /\ row' = [row EXCEPT ![s] = left]
    BY <1>1 DEF Tear
  <2>3. s \notin torn' => s \notin torn /\ now = left
    BY <2>2 DEF Fine, history, TypeOK
  <2>4. s \notin flawed' => s \notin torn'
    BY <2>1
  <2>5. s \notin flawed' => s \notin flawed
    BY <2>2, <2>4 DEF Fine, history
  <2> QED
    BY <2>1, <2>3, <2>4, <2>5
<1>6. /\ q.op = "delete" => left.life = "deleted" /\ ~left.web /\ left.urls = <<>> /\ left.ids = <<>>
      /\ q.op # "delete" /\ rw.life = "kept" =>
            left.life = "kept" /\ left.web = q.web /\ left.urls = q.urls /\ left.ids = q.ids
  BY <1>1, LeftFields DEF Kept, Written
<1>7. q.op = "create" =>
         /\ p.op = q.op /\ p.pc = "track" /\ p.source = s /\ p.urls = q.urls /\ p.web = q.web
         /\ p.drop = <<>> /\ p.make = <<>> /\ p.ids = q.ids
  BY <1>1, ToFields DEF Stages
<1>8. /\ q.op = "create" => q.web
      /\ q.op = "update" /\ ~q.web => q.ids = <<>>
  BY <1>1 DEF Shaped
<1>9. now = row'[s] /\ instance'[s] = inst /\ Own(s)' = own
  BY <1>3
<1> HIDE DEF own, rw, inst, p, now, left
<1>10. SUFFICES \E x : /\ Formed(x) /\ Step(r, x) /\ x.source \in {s, None}
                       /\ s \notin torn' => Lists(x, left, own)
                       /\ s \notin flawed' => Matches(s, x, left, inst, own)
  <2>1. ASSUME NEW x, Formed(x), Step(r, x), x.source \in {s, None},
               s \notin torn' => Lists(x, left, own), s \notin flawed' => Matches(s, x, left, inst, own)
        PROVE  \A t \in Sources : Sound(t)'
    <3>1. s \notin torn' => Lists(x, row'[s], Own(s)')
      BY <1>5, <1>9, <2>1
    <3>2. s \notin flawed' => Matches(s, x, row'[s], instance'[s], Own(s)')
      BY <1>5, <1>9, <2>1
    <3>3. request[r].source \in {s, None} /\ (s \notin torn' => \A t \in Requests : t # r => request[t].source # s)
      BY <1>4, <1>5
    <3>4. Tear(s) \/ Flaw(s) \/ Fine
      BY <1>1
    <3> QED
      BY <1>2, <1>3, <1>5, <2>1, <3>1, <3>2, <3>3, <3>4, SoundStep
  <2> QED
    BY <2>1
<1>11. CASE q.op = "create" /\ Step(r, p) /\ Formed(p)
  <2>1. ASSUME s \notin torn'
        PROVE  Lists(p, left, own)
    <3>1. Lists(q, rw, own) /\ rw.life = "kept"
      BY <1>4, <1>5, <1>11, <2>1 DEF Lists
    <3> QED
      BY <1>6, <1>7, <1>11, <3>1 DEF Lists
  <2>2. ASSUME s \notin flawed'
        PROVE  Matches(s, p, left, inst, own)
    <3>1. Matches(s, q, rw, inst, own) /\ Creating(s, q, rw, inst, own) /\ rw.life = "kept"
      BY <1>4, <1>5, <1>11, <2>2 DEF Matches, Lists
    <3>2. left.web = q.web /\ left.urls = q.urls /\ left.ids = q.ids /\ q.web
      BY <1>6, <1>8, <1>11, <3>1
    <3>3. Len(q.ids) + Len(q.make) = Len(q.urls) /\ Pairs(s, q.urls, q.ids, own) /\ inst = None
      BY <3>1 DEF Creating
    <3>4. Len(p.ids) + Len(p.make) = Len(p.urls) /\ Pairs(s, p.urls, p.ids, own)
      BY <1>1, <1>7, <1>11, <3>3
    <3>5. \A i \in 1..Len(p.make) : p.make[i] = p.urls[Len(p.ids) + i]
      BY <1>7, <1>11, NoPlaces
    <3>6. left.urls = p.urls /\ left.web /\ p.pc = "track" /\ left.ids = p.ids
      BY <1>7, <1>11, <3>2
    <3>7. Creating(s, p, left, inst, own)
      BY <3>3, <3>4, <3>5, <3>6 DEF Creating
    <3> QED
      BY <1>7, <1>11, <3>1, <3>2, <3>7 DEF Matches
  <2> QED
    BY <1>7, <1>11, <2>1, <2>2
<1>12. CASE q.op = "update" /\ Step(r, Idle)
  <2>1. ASSUME s \notin torn'
        PROVE  Lists(Idle, left, own) /\ left.life = "kept" /\ left.web = q.web
               /\ left.urls = q.urls /\ left.ids = q.ids
    <3>1. Lists(q, rw, own) /\ rw.life = "kept"
      BY <1>4, <1>5, <1>12, <2>1 DEF Lists
    <3>2. Present(q.ids, own)
      BY <1>1, <1>12, <3>1 DEF Lists
    <3>3. left.life = "kept" /\ left.web = q.web /\ left.urls = q.urls /\ left.ids = q.ids
      BY <1>6, <1>12, <3>1
    <3> QED
      BY <3>2, <3>3, IdleFields DEF Lists
  <2>2. ASSUME s \notin flawed'
        PROVE  Matches(s, Idle, left, inst, own)
    <3>1. Matches(s, q, rw, inst, own) /\ Listing(s, q, rw, inst, own)
      BY <1>1, <1>4, <1>5, <1>12, <2>2 DEF Matches
    <3>2. left.life = "kept" /\ left.web = q.web /\ left.urls = q.urls /\ left.ids = q.ids
      BY <1>5, <2>1, <2>2
    <3>3. Settled(s, left, inst, own)
      BY <1>1, <3>1, <3>2 DEF Settled, Agrees, Listing
    <3>4. ~left.web => left.ids = <<>> /\ inst = None
      BY <1>1, <1>8, <1>12, <3>1, <3>2 DEF Listing
    <3> QED
      BY <3>1, <3>2, <3>3, <3>4, IdleFields, NoPlaces DEF Matches
  <2> QED
    BY <1>12, <2>1, <2>2, IdleFormed, IdleFields
<1>13. CASE q.op = "delete" /\ Step(r, Idle)
  <2>1. /\ left.life = "deleted" /\ ~left.web /\ left.urls = <<>> /\ left.ids = <<>>
    BY <1>6, <1>13
  <2>2. Lists(Idle, left, own)
    BY <2>1, IdleFields DEF Lists
  <2>3. ASSUME s \notin flawed'
        PROVE  Matches(s, Idle, left, inst, own)
    <3>1. Deleting(q, inst, own)
      BY <1>4, <1>5, <1>13, <2>3 DEF Matches
    <3>2. own = {} /\ inst = None
      BY <1>1, <3>1, RangeOfEmpty DEF Deleting
    <3>3. Settled(s, left, inst, own)
      BY <2>1, <3>2, PairsOfNone DEF Settled, Agrees
    <3> QED
      BY <2>1, <3>2, <3>3, IdleFields, NoPlaces DEF Matches
  <2> QED
    BY <1>13, <2>2, <2>3, IdleFormed, IdleFields
<1> QED
  BY <1>1, <1>11, <1>12, <1>13

LEMMA CrashSound ==
    ASSUME TypeOK, Shapes, \A t \in Sources : Sound(t), TypeOK', Crash
    PROVE  \A t \in Sources : Sound(t)'
<1> SUFFICES ASSUME NEW s \in Sources
             PROVE  Sound(s)'
  OBVIOUS
<1>1. /\ request' = [r \in Requests |-> Idle] /\ UNCHANGED <<row, instance, watch, made>>
      /\ torn' = torn \cup {t \in Sources : Busy(t)} /\ flawed' = flawed \cup {t \in Sources : Busy(t)}
  BY DEF Crash
<1>2. \A r \in Requests : request'[r].source # s
  BY <1>1, IdleFields
<1>3. CASE Busy(s)
  <2>1. s \in torn' /\ s \in flawed'
    BY <1>1, <1>3
  <2> QED
    BY <1>2, <2>1 DEF Sound, Finds
<1>4. CASE ~Busy(s)
  <2>1. \A r \in Requests : request[r].source # s
    BY <1>4 DEF Busy
  <2>2. row'[s] = row[s] /\ instance'[s] = instance[s] /\ Own(s)' = Own(s)
    BY <1>1 DEF Own
  <2>3. (s \in torn => s \in torn') /\ (s \in flawed => s \in flawed')
    BY <1>1
  <2> QED
    BY <1>2, <2>1, <2>2, <2>3, Elsewhere
<1> QED
  BY <1>3, <1>4

LEMMA DeleteProjectSound ==
    ASSUME TypeOK, Shapes, \A t \in Sources : Sound(t), TypeOK', DeleteProject
    PROVE  \A t \in Sources : Sound(t)'
<1> SUFFICES ASSUME NEW s \in Sources
             PROVE  Sound(s)'
  OBVIOUS
<1> DEFINE own == Own(s)
           now == row'[s]
<1>1. /\ row' = [t \in Sources |-> IF row[t].life = "unused" THEN NoRow ELSE [NoRow EXCEPT !.life = "gone"]]
      /\ instance' = [t \in Sources |-> None] /\ UNCHANGED <<watch, made, request>>
      /\ torn' = torn \cup {t \in Sources : Kept(t)} /\ flawed' = flawed \cup {t \in Sources : Kept(t)}
  BY DEF DeleteProject
<1>2. instance'[s] = None /\ own = Own(s)'
  BY <1>1 DEF Own
<1>3. CASE Kept(s)
  <2>1. s \in torn' /\ s \in flawed'
    BY <1>1, <1>3
  <2> QED
    BY <2>1 DEF Sound, Finds
<1>4. CASE ~Kept(s)
  <2>1. now.life # "kept" /\ ~now.web /\ now.urls = <<>> /\ now.ids = <<>>
    BY <1>1 DEF NoRow
  <2>2. row[s].ids = <<>>
    BY <1>4 DEF Shapes, NoRow
  <2>3. s \notin torn => ~Busy(s)
    <3>1. ASSUME s \notin torn, NEW r \in Requests, request[r].source = s
          PROVE  FALSE
      <4>1. Lists(request[r], row[s], own) /\ Formed(request[r])
        BY <3>1 DEF Sound, Finds, Shapes
      <4>2. request[r] # Idle
        BY <3>1, IdleFields
      <4>3. request[r].op # "none"
        BY <4>1, <4>2, OnlyIdle
      <4> QED
        BY <1>4, <4>1, <4>3 DEF Lists, Kept
    <3> QED
      BY <3>1 DEF Busy
  <2>4. (s \notin torn' => s \notin torn) /\ (s \notin flawed' => s \notin flawed /\ s \notin torn)
    BY <1>1 DEF TypeOK
  <2>5. (Busy(s)' <=> Busy(s)) /\ \A r \in Requests : request'[r] = request[r]
    BY <1>1 DEF Busy
  <2> HIDE DEF own, now
  <2>6. Lists(Idle, now, own)
    BY <2>1, IdleFields DEF Lists
  <2>7. s \notin flawed => Matches(s, Idle, now, None, own)
    <3>1. ASSUME s \notin flawed
          PROVE  own = {}
      <4>1. ~Busy(s)
        BY <2>3, <3>1 DEF TypeOK
      <4>2. Settled(s, row[s], instance[s], own)
        BY <3>1, <4>1, Before DEF own
      <4> QED
        BY <2>2, <4>2, PairsOfNone DEF Settled
    <3>2. s \notin flawed => Settled(s, now, None, own)
      BY <2>1, <3>1, PairsOfNone DEF Settled, Agrees
    <3> QED
      BY <2>1, <3>2, IdleFields, NoPlaces DEF Matches
  <2>8. Idle' = Idle
    BY DEF Idle, NoWatch
  <2>9. Finds(s, Idle)'
    BY <1>2, <2>4, <2>6, <2>7, <2>8 DEF Finds, now
  <2>10. ASSUME NEW r \in Requests, request'[r].source = s
         PROVE  s \in torn' /\ s \in flawed'
    BY <2>3, <2>4, <2>5, <2>10 DEF Busy
  <2>11. \A r \in Requests : request'[r].source = s => Finds(s, request[r])'
    BY <2>10 DEF Finds
  <2>12. s \notin torn' => \A r \in Requests : request'[r].source = s => Alone(r, s)'
    BY <2>10
  <2> QED
    BY <2>9, <2>11, <2>12 DEF Sound
<1> QED
  BY <1>3, <1>4

-----------------------------------------------------------------------------
(***************************************************************************)
(* The theorems.                                                           *)
(***************************************************************************)

LEMMA InitInv == Init => WatchInv
<1> SUFFICES ASSUME Init
             PROVE  WatchInv
  OBVIOUS
<1> USE DEF Init
<1>1. /\ \A r \in Requests : request[r] = Idle
      /\ \A s \in Sources : row[s] = NoRow /\ instance[s] = None /\ Own(s) = {}
  BY DEF Own
<1>2. TypeOK
  <2>1. /\ row \in [Sources -> RowState] /\ request \in [Requests -> RequestState]
        /\ instance \in [Sources -> Seq(Watches) \cup {None}]
    BY IdleFormed
  <2>2. watch \subseteq WatchState /\ torn \subseteq flawed /\ flawed \subseteq Sources
    OBVIOUS
  <2>3. made \in 0..MaxWatch
    BY UrlsAssumption
  <2> QED
    BY <2>1, <2>2, <2>3 DEF TypeOK
<1>3. Shapes
  BY <1>1, IdleFormed DEF Shapes, NoRow
<1>4. Owned
  <2>1. \A s \in Sources : Range(row[s].ids) = {}
    BY <1>1, RangeOfEmpty DEF NoRow
  <2> QED
    BY <1>1, <2>1, HandledIdle DEF Owned
<1>5. ASSUME NEW s \in Sources
      PROVE  Sound(s)
  <2>1. \A r \in Requests : request[r].source # s
    BY <1>1, IdleFields
  <2>2. NoRow.life = "unused" /\ ~NoRow.web /\ NoRow.urls = <<>> /\ NoRow.ids = <<>>
    BY DEF NoRow
  <2>3. Lists(Idle, NoRow, {})
    BY <2>2, IdleFields DEF Lists
  <2>4. Settled(s, NoRow, None, {})
    BY <2>2, PairsOfNone DEF Settled, Agrees
  <2>5. Matches(s, Idle, NoRow, None, {})
    BY <2>2, <2>4, IdleFields, NoPlaces DEF Matches
  <2>6. Finds(s, Idle)
    BY <1>1, <2>3, <2>5 DEF Finds
  <2> QED
    BY <2>1, <2>6 DEF Sound
<1> QED
  BY <1>2, <1>3, <1>4, <1>5 DEF WatchInv

LEMMA StutterInv ==
    ASSUME WatchInv, UNCHANGED vars
    PROVE  WatchInv'
<1>1. /\ row' = row /\ instance' = instance /\ watch' = watch /\ made' = made
      /\ request' = request /\ torn' = torn /\ flawed' = flawed
  BY DEF vars
<1>2. TypeOK'
  BY <1>1 DEF WatchInv, TypeOK
<1>3. Shapes'
  BY <1>1 DEF WatchInv, Shapes, Kept
<1>4. Owned'
  BY <1>1 DEF WatchInv, Owned, Mine
<1>5. ASSUME NEW s \in Sources
      PROVE  Sound(s)'
  <2>1. Sound(s) /\ Own(s)' = Own(s)
    BY <1>1 DEF WatchInv, Own
  <2> QED
    BY <1>1, <2>1, Elsewhere
<1> QED
  BY <1>2, <1>3, <1>4, <1>5 DEF WatchInv

\* Every step keeps the invariant.
LEMMA StepInv == WatchInv /\ [Next]_vars => WatchInv'
<1> SUFFICES ASSUME WatchInv, [Next]_vars
             PROVE  WatchInv'
  OBVIOUS
<1>1. TypeOK /\ Shapes /\ Owned /\ \A s \in Sources : Sound(s)
  BY DEF WatchInv
<1>2. (TypeOK' /\ Shapes' /\ Owned' /\ \A t \in Sources : Sound(t)') => WatchInv'
  BY DEF WatchInv
<1>3. ASSUME NEW r \in Requests, NEW s \in Sources, NEW urls \in UrlLists, NEW web \in BOOLEAN,
             Create(r, s, urls, web)
      PROVE  TypeOK' /\ Shapes' /\ Owned' /\ \A t \in Sources : Sound(t)'
  <2>1. TypeOK' /\ Shapes' /\ Owned'
    BY <1>1, <1>3, CreateTypes, CreateOwned
  <2> QED
    BY <1>1, <1>3, <2>1, CreateSound
<1>4. ASSUME NEW r \in Requests, NEW s \in Sources, NEW urls \in UrlLists, NEW web \in BOOLEAN,
             Update(r, s, urls, web)
      PROVE  TypeOK' /\ Shapes' /\ Owned' /\ \A t \in Sources : Sound(t)'
  <2>1. TypeOK' /\ Shapes' /\ Owned'
    BY <1>1, <1>4, UpdateTypes, UpdateOwned
  <2> QED
    BY <1>1, <1>4, <2>1, UpdateSound
<1>5. ASSUME NEW r \in Requests, NEW s \in Sources, Delete(r, s)
      PROVE  TypeOK' /\ Shapes' /\ Owned' /\ \A t \in Sources : Sound(t)'
  <2>1. TypeOK' /\ Shapes' /\ Owned'
    BY <1>1, <1>5, DeleteTypes, DeleteOwned
  <2> QED
    BY <1>1, <1>5, <2>1, DeleteSound
<1>6. ASSUME NEW r \in Requests, ReadOld(r)
      PROVE  TypeOK' /\ Shapes' /\ Owned' /\ \A t \in Sources : Sound(t)'
  <2>1. TypeOK' /\ Shapes' /\ Owned'
    BY <1>1, <1>6, ReadOldTypes, ReadOldOwned
  <2> QED
    BY <1>1, <1>6, <2>1, ReadOldSound
<1>7. ASSUME NEW r \in Requests, DropWatch(r)
      PROVE  TypeOK' /\ Shapes' /\ Owned' /\ \A t \in Sources : Sound(t)'
  <2>1. TypeOK' /\ Shapes' /\ Owned'
    BY <1>1, <1>7, DropWatchTypes, DropWatchOwned
  <2>2. request[r].source \in Sources
    BY <1>1, <1>7, AtStage DEF DropWatch
  <2> QED
    BY <1>1, <1>7, <2>1, <2>2, DropWatchSound
<1>8. ASSUME NEW r \in Requests, MakeWatch(r)
      PROVE  TypeOK' /\ Shapes' /\ Owned' /\ \A t \in Sources : Sound(t)'
  <2>1. TypeOK' /\ Shapes' /\ Owned'
    BY <1>1, <1>8, MakeWatchTypes, MakeWatchOwned
  <2>2. request[r].source \in Sources
    BY <1>1, <1>8, AtStage DEF MakeWatch
  <2> QED
    BY <1>1, <1>8, <2>1, <2>2, MakeWatchSound
<1>9. ASSUME NEW r \in Requests, CallsDone(r)
      PROVE  TypeOK' /\ Shapes' /\ Owned' /\ \A t \in Sources : Sound(t)'
  <2>1. TypeOK' /\ Shapes' /\ Owned'
    BY <1>1, <1>9, CallsDoneTypes, CallsDoneOwned
  <2>2. request[r].source \in Sources
    BY <1>1, <1>9, AtStage DEF CallsDone
  <2> QED
    BY <1>1, <1>9, <2>1, <2>2, CallsDoneSound
<1>10. ASSUME NEW r \in Requests, Track(r)
       PROVE  TypeOK' /\ Shapes' /\ Owned' /\ \A t \in Sources : Sound(t)'
  <2>1. TypeOK' /\ Shapes' /\ Owned'
    BY <1>1, <1>10, TrackTypes, TrackOwned
  <2>2. request[r].source \in Sources
    BY <1>1, <1>10, AtStage DEF Track
  <2> QED
    BY <1>1, <1>10, <2>1, <2>2, TrackSound
<1>11. ASSUME NEW r \in Requests, Write(r)
       PROVE  TypeOK' /\ Shapes' /\ Owned' /\ \A t \in Sources : Sound(t)'
  <2>1. TypeOK' /\ Shapes' /\ Owned'
    BY <1>1, <1>11, WriteTypes, WriteOwned
  <2>2. request[r].source \in Sources
    BY <1>1, <1>11, AtStage DEF Write
  <2> QED
    BY <1>1, <1>11, <2>1, <2>2, WriteSound
<1>12. ASSUME Crash
       PROVE  TypeOK' /\ Shapes' /\ Owned' /\ \A t \in Sources : Sound(t)'
  <2>1. TypeOK' /\ Shapes' /\ Owned'
    BY <1>1, <1>12, CrashTypes, CrashOwned
  <2> QED
    BY <1>1, <1>12, <2>1, CrashSound
<1>13. ASSUME DeleteProject
       PROVE  TypeOK' /\ Shapes' /\ Owned' /\ \A t \in Sources : Sound(t)'
  <2>1. TypeOK' /\ Shapes' /\ Owned'
    BY <1>1, <1>13, DeleteProjectTypes, DeleteProjectOwned
  <2> QED
    BY <1>1, <1>13, <2>1, DeleteProjectSound
<1>14. CASE UNCHANGED vars
  BY <1>14, StutterInv
<1> QED
  BY <1>2, <1>3, <1>4, <1>5, <1>6, <1>7, <1>8, <1>9, <1>10, <1>11, <1>12, <1>13, <1>14 DEF Next

\* A source that has no request under way, and is not torn, lists what exists.
LEMMA ListedFollows == WatchInv => ListedExist
<1> SUFFICES ASSUME WatchInv, NEW s \in Sources, Kept(s), ~Busy(s), s \notin torn,
                    NEW d \in Range(row[s].ids)
             PROVE  Exists(d)
  BY DEF ListedExist
<1>1. Present(row[s].ids, Own(s))
  BY Before DEF WatchInv
<1> QED
  BY <1>1 DEF Present, Own, Exists

LEMMA MatchFollows == WatchInv => WatchesMatch
<1> SUFFICES ASSUME WatchInv, NEW s \in Sources, ~Busy(s), s \notin flawed
             PROVE  /\ Pairs(s, row[s].urls, row[s].ids, Own(s))
                    /\ Kept(s) /\ row[s].web => Len(row[s].ids) = Len(row[s].urls)
                    /\ InstanceMatches(s)
  BY DEF WatchesMatch, Pairs, Own
<1>1. Settled(s, row[s], instance[s], Own(s))
  BY Before DEF WatchInv
<1> QED
  BY <1>1 DEF Settled, Agrees, InstanceMatches, Kept

LEMMA InvHolds == Spec => []WatchInv
BY InitInv, StepInv, PTL DEF Spec

\* Rows, instances, watches and requests have their types, whatever calls and
\* statements fail and however requests interleave.
THEOREM WatchTypes == Spec => []TypeOK
<1>1. WatchInv => TypeOK
  BY DEF WatchInv
<1> QED
  BY <1>1, InvHolds, PTL

\* Reconciliation leaves no row that lists a watch deleted by the same update, and
\* creation none that was not made: the row of a source that is kept lists watches
\* that exist, as long as its requests were not cut short and did not overlap, and
\* its addresses did not share a watch.
THEOREM ListedWatchesExist == Spec => []ListedExist
BY InvHolds, ListedFollows, PTL

\* Without a flaw the watches of a source at changedetection.io are those of its
\* row, one for each address in its order, through creation, reconciliation with
\* any new list, deletion, and the interleaving with requests for other sources.
THEOREM WatchesAreMatched == Spec => []WatchesMatch
BY InvHolds, MatchFollows, PTL
=============================================================================
