---------------------- MODULE ProcessingPipelineProofs ----------------------
(***************************************************************************)
(* The theorems about ProcessingPipeline.                                  *)
(***************************************************************************)
EXTENDS ProcessingPipeline, WellFoundedInduction, TLAPS

-----------------------------------------------------------------------------
(***************************************************************************)
(* Loops.                                                                  *)
(***************************************************************************)

\* A number that is not in order has a first one before it.
LEMMA First ==
    ASSUME NEW T \in SUBSET Nat, T # {}
    PROVE  \E m \in T : \A k \in T : ~(k < m)
<1>1. PICK m \in T : \A k \in T : <<k, m>> \notin OpToRel(<, Nat)
  BY WFMin, NatLessThanWellFounded
<1>2. ASSUME NEW k \in T, k < m
      PROVE  FALSE
  <2>1. k \in Nat /\ m \in Nat
    OBVIOUS
  <2>2. <<k, m>> \in OpToRel(<, Nat)
    BY <1>2, <2>1, SMT DEF OpToRel
  <2> QED
    BY <1>1, <2>2
<1> QED
  BY <1>2

\* What holds before a loop and is kept by each turn holds after every turn.
LEMMA Holds ==
    ASSUME NEW N \in Nat, NEW J, NEW f, f[0] \in J[0],
           \A n \in 1..N : f[n - 1] \in J[n - 1] => f[n] \in J[n]
    PROVE  \A n \in 0..N : f[n] \in J[n]
<1> SUFFICES ASSUME NEW b \in 0..N, f[b] \notin J[b]
             PROVE  FALSE
  OBVIOUS
<1> DEFINE Bad == {n \in 0..N : f[n] \notin J[n]}
<1>1. PICK m \in Bad : \A k \in Bad : ~(k < m)
  <2>1. Bad \in SUBSET Nat /\ Bad # {}
    OBVIOUS
  <2> HIDE DEF Bad
  <2> QED
    BY <2>1, First
<1>2. m \in 0..N /\ f[m] \notin J[m]
  OBVIOUS
<1>3. m \in 1..N /\ m - 1 \in 0..N /\ m - 1 < m
  BY <1>2
<1>4. f[m - 1] \in J[m - 1]
  BY <1>1, <1>3
<1> QED
  BY <1>2, <1>3, <1>4

\* The values of a loop after each of its N turns.
Loops(f, N, D, base, turn) ==
    f \in [0..N -> D] /\ f[0] = base /\ \A n \in 1..N : f[n] = turn[n][f[n - 1]]

\* A loop has a value after every turn.
LEMMA Loop ==
    ASSUME NEW N, N \in Nat, NEW D, NEW base, base \in D, NEW turn, turn \in [1..N -> [D -> D]]
    PROVE  \E f : Loops(f, N, D, base, turn)
<1> DEFINE Done(m) == \E f \in [0..m -> D] : f[0] = base /\ \A n \in 1..m : f[n] = turn[n][f[n - 1]]
           Bad == {m \in 0..N : ~Done(m)}
<1>1. SUFFICES ASSUME Bad # {}
               PROVE  FALSE
  <2>1. ~Done(N) => N \in Bad
    OBVIOUS
  <2> QED
    BY <2>1 DEF Loops
<1>2. PICK m \in Bad : \A k \in Bad : ~(k < m)
  <2>1. Bad \in SUBSET Nat
    OBVIOUS
  <2> HIDE DEF Bad
  <2> QED
    BY <1>1, <2>1, First
<1>3. m \in 0..N /\ ~Done(m)
  OBVIOUS
<1>4. Done(0)
  <2> DEFINE f == [n \in 0..0 |-> base]
  <2>1. f \in [0..0 -> D] /\ f[0] = base
    OBVIOUS
  <2>2. \A n \in 1..0 : FALSE
    OBVIOUS
  <2> HIDE DEF f
  <2> QED
    BY <2>1, <2>2
<1>5. m \in 1..N /\ m - 1 \in 0..N /\ m - 1 < m
  <2> HIDE DEF Done
  <2> QED
    BY <1>3, <1>4
<1>6. Done(m - 1)
  <2> HIDE DEF Done
  <2> QED
    BY <1>2, <1>5
<1>7. PICK f \in [0..(m - 1) -> D] : f[0] = base /\ \A n \in 1..(m - 1) : f[n] = turn[n][f[n - 1]]
  BY <1>6
<1> DEFINE g == [n \in 0..m |-> IF n = m THEN turn[m][f[m - 1]] ELSE f[n]]
<1>8. g \in [0..m -> D]
  <2>1. turn[m] \in [D -> D] /\ f[m - 1] \in D
    BY <1>5, <1>7
  <2>2. turn[m][f[m - 1]] \in D
    BY <2>1
  <2>3. \A n \in 0..m : n # m => f[n] \in D
    BY <1>5, <1>7
  <2> QED
    BY <2>2, <2>3
<1>9. g[0] = base
  BY <1>5, <1>7
<1>10. ASSUME NEW n \in 1..m
       PROVE  g[n] = turn[n][g[n - 1]]
  <2>1. n - 1 \in 0..m /\ n - 1 # m /\ g[n - 1] = f[n - 1]
    BY <1>5, <1>10
  <2>2. CASE n = m
    BY <2>1, <2>2
  <2>3. CASE n # m
    BY <1>5, <1>7, <2>1, <2>3
  <2> QED
    BY <2>2, <2>3
<1>11. Done(m)
  <2> HIDE DEF g
  <2> QED
    BY <1>8, <1>9, <1>10
<1> QED
  BY <1>3, <1>11

-----------------------------------------------------------------------------
(***************************************************************************)
(* Lists.                                                                  *)
(***************************************************************************)

Over(s, X) == s \in Seq(X)

LEMMA ListFacts ==
    ASSUME NEW X, NEW s, Over(s, X)
    PROVE  /\ Len(s) \in Nat /\ DOMAIN s = 1..Len(s)
           /\ \A i \in 1..Len(s) : s[i] \in X /\ s[i] \in Range(s)
           /\ \A x \in Range(s) : x \in X /\ \E i \in 1..Len(s) : x = s[i]
<1>1. Len(s) \in Nat /\ DOMAIN s = 1..Len(s) /\ \A i \in 1..Len(s) : s[i] \in X
  BY DEF Over
<1>2. \A i \in 1..Len(s) : s[i] \in Range(s)
  BY <1>1 DEF Range
<1>3. \A x \in Range(s) : \E i \in 1..Len(s) : x = s[i]
  BY <1>1 DEF Range
<1> QED
  BY <1>1, <1>2, <1>3

LEMMA EmptyList ==
    /\ Len(<<>>) = 0 /\ Range(<<>>) = {} /\ IsInjective(<<>>)
    /\ \A X : Over(<<>>, X)
BY DEF Range, IsInjective, Over

\* A list that grows by one.
LEMMA ListGrows ==
    ASSUME NEW X, NEW s, Over(s, X), NEW x \in X
    PROVE  /\ Over(Append(s, x), X) /\ Len(Append(s, x)) = Len(s) + 1
           /\ Append(s, x)[Len(s) + 1] = x /\ \A i \in 1..Len(s) : Append(s, x)[i] = s[i]
           /\ \A y : y \in Range(Append(s, x)) <=> y \in Range(s) \/ y = x
           /\ IsInjective(s) /\ x \notin Range(s) => IsInjective(Append(s, x))
<1> DEFINE t == Append(s, x)
<1>1. /\ Over(t, X) /\ Len(t) = Len(s) + 1 /\ Len(s) \in Nat
      /\ t[Len(s) + 1] = x /\ \A i \in 1..Len(s) : t[i] = s[i]
  BY DEF Over
<1> HIDE DEF t
<1>2. /\ \A i \in 1..Len(s) : s[i] \in Range(s)
      /\ \A y \in Range(s) : \E i \in 1..Len(s) : y = s[i]
      /\ \A i \in 1..Len(t) : t[i] \in Range(t)
      /\ \A y \in Range(t) : \E i \in 1..Len(t) : y = t[i]
      /\ DOMAIN t = 1..Len(t) /\ DOMAIN s = 1..Len(s)
  BY <1>1, ListFacts
<1>3. ASSUME NEW y \in Range(t)
      PROVE  y \in Range(s) \/ y = x
  <2>1. PICK i \in 1..Len(t) : y = t[i]
    BY <1>2
  <2>2. i \in 1..Len(s) \/ i = Len(s) + 1
    BY <1>1, <2>1
  <2> QED
    BY <1>1, <1>2, <2>1, <2>2
<1>4. ASSUME NEW y, y \in Range(s) \/ y = x
      PROVE  y \in Range(t)
  <2>1. CASE y = x
    BY <1>1, <1>2, <2>1
  <2>2. CASE y \in Range(s)
    <3>1. PICK i \in 1..Len(s) : y = s[i]
      BY <1>2, <2>2
    <3>2. i \in 1..Len(t) /\ y = t[i]
      BY <1>1, <3>1
    <3> QED
      BY <1>2, <3>2
  <2> QED
    BY <1>4, <2>1, <2>2
<1>5. ASSUME IsInjective(s), x \notin Range(s)
      PROVE  IsInjective(t)
  <2>1. ASSUME NEW i \in 1..Len(t), NEW j \in 1..Len(t), t[i] = t[j]
        PROVE  i = j
    <3>1. /\ i \in 1..Len(s) \/ i = Len(s) + 1
          /\ j \in 1..Len(s) \/ j = Len(s) + 1
      BY <1>1
    <3>2. \A k \in 1..Len(s) : t[k] # x
      BY <1>1, <1>2, <1>5
    <3>3. i \in 1..Len(s) /\ j \in 1..Len(s) => i = j
      BY <1>1, <1>2, <1>5, <2>1 DEF IsInjective
    <3> QED
      BY <1>1, <2>1, <3>1, <3>2, <3>3
  <2> QED
    BY <1>2, <2>1 DEF IsInjective
<1> QED
  BY <1>1, <1>3, <1>4, <1>5 DEF t

-----------------------------------------------------------------------------
(***************************************************************************)
(* The filters.                                                            *)
(***************************************************************************)

\* A loop that appends the members of a list that are in a set.
LEMMA ChosenLoop ==
    ASSUME NEW X, NEW list \in Seq(X), NEW set
    PROVE  \E f :
              /\ f[0] = <<>> /\ Chosen(list, set) = f[Len(list)]
              /\ \A n \in 1..Len(list) :
                    f[n] = IF list[n] \in set THEN Append(f[n - 1], list[n]) ELSE f[n - 1]
<1> DEFINE N == Len(list)
           Is(f) == f = [n \in 0..N |->
                            IF n = 0 THEN <<>>
                            ELSE IF list[n] \in set THEN Append(f[n - 1], list[n]) ELSE f[n - 1]]
           turn == [n \in 1..N |->
                      [s \in Seq(X) |-> IF list[n] \in set THEN Append(s, list[n]) ELSE s]]
<1>1. turn \in [1..N -> [Seq(X) -> Seq(X)]]
  <2>1. \A n \in 1..N : list[n] \in X
    OBVIOUS
  <2>2. ASSUME NEW n \in 1..N, NEW s \in Seq(X)
        PROVE  (IF list[n] \in set THEN Append(s, list[n]) ELSE s) \in Seq(X)
    BY <2>1
  <2> QED
    BY <2>2
<1>2. PICK f \in [0..N -> Seq(X)] : f[0] = <<>> /\ \A n \in 1..N : f[n] = turn[n][f[n - 1]]
  <2> DEFINE D == Seq(X)
             base == <<>>
  <2>1. N \in Nat /\ base \in D /\ turn \in [1..N -> [D -> D]]
    BY <1>1
  <2> HIDE DEF turn, N, D, base
  <2>2. \E f : Loops(f, N, D, base, turn)
    BY <2>1, Loop
  <2> QED
    BY <2>2 DEF Loops, D, base
<1>3. \A n \in 1..N : f[n] = IF list[n] \in set THEN Append(f[n - 1], list[n]) ELSE f[n - 1]
  <2>1. \A n \in 1..N : n - 1 \in 0..N
    OBVIOUS
  <2>2. \A n \in 1..N : f[n - 1] \in Seq(X)
    BY <2>1
  <2> QED
    BY <1>2, <2>2
<1>4. Is(f)
  <2> DEFINE g == [n \in 0..N |->
                      IF n = 0 THEN <<>>
                      ELSE IF list[n] \in set THEN Append(f[n - 1], list[n]) ELSE f[n - 1]]
  <2>1. ASSUME NEW n \in 0..N
        PROVE  f[n] = g[n]
    <3>1. CASE n = 0
      BY <1>2, <3>1
    <3>2. CASE n # 0
      <4>1. n \in 1..N
        BY <3>2
      <4> QED
        BY <1>3, <3>2, <4>1
    <3> QED
      BY <3>1, <3>2
  <2>2. f = [n \in 0..N |-> f[n]] /\ g = [n \in 0..N |-> g[n]]
    OBVIOUS
  <2> HIDE DEF g
  <2>3. f = g
    BY <2>1, <2>2
  <2> QED
    BY <2>3 DEF g
<1> DEFINE F == CHOOSE g : Is(g)
<1>5. Is(F)
  <2> HIDE DEF Is
  <2> QED
    BY <1>4
<1>6. Chosen(list, set) = F[N]
  BY DEF Chosen
<1> HIDE DEF F
<1>7. /\ F[0] = <<>>
      /\ \A n \in 1..N : F[n] = IF list[n] \in set THEN Append(F[n - 1], list[n]) ELSE F[n - 1]
  <2>1. 0 \in 0..N /\ \A n \in 1..N : n \in 0..N /\ n # 0
    OBVIOUS
  <2> QED
    BY <1>5, <2>1
<1> QED
  BY <1>6, <1>7

\* It keeps their order, and leaves out only what is not in the set.
LEMMA ChosenMembers ==
    ASSUME NEW X, NEW list, Over(list, X), NEW set
    PROVE  /\ Over(Chosen(list, set), X)
           /\ \A x : x \in Range(Chosen(list, set)) <=> x \in Range(list) /\ x \in set
           /\ IsInjective(list) => IsInjective(Chosen(list, set))
           /\ (\A x \in Range(list) : x \in set) => Chosen(list, set) = list
<1> DEFINE N == Len(list)
           Part(s, n) ==
              /\ Over(s, X)
              /\ \A x : x \in Range(s) <=> x \in set /\ \E k \in 1..n : x = list[k]
              /\ IsInjective(list) => IsInjective(s)
              /\ (\A k \in 1..N : list[k] \in set) => Len(s) = n /\ \A k \in 1..n : s[k] = list[k]
           J == [n \in 0..N |-> {s \in Seq(X) : Part(s, n)}]
<1>1. /\ N \in Nat /\ DOMAIN list = 1..N
      /\ \A i \in 1..N : list[i] \in X /\ list[i] \in Range(list)
      /\ \A x \in Range(list) : x \in X /\ \E i \in 1..N : x = list[i]
  BY ListFacts
<1>2. PICK f : /\ f[0] = <<>> /\ Chosen(list, set) = f[N]
               /\ \A n \in 1..N :
                     f[n] = IF list[n] \in set THEN Append(f[n - 1], list[n]) ELSE f[n - 1]
  BY ChosenLoop DEF Over
<1> HIDE DEF N
<1>3. Part(<<>>, 0)
  BY EmptyList
<1>4. ASSUME NEW n \in 1..N, NEW s, Part(s, n - 1)
      PROVE  Part(IF list[n] \in set THEN Append(s, list[n]) ELSE s, n)
  <2>1. /\ n \in Nat /\ n - 1 \in Nat /\ list[n] \in X
        /\ \A k \in 1..n : k \in 1..(n - 1) \/ k = n
        /\ \A k \in 1..(n - 1) : k \in 1..n /\ k \in 1..N /\ k # n
    BY <1>1
  <2>2. CASE list[n] \notin set
    <3>1. \A x : x \in Range(s) <=> x \in set /\ \E k \in 1..n : x = list[k]
      BY <1>4, <2>1, <2>2
    <3> QED
      BY <1>4, <2>2, <3>1
  <2>3. CASE list[n] \in set
    <3> DEFINE t == Append(s, list[n])
    <3>1. /\ Over(t, X) /\ Len(t) = Len(s) + 1
          /\ t[Len(s) + 1] = list[n] /\ \A i \in 1..Len(s) : t[i] = s[i]
          /\ \A y : y \in Range(t) <=> y \in Range(s) \/ y = list[n]
          /\ IsInjective(s) /\ list[n] \notin Range(s) => IsInjective(t)
      BY <1>4, <2>1, ListGrows
    <3> HIDE DEF t
    <3>2. \A x : x \in Range(t) <=> x \in set /\ \E k \in 1..n : x = list[k]
      BY <1>4, <2>1, <2>3, <3>1
    <3>3. IsInjective(list) => list[n] \notin Range(s)
      BY <1>1, <1>4, <2>1 DEF IsInjective
    <3>4. (\A k \in 1..N : list[k] \in set) => Len(t) = n /\ \A k \in 1..n : t[k] = list[k]
      BY <1>4, <2>1, <3>1
    <3> QED
      BY <1>4, <2>3, <3>1, <3>2, <3>3, <3>4 DEF t
  <2> QED
    BY <2>2, <2>3
<1>5. \A n \in 0..N : f[n] \in J[n]
  <2>1. f[0] \in J[0]
    <3>1. 0 \in 0..N /\ <<>> \in {s \in Seq(X) : Part(s, 0)}
      BY <1>1, <1>3
    <3> HIDE DEF Part
    <3> QED
      BY <1>2, <3>1
  <2>2. ASSUME NEW n \in 1..N, f[n - 1] \in J[n - 1]
        PROVE  f[n] \in J[n]
    <3>1. n - 1 \in 0..N /\ n \in 0..N
      BY <1>1
    <3>2. f[n - 1] \in Seq(X) /\ Part(f[n - 1], n - 1)
      <4> HIDE DEF Part
      <4> QED
        BY <2>2, <3>1
    <3>3. Part(f[n], n)
      <4>1. f[n] = IF list[n] \in set THEN Append(f[n - 1], list[n]) ELSE f[n - 1]
        BY <1>2
      <4> HIDE DEF Part
      <4> QED
        BY <1>4, <3>2, <4>1
    <3>4. f[n] \in Seq(X)
      BY <3>3 DEF Over
    <3> HIDE DEF Part
    <3> QED
      BY <3>1, <3>3, <3>4
  <2> HIDE DEF J
  <2> QED
    BY <1>1, <2>1, <2>2, Holds
<1>6. Part(f[N], N)
  <2>1. N \in 0..N
    BY <1>1
  <2> HIDE DEF Part
  <2> QED
    BY <1>5, <2>1
<1> DEFINE c == Chosen(list, set)
<1>7. Part(c, N)
  <2> HIDE DEF Part
  <2> QED
    BY <1>2, <1>6
<1> HIDE DEF c
<1>8. \A x : x \in Range(c) <=> x \in Range(list) /\ x \in set
  BY <1>1, <1>7
<1>9. ASSUME \A x \in Range(list) : x \in set
      PROVE  c = list
  <2>1. Over(c, X) /\ Len(c) = N /\ \A k \in 1..N : c[k] = list[k]
    BY <1>1, <1>7, <1>9
  <2> QED
    BY <2>1 DEF Over, N
<1> QED
  BY <1>7, <1>8, <1>9 DEF c

\* A loop that appends what is new.
LEMMA TagsLoop ==
    ASSUME NEW X, NEW old \in Seq(X), NEW list \in Seq(X)
    PROVE  \E f :
              /\ f[0] = old /\ WithTags(old, list) = f[Len(list)]
              /\ \A n \in 1..Len(list) :
                    f[n] = IF list[n] \in Range(f[n - 1]) THEN f[n - 1]
                           ELSE Append(f[n - 1], list[n])
<1> DEFINE N == Len(list)
           Is(f) == f = [n \in 0..N |->
                            IF n = 0 THEN old
                            ELSE IF list[n] \in Range(f[n - 1]) THEN f[n - 1]
                            ELSE Append(f[n - 1], list[n])]
           turn == [n \in 1..N |->
                      [s \in Seq(X) |-> IF list[n] \in Range(s) THEN s ELSE Append(s, list[n])]]
<1>1. turn \in [1..N -> [Seq(X) -> Seq(X)]]
  <2>1. \A n \in 1..N : list[n] \in X
    OBVIOUS
  <2>2. ASSUME NEW n \in 1..N, NEW s \in Seq(X)
        PROVE  (IF list[n] \in Range(s) THEN s ELSE Append(s, list[n])) \in Seq(X)
    BY <2>1
  <2> QED
    BY <2>2
<1>2. PICK f \in [0..N -> Seq(X)] : f[0] = old /\ \A n \in 1..N : f[n] = turn[n][f[n - 1]]
  <2> DEFINE D == Seq(X)
             base == old
  <2>1. N \in Nat /\ base \in D /\ turn \in [1..N -> [D -> D]]
    BY <1>1
  <2> HIDE DEF turn, N, D, base
  <2>2. \E f : Loops(f, N, D, base, turn)
    BY <2>1, Loop
  <2> QED
    BY <2>2 DEF Loops, D, base
<1>3. \A n \in 1..N :
         f[n] = IF list[n] \in Range(f[n - 1]) THEN f[n - 1] ELSE Append(f[n - 1], list[n])
  <2>1. \A n \in 1..N : n - 1 \in 0..N
    OBVIOUS
  <2>2. \A n \in 1..N : f[n - 1] \in Seq(X)
    BY <2>1
  <2> QED
    BY <1>2, <2>2
<1>4. Is(f)
  <2> DEFINE g == [n \in 0..N |->
                      IF n = 0 THEN old
                      ELSE IF list[n] \in Range(f[n - 1]) THEN f[n - 1]
                      ELSE Append(f[n - 1], list[n])]
  <2>1. ASSUME NEW n \in 0..N
        PROVE  f[n] = g[n]
    <3>1. CASE n = 0
      BY <1>2, <3>1
    <3>2. CASE n # 0
      <4>1. n \in 1..N
        BY <3>2
      <4> QED
        BY <1>3, <3>2, <4>1
    <3> QED
      BY <3>1, <3>2
  <2>2. f = [n \in 0..N |-> f[n]] /\ g = [n \in 0..N |-> g[n]]
    OBVIOUS
  <2> HIDE DEF g
  <2>3. f = g
    BY <2>1, <2>2
  <2> QED
    BY <2>3 DEF g
<1> DEFINE F == CHOOSE g : Is(g)
<1>5. Is(F)
  <2> HIDE DEF Is
  <2> QED
    BY <1>4
<1>6. WithTags(old, list) = F[N]
  BY DEF WithTags
<1> HIDE DEF F
<1>7. /\ F[0] = old
      /\ \A n \in 1..N :
            F[n] = IF list[n] \in Range(F[n - 1]) THEN F[n - 1] ELSE Append(F[n - 1], list[n])
  <2>1. 0 \in 0..N /\ \A n \in 1..N : n \in 0..N /\ n # 0
    OBVIOUS
  <2> QED
    BY <1>5, <2>1
<1> QED
  BY <1>6, <1>7

\* Every tag once: those that were there, and those that are added.
LEMMA TagsMembers ==
    ASSUME NEW X, NEW old, Over(old, X), NEW new, Over(new, X)
    PROVE  /\ Over(WithTags(old, new), X)
           /\ \A x : x \in Range(WithTags(old, new)) <=> x \in Range(old) \/ x \in Range(new)
           /\ IsInjective(old) => IsInjective(WithTags(old, new))
<1> DEFINE N == Len(new)
           Part(s, n) ==
              /\ Over(s, X)
              /\ \A x : x \in Range(s) <=> x \in Range(old) \/ \E k \in 1..n : x = new[k]
              /\ IsInjective(old) => IsInjective(s)
           J == [n \in 0..N |-> {s \in Seq(X) : Part(s, n)}]
<1>1. /\ N \in Nat /\ \A i \in 1..N : new[i] \in X /\ new[i] \in Range(new)
      /\ \A x \in Range(new) : \E i \in 1..N : x = new[i]
  BY ListFacts
<1>2. PICK f : /\ f[0] = old /\ WithTags(old, new) = f[N]
               /\ \A n \in 1..N : f[n] = IF new[n] \in Range(f[n - 1]) THEN f[n - 1]
                                         ELSE Append(f[n - 1], new[n])
  BY TagsLoop DEF Over
<1> HIDE DEF N
<1>3. Part(old, 0)
  OBVIOUS
<1>4. ASSUME NEW n \in 1..N, NEW s, Part(s, n - 1)
      PROVE  Part(IF new[n] \in Range(s) THEN s ELSE Append(s, new[n]), n)
  <2>1. /\ n \in Nat /\ n - 1 \in Nat /\ new[n] \in X
        /\ \A k \in 1..n : k \in 1..(n - 1) \/ k = n
        /\ \A k \in 1..(n - 1) : k \in 1..n /\ k \in 1..N
    BY <1>1
  <2>2. CASE new[n] \in Range(s)
    <3>1. \A x : x \in Range(s) <=> x \in Range(old) \/ \E k \in 1..n : x = new[k]
      BY <1>4, <2>1, <2>2
    <3> QED
      BY <1>4, <2>2, <3>1
  <2>3. CASE new[n] \notin Range(s)
    <3> DEFINE t == Append(s, new[n])
    <3>1. /\ Over(t, X)
          /\ \A y : y \in Range(t) <=> y \in Range(s) \/ y = new[n]
          /\ IsInjective(s) /\ new[n] \notin Range(s) => IsInjective(t)
      BY <1>4, <2>1, ListGrows
    <3> HIDE DEF t
    <3>2. \A x : x \in Range(t) <=> x \in Range(old) \/ \E k \in 1..n : x = new[k]
      BY <1>4, <2>1, <3>1
    <3> QED
      BY <1>4, <2>3, <3>1, <3>2 DEF t
  <2> QED
    BY <2>2, <2>3
<1>5. \A n \in 0..N : f[n] \in J[n]
  <2>1. f[0] \in J[0]
    <3>1. 0 \in 0..N /\ old \in {s \in Seq(X) : Part(s, 0)}
      BY <1>1, <1>3 DEF Over
    <3> HIDE DEF Part
    <3> QED
      BY <1>2, <3>1
  <2>2. ASSUME NEW n \in 1..N, f[n - 1] \in J[n - 1]
        PROVE  f[n] \in J[n]
    <3>1. n - 1 \in 0..N /\ n \in 0..N
      BY <1>1
    <3>2. f[n - 1] \in Seq(X) /\ Part(f[n - 1], n - 1)
      <4> HIDE DEF Part
      <4> QED
        BY <2>2, <3>1
    <3>3. Part(f[n], n)
      <4>1. f[n] = IF new[n] \in Range(f[n - 1]) THEN f[n - 1] ELSE Append(f[n - 1], new[n])
        BY <1>2
      <4> HIDE DEF Part
      <4> QED
        BY <1>4, <3>2, <4>1
    <3>4. f[n] \in Seq(X)
      BY <3>3 DEF Over
    <3> HIDE DEF Part
    <3> QED
      BY <3>1, <3>3, <3>4
  <2> HIDE DEF J
  <2> QED
    BY <1>1, <2>1, <2>2, Holds
<1>6. Part(f[N], N)
  <2>1. N \in 0..N
    BY <1>1
  <2> HIDE DEF Part
  <2> QED
    BY <1>5, <2>1
<1> DEFINE c == WithTags(old, new)
<1>7. Part(c, N)
  <2> HIDE DEF Part
  <2> QED
    BY <1>2, <1>6
<1> HIDE DEF c
<1>8. \A x : x \in Range(c) <=> x \in Range(old) \/ x \in Range(new)
  BY <1>1, <1>7
<1> QED
  BY <1>7, <1>8 DEF c

-----------------------------------------------------------------------------
(***************************************************************************)
(* What the filters mean.                                                  *)
(***************************************************************************)

FilterState == [include : BOOLEAN, included : BOOLEAN, excluded : BOOLEAN]

Excludes(t, i) == t.action = "exclude" /\ FilterHit(t, i)

Includes(t) == t.action \in {"", "include"}

\* What one rule does.
LEMMA AfterFilterMeans ==
    ASSUME NEW acc \in FilterState, NEW t, NEW i
    PROVE  LET new == AfterFilter(acc, t, i) IN
           /\ new \in FilterState
           /\ new.excluded <=> acc.excluded \/ Excludes(t, i)
           /\ ~new.excluded =>
                 /\ new.include <=> acc.include \/ Includes(t)
                 /\ new.included <=> acc.included \/ (Includes(t) /\ FilterHit(t, i))
<1> DEFINE hit == FilterHit(t, i)
<1>1. hit \in BOOLEAN
  BY DEF FilterHit
<1>2. CASE acc.excluded
  <2>1. AfterFilter(acc, t, i) = acc
    BY <1>2 DEF AfterFilter
  <2> QED
    BY <1>2, <2>1
<1>3. CASE ~acc.excluded /\ t.action = "exclude"
  <2>1. AfterFilter(acc, t, i) = [acc EXCEPT !.excluded = hit]
    BY <1>3 DEF AfterFilter
  <2>2. ~Includes(t) /\ (Excludes(t, i) <=> hit)
    BY <1>3 DEF Includes, Excludes
  <2> HIDE DEF hit
  <2> QED
    BY <1>1, <1>3, <2>1, <2>2 DEF FilterState
<1>4. CASE ~acc.excluded /\ Includes(t)
  <2>1. AfterFilter(acc, t, i) = [acc EXCEPT !.include = TRUE, !.included = acc.included \/ hit]
    BY <1>4 DEF AfterFilter, Includes
  <2>2. ~Excludes(t, i)
    BY <1>4 DEF Includes, Excludes
  <2> HIDE DEF hit
  <2> QED
    BY <1>1, <1>4, <2>1, <2>2 DEF FilterState, hit
<1>5. CASE ~acc.excluded /\ t.action # "exclude" /\ ~Includes(t)
  <2>1. AfterFilter(acc, t, i) = acc
    BY <1>5 DEF AfterFilter, Includes
  <2>2. ~Excludes(t, i)
    BY <1>5 DEF Excludes
  <2> QED
    BY <1>5, <2>1, <2>2
<1> QED
  BY <1>2, <1>3, <1>4, <1>5

\* The loop of the filters.
LEMMA FilteringLoop ==
    ASSUME NEW list, Len(list) \in Nat, NEW i
    PROVE  LET f == Filtering(list, i) IN
           /\ f[0] = NoFilter
           /\ \A n \in 1..Len(list) : f[n] = AfterFilter(f[n - 1], list[n], i)
<1> DEFINE N == Len(list)
           D == FilterState
           Is(f) == f = [n \in 0..N |->
                            IF n = 0 THEN NoFilter ELSE AfterFilter(f[n - 1], list[n], i)]
           turn == [n \in 1..N |-> [acc \in D |-> AfterFilter(acc, list[n], i)]]
<1>1. turn \in [1..N -> [D -> D]]
  <2>1. \A n \in 1..N : \A acc \in D : AfterFilter(acc, list[n], i) \in D
    BY AfterFilterMeans
  <2> HIDE DEF D
  <2> QED
    BY <2>1
<1>2. PICK f \in [0..N -> D] : f[0] = NoFilter /\ \A n \in 1..N : f[n] = turn[n][f[n - 1]]
  <2> DEFINE base == NoFilter
  <2>1. N \in Nat /\ base \in D /\ turn \in [1..N -> [D -> D]]
    BY <1>1 DEF NoFilter, FilterState
  <2> HIDE DEF turn, N, D, base
  <2>2. \E f : Loops(f, N, D, base, turn)
    BY <2>1, Loop
  <2> QED
    BY <2>2 DEF Loops, base
<1>3. \A n \in 1..N : f[n] = AfterFilter(f[n - 1], list[n], i)
  <2>1. \A n \in 1..N : n - 1 \in 0..N
    OBVIOUS
  <2> HIDE DEF D
  <2>2. \A n \in 1..N : f[n - 1] \in D
    BY <2>1
  <2> QED
    BY <1>2, <2>2
<1>4. Is(f)
  <2> DEFINE g == [n \in 0..N |-> IF n = 0 THEN NoFilter ELSE AfterFilter(f[n - 1], list[n], i)]
  <2> HIDE DEF D
  <2>1. ASSUME NEW n \in 0..N
        PROVE  f[n] = g[n]
    <3>1. CASE n = 0
      BY <1>2, <3>1
    <3>2. CASE n # 0
      <4>1. n \in 1..N
        BY <3>2
      <4> QED
        BY <1>3, <3>2, <4>1
    <3> QED
      BY <3>1, <3>2
  <2>2. f = [n \in 0..N |-> f[n]] /\ g = [n \in 0..N |-> g[n]]
    OBVIOUS
  <2> HIDE DEF g
  <2>3. f = g
    BY <2>1, <2>2
  <2> QED
    BY <2>3 DEF g
<1> DEFINE F == CHOOSE g : Is(g)
<1>5. Is(F)
  <2> HIDE DEF Is
  <2> QED
    BY <1>4
<1>6. Filtering(list, i) = F
  BY DEF Filtering
<1> HIDE DEF F
<1>7. F[0] = NoFilter /\ \A n \in 1..N : F[n] = AfterFilter(F[n - 1], list[n], i)
  <2>1. 0 \in 0..N /\ \A n \in 1..N : n \in 0..N /\ n # 0
    OBVIOUS
  <2> QED
    BY <1>5, <2>1
<1> QED
  BY <1>6, <1>7

\* What the rules of a list mean for an item, whatever their order.
LEMMA FilteringMeans ==
    ASSUME NEW X, NEW list, Over(list, X), NEW i
    PROVE  ItemPasses(list, i) <=>
              /\ \A t \in Range(list) : ~Excludes(t, i)
              /\ (\E t \in Range(list) : Includes(t)) =>
                    \E t \in Range(list) : Includes(t) /\ FilterHit(t, i)
<1> DEFINE N == Len(list)
           f == Filtering(list, i)
           E(n) == \E k \in 1..n : Excludes(list[k], i)
           I(n) == \E k \in 1..n : Includes(list[k])
           H(n) == \E k \in 1..n : Includes(list[k]) /\ FilterHit(list[k], i)
           Part(acc, n) == /\ acc.excluded <=> E(n)
                           /\ ~acc.excluded => (acc.include <=> I(n)) /\ (acc.included <=> H(n))
           J == [n \in 0..N |-> {acc \in FilterState : Part(acc, n)}]
<1>1. /\ N \in Nat /\ \A k \in 1..N : list[k] \in Range(list)
      /\ \A t \in Range(list) : \E k \in 1..N : t = list[k]
  BY ListFacts
<1>2. f[0] = NoFilter /\ \A n \in 1..N : f[n] = AfterFilter(f[n - 1], list[n], i)
  BY <1>1, FilteringLoop
<1> HIDE DEF N, f
<1>3. NoFilter \in FilterState /\ Part(NoFilter, 0)
  BY DEF NoFilter, FilterState
<1>4. ASSUME NEW n \in 1..N, NEW acc \in FilterState, Part(acc, n - 1)
      PROVE  LET new == AfterFilter(acc, list[n], i) IN new \in FilterState /\ Part(new, n)
  <2>1. /\ \A k \in 1..n : k \in 1..(n - 1) \/ k = n
        /\ \A k \in 1..(n - 1) : k \in 1..n
        /\ n \in 1..n
    BY <1>1
  <2>2. /\ E(n) <=> E(n - 1) \/ Excludes(list[n], i)
        /\ I(n) <=> I(n - 1) \/ Includes(list[n])
        /\ H(n) <=> H(n - 1) \/ (Includes(list[n]) /\ FilterHit(list[n], i))
    BY <2>1
  <2> DEFINE new == AfterFilter(acc, list[n], i)
  <2>3. /\ new \in FilterState
        /\ new.excluded <=> acc.excluded \/ Excludes(list[n], i)
        /\ ~new.excluded =>
              /\ new.include <=> acc.include \/ Includes(list[n])
              /\ new.included <=> acc.included \/ (Includes(list[n]) /\ FilterHit(list[n], i))
    BY AfterFilterMeans
  <2> HIDE DEF new, E, I, H
  <2> QED
    BY <1>4, <2>2, <2>3 DEF new
<1>5. \A n \in 0..N : f[n] \in J[n]
  <2>1. f[0] \in J[0]
    <3>1. 0 \in 0..N
      BY <1>1
    <3> HIDE DEF Part
    <3> QED
      BY <1>2, <1>3, <3>1
  <2>2. ASSUME NEW n \in 1..N, f[n - 1] \in J[n - 1]
        PROVE  f[n] \in J[n]
    <3>1. n - 1 \in 0..N /\ n \in 0..N
      BY <1>1
    <3> HIDE DEF Part
    <3>2. f[n - 1] \in FilterState /\ Part(f[n - 1], n - 1)
      BY <2>2, <3>1
    <3>3. f[n] \in FilterState /\ Part(f[n], n)
      BY <1>2, <1>4, <3>2
    <3> QED
      BY <3>1, <3>3
  <2> HIDE DEF J
  <2> QED
    BY <1>1, <2>1, <2>2, Holds
<1>6. Part(f[N], N)
  <2>1. N \in 0..N
    BY <1>1
  <2> HIDE DEF Part
  <2> QED
    BY <1>5, <2>1
<1>7. ItemPasses(list, i) <=> ~f[N].excluded /\ (f[N].include => f[N].included)
  BY DEF ItemPasses, f, N
<1>8. /\ E(N) <=> \E t \in Range(list) : Excludes(t, i)
      /\ I(N) <=> \E t \in Range(list) : Includes(t)
      /\ H(N) <=> \E t \in Range(list) : Includes(t) /\ FilterHit(t, i)
  BY <1>1
<1> HIDE DEF E, I, H
<1> QED
  BY <1>6, <1>7, <1>8

-----------------------------------------------------------------------------
(***************************************************************************)
(* What the classification means.                                          *)
(***************************************************************************)

\* A keyword rule that matches an item.
Kw(t, i) == t.phase = "classify" /\ t.type = "keyword" /\ i \in t.hits

\* A keyword rule among the first n matches the item.
Matched(list, i, n) == \E k \in 1..n : Kw(list[k], i)

\* The rules that ask the LLM about the item.
Asked(list, i, k) ==
    /\ list[k].phase = "classify" /\ list[k].type = "llm" /\ HasLLM
    /\ list[k].gated => Matched(list, i, k - 1)

Relevant(answer) == answer # None /\ answer.relevant

\* What the first n rules find for an item.
Found(list, i, answer, n) ==
    {list[k] : k \in {k \in 1..n : Kw(list[k], i)}}
        \cup {answer[k] : k \in {k \in 1..n : Asked(list, i, k) /\ Relevant(answer[k])}}

\* What a severity is among the findings.
Highest(severity, found) ==
    /\ severity \in Severities
    /\ \A f \in found : Rank(f.severity) <= Rank(severity)
    /\ Rank(severity) = 0 \/ \E f \in found : f.severity = severity

\* What the tags are among the findings.
Once(tags, found) ==
    /\ Over(tags, STRING) /\ IsInjective(tags)
    /\ \A x : x \in Range(tags) <=> \E f \in found : x \in Range(f.tags)

Means(result, found) ==
    /\ result \in ResultState
    /\ Highest(result.severity, found)
    /\ Once(result.tags, found)

LEMMA RanksAreNumbers == \A severity : Rank(severity) \in 0..3
BY DEF Rank

\* One more finding.
LEMMA MeansGrows ==
    ASSUME NEW old, NEW found, NEW f, Over(f.tags, STRING),
           Highest(old.severity, found), Once(old.tags, found)
    PROVE  /\ Highest(Raised(old.severity, f.severity), found \cup {f})
           /\ Once(WithTags(old.tags, f.tags), found \cup {f})
<1>1. Highest(Raised(old.severity, f.severity), found \cup {f})
  <2> DEFINE new == Raised(old.severity, f.severity)
  <2>1. \A s : Rank(s) \in 0..3
    BY RanksAreNumbers
  <2>2. CASE f.severity # "" /\ Rank(f.severity) > Rank(old.severity)
    <3>1. new = f.severity
      BY <2>2 DEF Raised
    <3>2. Rank(old.severity) \in 0..3 /\ Rank(new) \in 0..3 /\ Rank(new) > Rank(old.severity)
      BY <2>1, <2>2, <3>1
    <3>3. new \in Severities
      <4>1. Rank(new) # 0
        BY <3>2
      <4> HIDE DEF new
      <4> QED
        BY <4>1 DEF Rank, Severities
    <3>4. \A x \in found \cup {f} : Rank(x.severity) <= Rank(new)
      <4>1. ASSUME NEW x \in found
            PROVE  Rank(x.severity) <= Rank(new)
        <5>1. Rank(x.severity) <= Rank(old.severity) /\ Rank(x.severity) \in 0..3
          BY <2>1 DEF Highest
        <5> HIDE DEF new
        <5> QED
          BY <3>2, <5>1
      <4>2. Rank(f.severity) <= Rank(new)
        BY <2>1, <3>1
      <4> QED
        BY <4>1, <4>2
    <3> HIDE DEF new
    <3> QED
      BY <3>1, <3>3, <3>4 DEF Highest, new
  <2>3. CASE ~(f.severity # "" /\ Rank(f.severity) > Rank(old.severity))
    <3>1. new = old.severity
      BY <2>3 DEF Raised
    <3>2. Rank(f.severity) <= Rank(old.severity)
      <4>1. CASE f.severity = ""
        <5>1. Rank(f.severity) = 0 /\ Rank(old.severity) \in 0..3
          BY <2>1, <4>1 DEF Rank
        <5> QED
          BY <5>1
      <4>2. CASE f.severity # ""
        <5>1. Rank(f.severity) \in 0..3 /\ Rank(old.severity) \in 0..3
          BY <2>1
        <5>2. ~(Rank(f.severity) > Rank(old.severity))
          BY <2>3, <4>2
        <5> QED
          BY <5>1, <5>2
      <4> QED
        BY <4>1, <4>2
    <3> HIDE DEF new
    <3> QED
      BY <3>1, <3>2 DEF Highest, new
  <2> QED
    BY <2>2, <2>3
<1>2. Once(WithTags(old.tags, f.tags), found \cup {f})
  <2> DEFINE new == WithTags(old.tags, f.tags)
  <2>1. Over(old.tags, STRING) /\ IsInjective(old.tags)
    BY DEF Once
  <2>2. /\ Over(new, STRING) /\ IsInjective(new)
        /\ \A x : x \in Range(new) <=> x \in Range(old.tags) \/ x \in Range(f.tags)
    BY <2>1, TagsMembers
  <2> HIDE DEF new
  <2> QED
    BY <2>2 DEF Once, new
<1> QED
  BY <1>1, <1>2

\* What one rule does.
LEMMA AfterClassifyMeans ==
    ASSUME NEW r, NEW found, Means(r, found), NEW t \in Templates, NEW i,
           NEW a \in Answers \cup {None}
    PROVE  LET new == IF t.phase # "classify" THEN r ELSE AfterClassify(r, t, i, a)
               asks == t.phase = "classify" /\ t.type = "llm" /\ CallsLLM(r, t) /\ Relevant(a)
               more == (IF Kw(t, i) THEN {t} ELSE {}) \cup (IF asks THEN {a} ELSE {}) IN
           /\ Means(new, found \cup more)
           /\ new.matched <=> r.matched \/ Kw(t, i)
<1> DEFINE new == IF t.phase # "classify" THEN r ELSE AfterClassify(r, t, i, a)
           asks == t.phase = "classify" /\ t.type = "llm" /\ CallsLLM(r, t) /\ Relevant(a)
           more == (IF Kw(t, i) THEN {t} ELSE {}) \cup (IF asks THEN {a} ELSE {})
<1>1. r \in ResultState /\ Highest(r.severity, found) /\ Once(r.tags, found)
  BY DEF Means
<1>2. /\ r.severity \in Severities /\ r.tags \in Seq(STRING) /\ r.matched \in BOOLEAN
      /\ r.reason \in {"keyword", "llm", None}
  BY <1>1 DEF ResultState
<1>3. Over(t.tags, STRING)
  BY TemplatesAssumption DEF RuleState, Over
<1>4. CASE Kw(t, i)
  <2>1. new = [severity |-> Raised(r.severity, t.severity), tags |-> WithTags(r.tags, t.tags),
               reason |-> IF r.reason = None THEN "keyword" ELSE r.reason, matched |-> TRUE]
    BY <1>4 DEF Kw, AfterClassify, KeywordRule
  <2>2. /\ Highest(Raised(r.severity, t.severity), found \cup {t})
        /\ Once(WithTags(r.tags, t.tags), found \cup {t})
    BY <1>1, <1>2, <1>3, MeansGrows
  <2>3. more = {t}
    BY <1>4 DEF Kw
  <2> DEFINE severity == Raised(r.severity, t.severity)
             tags == WithTags(r.tags, t.tags)
             reason == IF r.reason = None THEN "keyword" ELSE r.reason
  <2>4. severity \in Severities /\ tags \in Seq(STRING) /\ reason \in {"keyword", "llm", None}
    BY <1>2, <2>2 DEF Once, Over, Highest
  <2> HIDE DEF new, more, severity, tags, reason
  <2>5. new = [severity |-> severity, tags |-> tags, reason |-> reason, matched |-> TRUE]
    BY <2>1 DEF severity, tags, reason
  <2>6. new \in ResultState /\ new.severity = severity /\ new.tags = tags /\ new.matched = TRUE
    BY <2>4, <2>5 DEF ResultState
  <2>7. Means(new, found \cup more)
    BY <2>2, <2>3, <2>6 DEF Means, severity, tags
  <2> QED
    BY <1>4, <2>6, <2>7 DEF new, more
<1>5. CASE asks
  <2>1. ~Kw(t, i) /\ a # None /\ a.relevant
    BY <1>5 DEF Kw, Relevant
  <2>2. Over(a.tags, STRING)
    BY <2>1, AnswersAssumption DEF AnswerState, Over
  <2>3. new = [r EXCEPT !.severity = Raised(r.severity, a.severity),
                        !.tags = WithTags(r.tags, a.tags),
                        !.reason = IF a.reasoned THEN "llm" ELSE r.reason]
    BY <1>5, <2>1 DEF AfterClassify, LLMRule
  <2>4. /\ Highest(Raised(r.severity, a.severity), found \cup {a})
        /\ Once(WithTags(r.tags, a.tags), found \cup {a})
    BY <1>1, <1>2, <2>2, MeansGrows
  <2>5. more = {a}
    BY <1>5, <2>1
  <2> DEFINE severity == Raised(r.severity, a.severity)
             tags == WithTags(r.tags, a.tags)
             reason == IF a.reasoned THEN "llm" ELSE r.reason
  <2>6. severity \in Severities /\ tags \in Seq(STRING) /\ reason \in {"keyword", "llm", None}
    BY <1>2, <2>4 DEF Once, Over, Highest
  <2> HIDE DEF new, more, severity, tags, reason
  <2>7. new = [r EXCEPT !.severity = severity, !.tags = tags, !.reason = reason]
    BY <2>3 DEF severity, tags, reason
  <2>8. new \in ResultState /\ new.severity = severity /\ new.tags = tags /\ new.matched = r.matched
    BY <1>1, <2>6, <2>7 DEF ResultState
  <2>9. Means(new, found \cup more)
    BY <2>4, <2>5, <2>8 DEF Means, severity, tags
  <2> QED
    BY <2>1, <2>8, <2>9 DEF new, more
<1>6. CASE ~Kw(t, i) /\ ~asks
  <2>1. new = r
    BY <1>6 DEF Kw, Relevant, AfterClassify, KeywordRule, LLMRule
  <2>2. found \cup more = found
    BY <1>6
  <2> HIDE DEF new, more
  <2> QED
    BY <1>6, <2>1, <2>2 DEF new, more
<1> QED
  BY <1>4, <1>5, <1>6

LEMMA NothingFound == Means(NoResult, {})
<1>1. NoResult \in ResultState
  <2>1. <<>> \in Seq(STRING)
    BY EmptyList DEF Over
  <2>2. "low" \in Severities
    BY DEF Severities
  <2> DEFINE tags == <<>>
             severity == "low"
             matched == FALSE
  <2>3. tags \in Seq(STRING) /\ severity \in Severities /\ matched \in BOOLEAN
    BY <2>1, <2>2
  <2>4. NoResult = [severity |-> severity, tags |-> tags, reason |-> None, matched |-> matched]
    BY DEF NoResult
  <2> HIDE DEF tags, severity, matched
  <2> QED
    BY <2>3, <2>4 DEF ResultState
<1>2. Highest("low", {})
  BY DEF Highest, Severities, Rank
<1>3. Once(<<>>, {})
  <2>1. Range(<<>>) = {} /\ IsInjective(<<>>) /\ Over(<<>>, STRING)
    BY EmptyList
  <2> QED
    BY <2>1 DEF Once
<1> QED
  BY <1>1, <1>2, <1>3 DEF Means, NoResult

\* The loop over the rules.
LEMMA ClassifiedLoop ==
    ASSUME Over(loaded, Templates), NEW i, NEW answer,
           \A k \in 1..Len(loaded) : answer[k] \in Answers \cup {None}
    PROVE  LET f == Classified(i, answer) IN
           /\ f[0] = NoResult
           /\ \A n \in 1..Len(loaded) :
                 f[n] = IF loaded[n].phase # "classify" THEN f[n - 1]
                        ELSE AfterClassify(f[n - 1], loaded[n], i, answer[n])
<1> DEFINE Turn(n, r) == IF loaded[n].phase # "classify" THEN r
                         ELSE AfterClassify(r, loaded[n], i, answer[n])
           N == Len(loaded)
           D == {r \in ResultState : \E found : Means(r, found)}
           Is(f) == f = [n \in 0..N |-> IF n = 0 THEN NoResult ELSE Turn(n, f[n - 1])]
           turn == [n \in 1..N |-> [r \in D |-> Turn(n, r)]]
<1>1. N \in Nat /\ \A n \in 1..N : loaded[n] \in Templates
  BY ListFacts
<1>2. ASSUME NEW n \in 1..N, NEW r \in D
      PROVE  Turn(n, r) \in D
  <2>1. PICK found : Means(r, found)
    OBVIOUS
  <2>2. loaded[n] \in Templates /\ answer[n] \in Answers \cup {None}
    BY <1>1
  <2> DEFINE t == loaded[n]
             a == answer[n]
             asks == t.phase = "classify" /\ t.type = "llm" /\ CallsLLM(r, t) /\ Relevant(a)
             more == (IF Kw(t, i) THEN {t} ELSE {}) \cup (IF asks THEN {a} ELSE {})
  <2>3. Means(Turn(n, r), found \cup more)
    BY <2>1, <2>2, AfterClassifyMeans
  <2> HIDE DEF Turn, more
  <2> QED
    BY <2>3 DEF Means
<1> HIDE DEF Turn
<1>3. turn \in [1..N -> [D -> D]]
  <2> HIDE DEF D
  <2> QED
    BY <1>2
<1>4. PICK f \in [0..N -> D] : f[0] = NoResult /\ \A n \in 1..N : f[n] = turn[n][f[n - 1]]
  <2> DEFINE base == NoResult
  <2>1. base \in D
    BY NothingFound DEF Means
  <2> HIDE DEF turn, N, D, base
  <2>2. \E f : Loops(f, N, D, base, turn)
    BY <1>1, <1>3, <2>1, Loop
  <2> QED
    BY <2>2 DEF Loops, base
<1>5. \A n \in 1..N : f[n] = Turn(n, f[n - 1])
  <2>1. \A n \in 1..N : n - 1 \in 0..N
    BY <1>1
  <2> HIDE DEF D
  <2>2. \A n \in 1..N : f[n - 1] \in D
    BY <2>1
  <2> QED
    BY <1>4, <2>2
<1>6. Is(f)
  <2> DEFINE g == [n \in 0..N |-> IF n = 0 THEN NoResult ELSE Turn(n, f[n - 1])]
  <2> HIDE DEF D
  <2>1. ASSUME NEW n \in 0..N
        PROVE  f[n] = g[n]
    <3>1. CASE n = 0
      BY <1>4, <3>1
    <3>2. CASE n # 0
      <4>1. n \in 1..N
        BY <1>1, <3>2
      <4> QED
        BY <1>5, <3>2, <4>1
    <3> QED
      BY <3>1, <3>2
  <2>2. f = [n \in 0..N |-> f[n]] /\ g = [n \in 0..N |-> g[n]]
    OBVIOUS
  <2> HIDE DEF g
  <2>3. f = g
    BY <2>1, <2>2
  <2> QED
    BY <2>3 DEF g
<1> DEFINE F == CHOOSE g : Is(g)
<1>7. Is(F)
  <2> HIDE DEF Is
  <2> QED
    BY <1>6
<1>8. Classified(i, answer) = F
  BY DEF Classified, Turn
<1> HIDE DEF F
<1>9. F[0] = NoResult /\ \A n \in 1..N : F[n] = Turn(n, F[n - 1])
  <2>1. 0 \in 0..N /\ \A n \in 1..N : n \in 0..N /\ n # 0
    BY <1>1
  <2> QED
    BY <1>7, <2>1
<1> QED
  BY <1>8, <1>9 DEF Turn

\* After every rule the result is what the rules up to it find for the item.
LEMMA ClassifiedMeans ==
    ASSUME Over(loaded, Templates), NEW i, NEW answer,
           \A k \in 1..Len(loaded) : answer[k] \in Answers \cup {None}
    PROVE  LET f == Classified(i, answer) IN
           \A n \in 0..Len(loaded) :
              /\ Means(f[n], Found(loaded, i, answer, n))
              /\ f[n].matched <=> Matched(loaded, i, n)
<1> DEFINE f == Classified(i, answer)
           N == Len(loaded)
           Part(r, n) == Means(r, Found(loaded, i, answer, n)) /\ (r.matched <=> Matched(loaded, i, n))
           J == [n \in 0..N |-> {r \in ResultState : Part(r, n)}]
           Turn(n, r) == IF loaded[n].phase # "classify" THEN r
                         ELSE AfterClassify(r, loaded[n], i, answer[n])
<1>1. N \in Nat /\ \A n \in 1..N : loaded[n] \in Templates
  BY ListFacts
<1>2. f[0] = NoResult /\ \A n \in 1..N : f[n] = Turn(n, f[n - 1])
  BY ClassifiedLoop
<1>3. Part(NoResult, 0)
  <2>1. Found(loaded, i, answer, 0) = {} /\ ~Matched(loaded, i, 0)
    BY DEF Found, Matched
  <2> QED
    BY <2>1, NothingFound DEF NoResult
<1> HIDE DEF f, N
<1>4. ASSUME NEW n \in 1..N, NEW r, Part(r, n - 1)
      PROVE  Part(Turn(n, r), n)
  <2> DEFINE t == loaded[n]
             a == answer[n]
             asks == t.phase = "classify" /\ t.type = "llm" /\ CallsLLM(r, t) /\ Relevant(a)
             more == (IF Kw(t, i) THEN {t} ELSE {}) \cup (IF asks THEN {a} ELSE {})
             found == Found(loaded, i, answer, n - 1)
  <2>1. /\ \A k \in 1..n : k \in 1..(n - 1) \/ k = n
        /\ \A k \in 1..(n - 1) : k \in 1..n
        /\ n \in 1..n
    BY <1>1
  <2>2. t \in Templates /\ a \in Answers \cup {None}
    BY <1>1 DEF N
  <2>3. Means(Turn(n, r), found \cup more) /\ (Turn(n, r).matched <=> r.matched \/ Kw(t, i))
    BY <1>4, <2>2, AfterClassifyMeans
  <2>4. Matched(loaded, i, n) <=> Matched(loaded, i, n - 1) \/ Kw(t, i)
    BY <2>1 DEF Matched
  <2>5. asks <=> Asked(loaded, i, n) /\ Relevant(a)
    BY <1>4 DEF CallsLLM, Asked
  <2>6. Found(loaded, i, answer, n) = found \cup more
    <3> HIDE DEF asks
    <3>1. \A x : x \in more <=> (Kw(t, i) /\ x = t) \/ (asks /\ x = a)
      OBVIOUS
    <3>2. \A m, x : x \in Found(loaded, i, answer, m) <=>
             \E k \in 1..m : \/ Kw(loaded[k], i) /\ x = loaded[k]
                             \/ Asked(loaded, i, k) /\ Relevant(answer[k]) /\ x = answer[k]
      BY DEF Found
    <3> HIDE DEF more
    <3>3. ASSUME NEW x
          PROVE  x \in Found(loaded, i, answer, n) <=> x \in found \/ x \in more
      BY <2>1, <2>5, <3>1, <3>2
    <3> QED
      BY <3>3
  <2> HIDE DEF Turn, more, found, t
  <2> QED
    BY <1>4, <2>3, <2>4, <2>6
<1> HIDE DEF Part, Turn
<1>5. \A n \in 0..N : f[n] \in J[n]
  <2>1. f[0] \in J[0]
    <3>1. 0 \in 0..N /\ NoResult \in ResultState
      BY <1>1, NothingFound DEF Means
    <3> QED
      BY <1>2, <1>3, <3>1
  <2>2. ASSUME NEW n \in 1..N, f[n - 1] \in J[n - 1]
        PROVE  f[n] \in J[n]
    <3>1. n - 1 \in 0..N /\ n \in 0..N
      BY <1>1
    <3>2. Part(f[n - 1], n - 1)
      BY <2>2, <3>1
    <3>3. Part(f[n], n)
      BY <1>2, <1>4, <3>2
    <3>4. f[n] \in ResultState
      BY <3>3 DEF Part, Means
    <3> QED
      BY <3>1, <3>3, <3>4
  <2> HIDE DEF J
  <2> QED
    BY <1>1, <2>1, <2>2, Holds
<1>6. \A n \in 0..N : Part(f[n], n)
  BY <1>5
<1> QED
  BY <1>6 DEF Part, f, N

-----------------------------------------------------------------------------
(***************************************************************************)
(* The invariant.                                                          *)
(***************************************************************************)

AlertState == [item : Items, result : ResultState]

\* What the rules of a list and the answers that were given find for an item.
FoundBy(list, given, i) ==
    {t \in Range(list) : Kw(t, i)}
        \cup {x.answer : x \in {x \in given : x.item = i /\ Relevant(x.answer)}}

\* Whether the filters of a list want an item.
Wants(list, i) ==
    /\ \A t \in Range(list) : t.phase = "filter" => ~Excludes(t, i)
    /\ (\E t \in Range(list) : t.phase = "filter" /\ Includes(t)) =>
          \E t \in Range(list) : t.phase = "filter" /\ Includes(t) /\ FilterHit(t, i)

Wanting(list, items) == Chosen(items, {i \in Items : Wants(list, i)})

Lists ==
    /\ results \in Seq(ResultState) /\ alerts \in Seq(AlertState)
    /\ IsInjective(passed)

\* Where the processing of a batch is.
Stages ==
    /\ pc = "idle" => /\ batch = <<>> /\ loaded = <<>> /\ passed = <<>>
                      /\ results = <<>> /\ said = {}
    /\ pc # "ingest" => alerts = <<>>
    /\ pc = "ingest" => \/ Len(results) = Len(passed)
                        \/ results = <<>> /\ said = {} /\ loaded = <<>>

\* A result is what was found for the item at its place.
ResultsMean ==
    \A n \in 1..Len(results) : Means(results[n], FoundBy(loaded, said, passed[n]))

\* What was said was asked, about an item that has a result.
AskedRightly ==
    \A x \in said : /\ \E n \in 1..Len(results) : x.item = passed[n]
                    /\ Asked(loaded, x.item, x.rule)

AlertsMean ==
    /\ Len(alerts) <= Len(passed)
    /\ \A n \in 1..Len(alerts) :
          /\ alerts[n].item = passed[n]
          /\ Means(alerts[n].result, FoundBy(loaded, said, passed[n]))

Inv ==
    /\ TypeOK /\ Lists /\ Stages
    /\ passed = Wanting(loaded, batch)
    /\ ResultsMean /\ AskedRightly /\ AlertsMean

\* The properties in the words of the invariant.
LEMMA FiltersMeanIs == FiltersMean <=> passed = Wanting(loaded, batch)
<1> DEFINE Ex == {t \in Loaded("filter") : t.action = "exclude"}
           In == {t \in Loaded("filter") : t.action \in {"", "include"}}
           Wanted(i) == /\ \A t \in Ex : ~FilterHit(t, i)
                        /\ In # {} => \E t \in In : FilterHit(t, i)
<1>1. FiltersMean <=> passed = Chosen(batch, {i \in Items : Wanted(i)})
  BY DEF FiltersMean
<1>2. ASSUME NEW i
      PROVE  Wanted(i) <=> Wants(loaded, i)
  BY DEF Wants, Excludes, Includes, Loaded
<1> HIDE DEF Wanted
<1>3. {i \in Items : Wanted(i)} = {i \in Items : Wants(loaded, i)}
  BY <1>2
<1> QED
  BY <1>1, <1>3 DEF Wanting

LEMMA FindingsAre == \A i : Findings(i) = FoundBy(loaded, said, i)
<1> SUFFICES ASSUME NEW i
             PROVE  Findings(i) = FoundBy(loaded, said, i)
  OBVIOUS
<1>1. {t \in Loaded("classify") : t.type = "keyword" /\ i \in t.hits} = {t \in Range(loaded) : Kw(t, i)}
  BY DEF Loaded, Kw
<1>2. {x \in said : x.item = i /\ x.answer # None /\ x.answer.relevant}
         = {x \in said : x.item = i /\ Relevant(x.answer)}
  BY DEF Relevant
<1> QED
  BY <1>1, <1>2 DEF Findings, FoundBy

LEMMA InvMeans == Inv => TypeOK /\ FiltersMean /\ ClassificationMeans
<1> SUFFICES ASSUME Inv
             PROVE  FiltersMean /\ ClassificationMeans
  BY DEF Inv
<1>1. FiltersMean
  BY FiltersMeanIs DEF Inv
<1>2. ASSUME NEW n \in 1..Len(alerts)
      PROVE  Means(alerts[n].result, Findings(alerts[n].item))
  BY <1>2, FindingsAre DEF Inv, AlertsMean
<1>3. HighestWins
  <2>1. \A n \in 1..Len(alerts) : Highest(alerts[n].result.severity, Findings(alerts[n].item))
    BY <1>2 DEF Means
  <2> QED
    BY <2>1 DEF HighestWins, Highest
<1>4. TagsOnce
  <2> SUFFICES ASSUME NEW n \in 1..Len(alerts)
               PROVE  LET tags == alerts[n].result.tags
                          found == Findings(alerts[n].item) IN
                      IsInjective(tags) /\ Range(tags) = UNION {Range(f.tags) : f \in found}
    BY DEF TagsOnce
  <2> DEFINE tags == alerts[n].result.tags
             found == Findings(alerts[n].item)
  <2>1. Once(tags, found)
    BY <1>2 DEF Means
  <2> HIDE DEF tags, found
  <2>2. IsInjective(tags) /\ \A x : x \in Range(tags) <=> \E f \in found : x \in Range(f.tags)
    BY <2>1 DEF Once
  <2>3. \A x : x \in UNION {Range(f.tags) : f \in found} <=> \E f \in found : x \in Range(f.tags)
    OBVIOUS
  <2>4. Range(tags) = UNION {Range(f.tags) : f \in found}
    BY <2>2, <2>3
  <2> QED
    BY <2>2, <2>4 DEF tags, found
<1>5. LLMOnlyIfMatched
  <2> SUFFICES ASSUME NEW x \in said
               PROVE  /\ x.item \in Range(passed)
                      /\ loaded[x.rule].gated =>
                            \E k \in 1..(x.rule - 1) : Kw(loaded[k], x.item)
    BY DEF LLMOnlyIfMatched, Kw
  <2>1. PICK n \in 1..Len(results) : x.item = passed[n]
    BY DEF Inv, AskedRightly
  <2>2. n \in 1..Len(passed) /\ Over(passed, Items)
    BY <2>1 DEF Inv, TypeOK, Lists, Over
  <2>3. x.item \in Range(passed)
    BY <2>1, <2>2, ListFacts
  <2>4. Asked(loaded, x.item, x.rule)
    BY DEF Inv, AskedRightly
  <2> QED
    BY <2>3, <2>4 DEF Asked, Matched
<1> QED
  BY <1>1, <1>3, <1>4, <1>5 DEF ClassificationMeans

\* Nothing is chosen from nothing, and everything when no filter is loaded.
LEMMA NothingChosen == \A list : Wanting(list, <<>>) = <<>>
<1> SUFFICES ASSUME NEW set
             PROVE  Chosen(<<>>, set) = <<>>
  BY DEF Wanting
<1>1. Over(<<>>, Items) /\ \A x \in Range(<<>>) : x \in set
  BY EmptyList
<1> QED
  BY <1>1, ChosenMembers

LEMMA BatchesAreLists ==
    ASSUME NEW items \in Batches \cup {<<>>}
    PROVE  Over(items, Items) /\ IsInjective(items)
BY BatchesAssumption, EmptyList DEF Over

LEMMA AllWanted ==
    ASSUME NEW items, Over(items, Items)
    PROVE  Wanting(<<>>, items) = items
<1> DEFINE set == {i \in Items : Wants(<<>>, i)}
<1>1. \A i : Wants(<<>>, i)
  BY EmptyList DEF Wants
<1>2. \A x \in Range(items) : x \in set
  BY <1>1, ListFacts
<1> HIDE DEF set
<1>3. Chosen(items, set) = items
  BY <1>2, ChosenMembers
<1> QED
  BY <1>3 DEF Wanting, set

\* The rules that a source can have.
RuleTypes(table, existing) ==
    /\ table \in [Rules -> Templates \cup {None}]
    /\ \A r \in Rules : table[r] # None => table[r].source \in existing \cup {None}
    /\ existing \subseteq Sources

\* The batch that is processed.
WorkTypes ==
    /\ pc \in {"idle", "classify", "ingest"}
    /\ source \in Sources \cup {None}
    /\ batch \in Batches \cup {<<>>}
    /\ loaded \in Seq(Templates)
    /\ passed \in Seq(Items)
    /\ Len(results) <= Len(passed)
    /\ \A n \in 1..Len(results) : results[n] \in ResultState
    /\ \A n \in 1..Len(alerts) : alerts[n].item \in Items /\ alerts[n].result \in ResultState
    /\ \A x \in said : x.item \in Items /\ x.rule \in 1..Len(loaded) /\ x.answer \in Answers

LEMMA TypeParts == TypeOK <=> RuleTypes(rule, sources) /\ WorkTypes
BY DEF TypeOK, RuleTypes, WorkTypes

LEMMA InvInit == Init => Inv
<1> SUFFICES ASSUME Init
             PROVE  Inv
  OBVIOUS
<1> USE DEF Init
<1>1. /\ \A X : <<>> \in Seq(X)
      /\ Len(<<>>) = 0 /\ IsInjective(<<>>)
  BY EmptyList DEF Over
<1>2. RuleTypes(rule, sources)
  BY DEF RuleTypes
<1>3. WorkTypes
  BY <1>1 DEF WorkTypes
<1>4. Lists /\ Stages /\ ResultsMean /\ AskedRightly /\ AlertsMean
  BY <1>1 DEF Lists, Stages, ResultsMean, AskedRightly, AlertsMean
<1>5. passed = Wanting(loaded, batch)
  BY NothingChosen
<1> QED
  BY <1>2, <1>3, <1>4, <1>5, TypeParts DEF Inv

\* Everything but the tables.
WorkInv ==
    /\ WorkTypes /\ Lists /\ Stages
    /\ passed = Wanting(loaded, batch)
    /\ ResultsMean /\ AskedRightly /\ AlertsMean

LEMMA InvParts ==
    /\ Inv <=> RuleTypes(rule, sources) /\ WorkInv
    /\ Inv' <=> RuleTypes(rule', sources') /\ WorkInv'
BY DEF Inv, WorkInv, TypeOK, RuleTypes, WorkTypes

LEMMA WorkStays == WorkInv /\ UNCHANGED work => WorkInv'
BY DEF WorkInv, work, WorkTypes, Lists, Stages, ResultsMean, AskedRightly, AlertsMean

\* Users change the rules.
LEMMA RuleChanges ==
    ASSUME Inv, NEW r \in Rules, NEW t \in Templates,
           CreateRule(r, t) \/ UpdateRule(r, t)
    PROVE  Inv'
<1>1. RuleTypes(rule, sources) /\ WorkInv
  BY InvParts
<1>2. UNCHANGED work /\ sources' = sources
  BY DEF CreateRule, UpdateRule
<1>3. rule' = [rule EXCEPT ![r] = t] /\ t.source \in sources \cup {None}
  BY DEF CreateRule, UpdateRule, Insertable
<1>4. RuleTypes(rule', sources')
  BY <1>1, <1>2, <1>3 DEF RuleTypes
<1>5. WorkInv'
  BY <1>1, <1>2, WorkStays
<1> QED
  BY <1>4, <1>5, InvParts

LEMMA RuleGoes ==
    ASSUME Inv, NEW r \in Rules, DeleteRule(r)
    PROVE  Inv'
<1>1. RuleTypes(rule, sources) /\ WorkInv
  BY InvParts
<1>2. UNCHANGED work /\ sources' = sources /\ rule' = [rule EXCEPT ![r] = None]
  BY DEF DeleteRule
<1>3. RuleTypes(rule', sources')
  BY <1>1, <1>2 DEF RuleTypes
<1>4. WorkInv'
  BY <1>1, <1>2, WorkStays
<1> QED
  BY <1>3, <1>4, InvParts

LEMMA SourceGoes ==
    ASSUME Inv, NEW s \in Sources, DeleteSource(s)
    PROVE  Inv'
<1>1. RuleTypes(rule, sources) /\ WorkInv
  BY InvParts
<1>2. UNCHANGED work /\ sources' = sources \ {s} /\ rule' = WithoutSource(s)
  BY DEF DeleteSource
<1>3. RuleTypes(rule', sources')
  BY <1>1, <1>2 DEF RuleTypes, WithoutSource
<1>4. WorkInv'
  BY <1>1, <1>2, WorkStays
<1> QED
  BY <1>3, <1>4, InvParts

\* The rules of a source are loaded in any order of the same priorities.
LEMMA LoadedAre ==
    ASSUME NEW s, NEW items, NEW ids \in Orders, Load(s, items, ids), RuleTypes(rule, sources)
    PROVE  Over(loaded', Templates)
<1>1. PICK n \in 0..Cardinality(Rules) : ids \in [1..n -> Rules]
  BY DEF Orders
<1>2. n \in Nat
  OBVIOUS
<1>3. Over(ids, Rules) /\ Len(ids) = n
  BY <1>1, <1>2 DEF Over
<1>4. \A k \in 1..n : ids[k] \in Range(ids)
  BY <1>3, ListFacts
<1>5. Range(ids) = {r \in Rules : rule[r] # None /\ AppliesTo(rule[r], s)}
  BY DEF Load
<1>6. \A k \in 1..n : ids[k] \in Rules /\ rule[ids[k]] # None
  BY <1>4, <1>5
<1>7. \A k \in 1..n : rule[ids[k]] \in Templates
  BY <1>6 DEF RuleTypes
<1>8. loaded' = [k \in 1..n |-> rule[ids[k]]]
  BY <1>3 DEF Load
<1> QED
  BY <1>2, <1>7, <1>8 DEF Over

\* The filters pass what they want.
LEMMA FilteredAre ==
    ASSUME NEW list, Over(list, Templates), NEW items
    PROVE  Filtered(OfPhase(list, "filter"), items) = Wanting(list, items)
<1> DEFINE set == {t \in Templates : t.phase = "filter"}
           some == Chosen(list, set)
<1>1. \A t \in Range(list) : t \in Templates
  BY ListFacts
<1>2. /\ Over(some, Templates)
      /\ \A t : t \in Range(some) <=> t \in Range(list) /\ t \in set
  BY ChosenMembers
<1>3. OfPhase(list, "filter") = some
  BY DEF OfPhase
<1>4. \A t : t \in Range(some) <=> t \in Range(list) /\ t.phase = "filter"
  BY <1>1, <1>2
<1> HIDE DEF some
<1>5. ASSUME NEW i
      PROVE  ItemPasses(some, i) <=> Wants(list, i)
  <2>1. ItemPasses(some, i) <=>
           /\ \A t \in Range(some) : ~Excludes(t, i)
           /\ (\E t \in Range(some) : Includes(t)) =>
                 \E t \in Range(some) : Includes(t) /\ FilterHit(t, i)
    BY <1>2, FilteringMeans
  <2> QED
    BY <1>4, <2>1 DEF Wants
<1>6. {i \in Items : ItemPasses(some, i)} = {i \in Items : Wants(list, i)}
  BY <1>5
<1> QED
  BY <1>3, <1>6 DEF Filtered, Wanting

LEMMA LoadKeeps ==
    ASSUME Inv, NEW s \in Sources, NEW items \in Batches, NEW ids \in Orders, Load(s, items, ids)
    PROVE  Inv'
<1>1. RuleTypes(rule, sources) /\ WorkInv
  BY InvParts
<1>2. /\ pc = "idle" /\ source' = s /\ batch' = items /\ pc' = "classify"
      /\ passed' = Filtered(OfPhase(loaded', "filter"), items)
      /\ results' = results /\ said' = said /\ alerts' = alerts /\ rule' = rule /\ sources' = sources
  BY DEF Load, tables
<1>3. results = <<>> /\ said = {} /\ alerts = <<>> /\ Len(<<>>) = 0
  BY <1>1, <1>2 DEF WorkInv, Stages
<1>4. Over(loaded', Templates)
  BY <1>1, LoadedAre
<1>5. Over(items, Items) /\ IsInjective(items)
  BY BatchesAreLists
<1> DEFINE kept == {i \in Items : Wants(loaded', i)}
<1>6. passed' = Wanting(loaded', items)
  BY <1>2, <1>4, FilteredAre
<1>7. Over(passed', Items) /\ IsInjective(passed')
  <2>1. passed' = Chosen(items, kept)
    BY <1>6 DEF Wanting
  <2> HIDE DEF kept
  <2> QED
    BY <1>5, <2>1, ChosenMembers
<1>8. WorkTypes'
  <2>1. Len(passed') \in Nat
    BY <1>7, ListFacts
  <2>2. loaded' \in Seq(Templates) /\ passed' \in Seq(Items)
    BY <1>4, <1>7 DEF Over
  <2>3. batch' \in Batches \cup {<<>>} /\ source' \in Sources \cup {None}
    BY <1>2
  <2> QED
    BY <1>2, <1>3, <2>1, <2>2, <2>3 DEF WorkTypes
<1>9. Lists'
  BY <1>1, <1>2, <1>7 DEF WorkInv, Lists
<1>10. Stages' /\ ResultsMean' /\ AskedRightly'
  BY <1>2, <1>3 DEF Stages, ResultsMean, AskedRightly
<1>11. AlertsMean'
  <2>1. Len(passed') \in Nat
    BY <1>7, ListFacts
  <2> QED
    BY <1>2, <1>3, <2>1 DEF AlertsMean
<1>12. WorkInv'
  BY <1>2, <1>6, <1>8, <1>9, <1>10, <1>11 DEF WorkInv
<1> QED
  BY <1>1, <1>2, <1>12, InvParts

LEMMA LoadFailsKeeps ==
    ASSUME Inv, NEW s \in Sources, NEW items \in Batches, LoadFails(s, items)
    PROVE  Inv'
<1>1. RuleTypes(rule, sources) /\ WorkInv
  BY InvParts
<1>2. /\ pc = "idle" /\ source' = s /\ batch' = items /\ passed' = items /\ pc' = "ingest"
      /\ loaded' = loaded /\ results' = results /\ said' = said /\ alerts' = alerts
      /\ rule' = rule /\ sources' = sources
  BY DEF LoadFails, tables
<1>3. results = <<>> /\ said = {} /\ alerts = <<>> /\ loaded = <<>> /\ Len(<<>>) = 0
  BY <1>1, <1>2 DEF WorkInv, Stages
<1>4. Over(items, Items) /\ IsInjective(items) /\ Len(items) \in Nat
  BY BatchesAreLists, ListFacts
<1>5. passed' = Wanting(loaded', batch')
  BY <1>2, <1>3, <1>4, AllWanted
<1>6. WorkTypes'
  <2>1. loaded' \in Seq(Templates) /\ passed' \in Seq(Items)
    BY <1>1, <1>2, <1>4 DEF WorkInv, WorkTypes, Over
  <2>2. batch' \in Batches \cup {<<>>} /\ source' \in Sources \cup {None}
    BY <1>2
  <2> QED
    BY <1>2, <1>3, <1>4, <2>1, <2>2 DEF WorkTypes
<1>7. Lists'
  BY <1>1, <1>2, <1>4 DEF WorkInv, Lists
<1>8. Stages' /\ ResultsMean' /\ AskedRightly' /\ AlertsMean'
  BY <1>2, <1>3, <1>4 DEF Stages, ResultsMean, AskedRightly, AlertsMean
<1>9. WorkInv'
  BY <1>5, <1>6, <1>7, <1>8 DEF WorkInv
<1> QED
  BY <1>1, <1>2, <1>9, InvParts

LEMMA ClassifyEndsKeeps ==
    ASSUME Inv, ClassifyEnds
    PROVE  Inv'
<1>1. RuleTypes(rule, sources) /\ WorkInv
  BY InvParts
<1>2. /\ pc = "classify" /\ Len(results) = Len(passed) /\ pc' = "ingest"
      /\ source' = source /\ batch' = batch /\ loaded' = loaded /\ passed' = passed
      /\ results' = results /\ said' = said /\ alerts' = alerts
      /\ rule' = rule /\ sources' = sources
  BY DEF ClassifyEnds, tables
<1>3. WorkTypes' /\ Lists' /\ ResultsMean' /\ AskedRightly' /\ AlertsMean'
  BY <1>1, <1>2 DEF WorkInv, WorkTypes, Lists, ResultsMean, AskedRightly, AlertsMean
<1>4. Stages'
  BY <1>2 DEF Stages
<1>5. WorkInv'
  BY <1>1, <1>2, <1>3, <1>4 DEF WorkInv
<1> QED
  BY <1>1, <1>2, <1>5, InvParts

LEMMA FinishKeeps ==
    ASSUME Inv, Finish
    PROVE  Inv'
<1>1. RuleTypes(rule, sources) /\ WorkInv
  BY InvParts
<1>2. /\ pc' = "idle" /\ source' = None /\ batch' = <<>> /\ loaded' = <<>> /\ passed' = <<>>
      /\ results' = <<>> /\ said' = {} /\ alerts' = <<>>
      /\ rule' = rule /\ sources' = sources
  BY DEF Finish, tables
<1>3. (\A X : <<>> \in Seq(X)) /\ Len(<<>>) = 0 /\ IsInjective(<<>>)
  BY EmptyList DEF Over
<1>4. WorkTypes'
  BY <1>2, <1>3 DEF WorkTypes
<1>5. Lists' /\ Stages' /\ ResultsMean' /\ AskedRightly' /\ AlertsMean'
  BY <1>2, <1>3 DEF Lists, Stages, ResultsMean, AskedRightly, AlertsMean
<1>6. passed' = Wanting(loaded', batch')
  BY <1>2, NothingChosen
<1>7. WorkInv'
  BY <1>4, <1>5, <1>6 DEF WorkInv
<1> QED
  BY <1>1, <1>2, <1>7, InvParts

\* The next item goes with the result at its place, or with none when there are none.
LEMMA IngestKeeps ==
    ASSUME Inv, Ingest
    PROVE  Inv'
<1> DEFINE n == Len(alerts) + 1
           result == IF n <= Len(results) THEN results[n] ELSE NoResult
           alert == [item |-> passed[n], result |-> result]
<1>1. RuleTypes(rule, sources) /\ WorkInv
  BY InvParts
<1>2. /\ pc = "ingest" /\ Len(alerts) < Len(passed) /\ alerts' = Append(alerts, alert)
      /\ pc' = pc /\ source' = source /\ batch' = batch /\ loaded' = loaded /\ passed' = passed
      /\ results' = results /\ said' = said /\ rule' = rule /\ sources' = sources
  BY DEF Ingest, tables
<1>3. Over(alerts, AlertState) /\ Over(results, ResultState) /\ Over(passed, Items)
  BY <1>1 DEF WorkInv, Lists, WorkTypes, Over
<1>4. Len(alerts) \in Nat /\ Len(results) \in Nat /\ Len(passed) \in Nat
  BY <1>3, ListFacts
<1>5. n \in 1..Len(passed) /\ passed[n] \in Items
  <2>1. n \in 1..Len(passed)
    BY <1>2, <1>4
  <2> QED
    BY <1>3, <2>1, ListFacts
<1>6. Means(result, FoundBy(loaded, said, passed[n]))
  <2>1. CASE n <= Len(results)
    <3>1. n \in 1..Len(results) /\ result = results[n]
      BY <1>4, <2>1
    <3> QED
      BY <1>1, <3>1 DEF WorkInv, ResultsMean
  <2>2. CASE ~(n <= Len(results))
    <3>1. Len(results) # Len(passed)
      BY <1>4, <1>5, <2>2
    <3>2. said = {} /\ loaded = <<>>
      BY <1>1, <1>2, <3>1 DEF WorkInv, Stages
    <3>3. FoundBy(loaded, said, passed[n]) = {}
      BY <3>2, EmptyList DEF FoundBy
    <3> QED
      BY <2>2, <3>3, NothingFound
  <2> QED
    BY <2>1, <2>2
<1>7. alert \in AlertState /\ alert.item = passed[n] /\ alert.result = result
  <2>1. result \in ResultState
    BY <1>6 DEF Means
  <2> HIDE DEF result, n
  <2> QED
    BY <1>5, <2>1 DEF AlertState
<1> HIDE DEF alert, result
<1>8. /\ Over(alerts', AlertState) /\ Len(alerts') = n /\ alerts'[n] = alert
      /\ \A k \in 1..Len(alerts) : alerts'[k] = alerts[k]
  BY <1>2, <1>3, <1>7, ListGrows
<1>9. \A k \in 1..n : k \in 1..Len(alerts) \/ k = n
  BY <1>4
<1> HIDE DEF n
<1>10. WorkTypes'
  <2>1. \A k \in 1..Len(alerts') : alerts'[k] \in AlertState
    BY <1>8, ListFacts
  <2> QED
    BY <1>1, <1>2, <2>1 DEF WorkInv, WorkTypes, AlertState
<1>11. Lists' /\ Stages' /\ ResultsMean' /\ AskedRightly'
  BY <1>1, <1>2, <1>8 DEF WorkInv, Lists, Stages, ResultsMean, AskedRightly, Over
<1>12. AlertsMean'
  <2>1. Len(alerts') <= Len(passed')
    BY <1>2, <1>4, <1>5, <1>8
  <2>2. \A k \in 1..Len(alerts) :
           alerts[k].item = passed[k] /\ Means(alerts[k].result, FoundBy(loaded, said, passed[k]))
    BY <1>1 DEF WorkInv, AlertsMean
  <2>3. ASSUME NEW k \in 1..Len(alerts')
        PROVE  /\ alerts'[k].item = passed[k]
               /\ Means(alerts'[k].result, FoundBy(loaded, said, passed[k]))
    BY <1>6, <1>7, <1>8, <1>9, <2>2
  <2> QED
    BY <1>2, <2>1, <2>3 DEF AlertsMean
<1>13. WorkInv'
  BY <1>1, <1>2, <1>10, <1>11, <1>12 DEF WorkInv
<1> QED
  BY <1>1, <1>2, <1>13, InvParts

\* One more item is classified; what is said about it is not said about another.
LEMMA ClassifyKeeps ==
    ASSUME Inv, Classify
    PROVE  Inv'
<1> DEFINE N == Len(loaded)
           n == Len(results) + 1
           i == passed[n]
           Answer(given) == [k \in 1..N |-> IF k \in LLMRules THEN given[k] ELSE None]
           AskedIn(given) == {k \in LLMRules : CallsLLM(Classified(i, Answer(given))[k - 1], loaded[k])}
           New(given) == {[item |-> i, rule |-> k, answer |-> given[k]] : k \in AskedIn(given)}
<1>1. RuleTypes(rule, sources) /\ WorkInv
  BY InvParts
<1>2. /\ pc = "classify" /\ Len(results) < Len(passed)
      /\ pc' = pc /\ source' = source /\ batch' = batch /\ loaded' = loaded /\ passed' = passed
      /\ alerts' = alerts /\ rule' = rule /\ sources' = sources
  BY DEF Classify, tables
<1>3. PICK given \in [LLMRules -> Answers] :
         /\ results' = Append(results, Classified(i, Answer(given))[N])
         /\ said' = said \cup New(given)
  BY DEF Classify
<1> DEFINE answer == Answer(given)
           after == Classified(i, answer)
           result == after[N]
           asked == AskedIn(given)
           new == New(given)
<1>4. Over(loaded, Templates) /\ Over(results, ResultState) /\ Over(passed, Items)
  BY <1>1 DEF WorkInv, Lists, WorkTypes, Over
<1>5. Len(results) \in Nat /\ Len(passed) \in Nat /\ N \in Nat
  BY <1>4, ListFacts
<1>6. n \in 1..Len(passed) /\ i \in Items
  <2>1. n \in 1..Len(passed)
    BY <1>2, <1>5
  <2> QED
    BY <1>4, <2>1, ListFacts
<1>7. /\ \A k \in 1..N : answer[k] \in Answers \cup {None}
      /\ LLMRules \subseteq 1..N /\ \A k \in LLMRules : answer[k] = given[k] /\ given[k] \in Answers
  BY DEF LLMRules
<1>8. \A k \in 0..N : /\ Means(after[k], Found(loaded, i, answer, k))
                      /\ after[k].matched <=> Matched(loaded, i, k)
  <2> HIDE DEF answer
  <2> QED
    BY <1>4, <1>7, ClassifiedMeans
<1>9. said' = said \cup new /\ results' = Append(results, result)
  BY <1>3
<1>10. /\ \A x : x \in new <=> \E k \in asked : x = [item |-> i, rule |-> k, answer |-> given[k]]
       /\ \A k : k \in asked <=> k \in LLMRules /\ CallsLLM(after[k - 1], loaded[k])
  OBVIOUS
<1> HIDE DEF n, i, answer, after, result, asked, new, N
<1>11. \A k : k \in asked <=> k \in 1..N /\ Asked(loaded, i, k)
  <2>1. ASSUME NEW k \in 1..N
        PROVE  after[k - 1].matched <=> Matched(loaded, i, k - 1)
    <3>1. k - 1 \in 0..N
      BY <1>5
    <3> QED
      BY <1>8, <3>1
  <2>2. \A k : k \in LLMRules <=> k \in 1..N /\ loaded[k].phase = "classify" /\ loaded[k].type = "llm"
    BY DEF LLMRules, N
  <2> QED
    BY <1>10, <2>1, <2>2 DEF CallsLLM, Asked
<1>12. /\ \A x \in new : /\ x.item = i /\ x.rule \in 1..N /\ x.rule \in asked
                         /\ x.answer = answer[x.rule] /\ x.answer \in Answers
       /\ \A k \in asked : \E x \in new : x.answer = answer[k]
  <2>1. \A k \in asked : k \in LLMRules /\ k \in 1..N /\ answer[k] = given[k] /\ given[k] \in Answers
    BY <1>7, <1>10
  <2>2. ASSUME NEW x \in new
        PROVE  /\ x.item = i /\ x.rule \in 1..N /\ x.rule \in asked
               /\ x.answer = answer[x.rule] /\ x.answer \in Answers
    <3>1. PICK k \in asked : x = [item |-> i, rule |-> k, answer |-> given[k]]
      BY <1>10
    <3> QED
      BY <2>1, <3>1
  <2>3. ASSUME NEW k \in asked
        PROVE  \E x \in new : x.answer = answer[k]
    <3> DEFINE x == [item |-> i, rule |-> k, answer |-> given[k]]
    <3>1. x \in new
      BY <1>10
    <3>2. x.answer = answer[k]
      BY <2>1
    <3> HIDE DEF x
    <3> QED
      BY <3>1, <3>2
  <2> QED
    BY <2>2, <2>3
<1>13. \A m \in 1..Len(results) : passed[m] # i /\ m \in 1..Len(passed)
  <2>1. \A m \in 1..Len(results) : m \in 1..Len(passed) /\ m # n
    BY <1>2, <1>5 DEF n
  <2>2. IsInjective(passed) /\ DOMAIN passed = 1..Len(passed)
    BY <1>1, <1>4, ListFacts DEF WorkInv, Lists
  <2> QED
    BY <1>6, <2>1, <2>2 DEF IsInjective, i
<1>14. \A x \in said : x.item # i /\ Asked(loaded, x.item, x.rule)
                          /\ \E m \in 1..Len(results) : x.item = passed[m]
  BY <1>1, <1>13 DEF WorkInv, AskedRightly
<1>15. FoundBy(loaded, said', i) = Found(loaded, i, answer, N)
  <2>1. ASSUME NEW y
        PROVE  y \in FoundBy(loaded, said', i) <=>
                  \/ y \in Range(loaded) /\ Kw(y, i)
                  \/ \E x \in said' : x.item = i /\ Relevant(x.answer) /\ y = x.answer
    BY DEF FoundBy
  <2>2. ASSUME NEW y
        PROVE  y \in Found(loaded, i, answer, N) <=>
                  \/ \E k \in 1..N : Kw(loaded[k], i) /\ y = loaded[k]
                  \/ \E k \in 1..N : Asked(loaded, i, k) /\ Relevant(answer[k]) /\ y = answer[k]
    BY DEF Found
  <2>3. ASSUME NEW y
        PROVE  y \in Range(loaded) /\ Kw(y, i) <=> \E k \in 1..N : Kw(loaded[k], i) /\ y = loaded[k]
    BY <1>4, ListFacts DEF N
  <2>4. ASSUME NEW y
        PROVE  (\E x \in said' : x.item = i /\ Relevant(x.answer) /\ y = x.answer) <=>
               (\E k \in asked : Relevant(answer[k]) /\ y = answer[k])
    BY <1>9, <1>12, <1>14
  <2>5. ASSUME NEW y
        PROVE  y \in FoundBy(loaded, said', i) <=> y \in Found(loaded, i, answer, N)
    BY <1>11, <2>1, <2>2, <2>3, <2>4
  <2> QED
    BY <2>5
<1>16. ASSUME NEW m \in 1..Len(results)
       PROVE  FoundBy(loaded, said', passed[m]) = FoundBy(loaded, said, passed[m])
  <2>1. {x \in said' : x.item = passed[m] /\ Relevant(x.answer)}
           = {x \in said : x.item = passed[m] /\ Relevant(x.answer)}
    BY <1>9, <1>12, <1>13
  <2> QED
    BY <2>1 DEF FoundBy
<1>17. Means(result, FoundBy(loaded, said', i))
  <2>1. N \in 0..N
    BY <1>5
  <2> QED
    BY <1>8, <1>15, <2>1 DEF result
<1>18. /\ Over(results', ResultState) /\ Len(results') = n /\ results'[n] = result
       /\ \A m \in 1..Len(results) : results'[m] = results[m]
  <2>1. result \in ResultState
    BY <1>17 DEF Means
  <2> QED
    BY <1>4, <1>9, <2>1, ListGrows DEF n
<1>19. /\ \A m \in 1..n : m \in 1..Len(results) \/ m = n
       /\ \A m \in 1..Len(results) : m \in 1..n
       /\ n \in 1..n /\ n <= Len(passed)
  BY <1>2, <1>5 DEF n
<1>20. WorkTypes'
  <2>1. \A m \in 1..Len(results') : results'[m] \in ResultState
    BY <1>18, ListFacts
  <2>2. \A x \in said' : x.item \in Items /\ x.rule \in 1..Len(loaded) /\ x.answer \in Answers
    <3>1. \A x \in said : x.item \in Items /\ x.rule \in 1..Len(loaded) /\ x.answer \in Answers
      BY <1>1 DEF WorkInv, WorkTypes
    <3> QED
      BY <1>6, <1>9, <1>12, <3>1 DEF N
  <2> QED
    BY <1>1, <1>2, <1>18, <1>19, <2>1, <2>2 DEF WorkInv, WorkTypes
<1>21. Lists' /\ Stages'
  BY <1>1, <1>2, <1>18 DEF WorkInv, Lists, Stages, Over
<1>22. ResultsMean'
  <2>1. \A m \in 1..Len(results) : Means(results[m], FoundBy(loaded, said, passed[m]))
    BY <1>1 DEF WorkInv, ResultsMean
  <2>2. ASSUME NEW m \in 1..n
        PROVE  Means(results'[m], FoundBy(loaded, said', passed[m]))
    BY <1>16, <1>17, <1>18, <1>19, <2>1 DEF i
  <2> QED
    BY <1>2, <1>18, <2>2 DEF ResultsMean
<1>23. AskedRightly'
  <2>1. ASSUME NEW x \in said'
        PROVE  (\E m \in 1..n : x.item = passed[m]) /\ Asked(loaded, x.item, x.rule)
    <3>1. CASE x \in said
      BY <1>14, <1>19, <3>1
    <3>2. CASE x \in new
      BY <1>11, <1>12, <1>19, <3>2 DEF i
    <3> QED
      BY <1>9, <3>1, <3>2
  <2> QED
    BY <1>2, <1>18, <2>1 DEF AskedRightly
<1>24. AlertsMean'
  <2>1. alerts = <<>> /\ Len(alerts) = 0
    BY <1>1, <1>2, EmptyList DEF WorkInv, Stages
  <2> QED
    BY <1>2, <1>5, <2>1 DEF AlertsMean
<1>25. WorkInv'
  BY <1>1, <1>2, <1>20, <1>21, <1>22, <1>23, <1>24 DEF WorkInv
<1> QED
  BY <1>1, <1>2, <1>25, InvParts

-----------------------------------------------------------------------------
(***************************************************************************)
(* The theorems.                                                           *)
(***************************************************************************)

LEMMA InvNext == Inv /\ [Next]_vars => Inv'
<1> SUFFICES ASSUME Inv, [Next]_vars
             PROVE  Inv'
  OBVIOUS
<1>1. ASSUME NEW r \in Rules, DeleteRule(r)
      PROVE  Inv'
  BY <1>1, RuleGoes
<1>2. ASSUME NEW r \in Rules, NEW t \in Templates, CreateRule(r, t) \/ UpdateRule(r, t)
      PROVE  Inv'
  BY <1>2, RuleChanges
<1>3. ASSUME NEW s \in Sources, DeleteSource(s)
      PROVE  Inv'
  BY <1>3, SourceGoes
<1>4. ASSUME NEW items \in Batches, NEW s \in Sources, LoadFails(s, items)
      PROVE  Inv'
  BY <1>4, LoadFailsKeeps
<1>5. ASSUME NEW items \in Batches, NEW s \in Sources, NEW ids \in Orders, Load(s, items, ids)
      PROVE  Inv'
  BY <1>5, LoadKeeps
<1>6. CASE Classify
  BY <1>6, ClassifyKeeps
<1>7. CASE ClassifyEnds
  BY <1>7, ClassifyEndsKeeps
<1>8. CASE Ingest
  BY <1>8, IngestKeeps
<1>9. CASE Finish
  BY <1>9, FinishKeeps
<1>10. CASE UNCHANGED vars
  <2>1. UNCHANGED work /\ rule' = rule /\ sources' = sources
    BY <1>10 DEF vars, work
  <2>2. RuleTypes(rule, sources) /\ WorkInv
    BY InvParts
  <2>3. WorkInv'
    BY <2>1, <2>2, WorkStays
  <2> QED
    BY <2>1, <2>2, <2>3, InvParts
<1> QED
  BY <1>1, <1>2, <1>3, <1>4, <1>5, <1>6, <1>7, <1>8, <1>9, <1>10 DEF Next

LEMMA Invariant == Spec => []Inv
<1>1. Init => Inv
  BY InvInit
<1>2. Inv /\ [Next]_vars => Inv'
  BY InvNext
<1> QED
  BY <1>1, <1>2, PTL DEF Spec

\* Every state has the types that its comments say; in particular no rule is of a
\* source that does not exist, whatever users change while a batch is processed.
THEOREM RuleTypesHold == Spec => []TypeOK
<1>1. Inv => TypeOK
  BY InvMeans
<1> QED
  BY <1>1, Invariant, PTL

\* For every list of rules, in every order, and every batch: the items that pass are,
\* in their order, those that no exclude rule and, if there is any, an include rule
\* matches (the loop of itemPassesFilters in service/processing.go and its early end).
THEOREM FiltersKeepTheirMeaning == Spec => []FiltersMean
<1>1. Inv => FiltersMean
  BY InvMeans
<1> QED
  BY <1>1, Invariant, PTL

\* For every list of rules, in every order, whatever the LLM answers and whichever
\* call fails: an alert has the highest severity and all the tags found for its own
\* item, and the LLM is asked about nothing else than what the rules say (the loop of
\* applyClassify in service/processing.go, the pairing in service/source_poller.go).
THEOREM ClassificationKeepsItsMeaning == Spec => []ClassificationMeans
<1>1. Inv => ClassificationMeans
  BY InvMeans
<1> QED
  BY <1>1, Invariant, PTL
=============================================================================
