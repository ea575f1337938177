------------------------- MODULE FeedMonitorsProofs -------------------------
(***************************************************************************)
(* The theorems about FeedMonitors, for any lists, bounds and kinds.       *)
(*                                                                         *)
(* Sound says what every kind of monitor returns and what its watermark    *)
(* becomes, in terms of the list alone; there is one lemma for each kind,  *)
(* and PollSound gathers them.  FeedInv says what the watermark separates: *)
(* what was returned and what was there at the start are not above it.     *)
(* That a poll keeps it (PollKeeps) follows from Sound, and never looks    *)
(* into a kind again.  NothingPassed rests on Sound's counterpart: what is *)
(* new and fits on a page is returned (NewIsReturned).                     *)
(***************************************************************************)
EXTENDS FeedMonitors, FiniteSetTheorems, WellFoundedInduction, TLAPS

-----------------------------------------------------------------------------
(***************************************************************************)
(* The greatest items of a set.                                            *)
(***************************************************************************)

\* A set of numbers up to n is finite.
LEMMA UpTo ==
    ASSUME NEW n \in Nat, NEW S \in SUBSET (0..n)
    PROVE  IsFiniteSet(S)
<1>1. IsFiniteSet(0..n)
  BY FS_Interval
<1> QED
  BY <1>1, FS_Subset

\* The highest of a bounded set is in it, or 0, and no member is higher.
LEMMA HighestIsMax ==
    ASSUME NEW n \in Nat, NEW S \in SUBSET (0..n)
    PROVE  /\ Highest(S) \in S \cup {0}
           /\ Highest(S) \in 0..n
           /\ \A i \in S : i <= Highest(S)
<1> DEFINE T == S \cup {0}
           Bounds == {m \in Nat : \A i \in T : i <= m}
<1>1. PICK m \in Bounds : \A k \in Bounds : <<k, m>> \notin OpToRel(<, Nat)
  <2>1. n \in Bounds /\ Bounds \subseteq Nat
    OBVIOUS
  <2> QED
    BY <2>1, WFMin, NatLessThanWellFounded
<1>2. m \in T
  <2> SUFFICES ASSUME m \notin T PROVE FALSE
    OBVIOUS
  <2>1. m \in Nat /\ m # 0 /\ \A i \in T : i \in Nat /\ i <= m /\ i # m
    OBVIOUS
  <2>2. m - 1 \in Bounds
    BY <2>1
  <2>3. <<m - 1, m>> \in OpToRel(<, Nat)
    BY <2>1, SMT DEF OpToRel
  <2> QED
    BY <1>1, <2>2, <2>3
<1>3. \E x \in T : \A y \in T : x >= y
  BY <1>1, <1>2
<1>4. Max(T) \in T /\ \A y \in T : Max(T) >= y
  BY <1>3 DEF Max
<1>5. Highest(S) = Max(T)
  BY DEF Highest
<1>6. Highest(S) \in T /\ \A y \in T : Highest(S) >= y
  BY ONLY <1>4, <1>5
<1>7. ASSUME NEW h \in T, \A y \in T : h >= y
      PROVE  h \in S \cup {0} /\ h \in 0..n /\ \A i \in S : i <= h
  BY <1>7
<1> HIDE DEF T
<1> QED
  BY <1>6, <1>7

\* The newest of a set are members of it, and with an item come all above it.
LEMMA NewestAreTop ==
    ASSUME NEW n \in Nat, NEW S \in SUBSET (0..n), NEW c \in Nat
    PROVE  /\ Newest(S, c) \subseteq S
           /\ \A i \in Newest(S, c), j \in S : j > i => j \in Newest(S, c)
<1>1. SUFFICES ASSUME NEW i \in Newest(S, c), NEW j \in S, j > i
               PROVE  j \in Newest(S, c)
  BY DEF Newest
<1> DEFINE A == {k \in S : k > i}
           B == {k \in S : k > j}
<1>2. B \subseteq A
  <2>1. i \in S
    BY DEF Newest
  <2>2. ASSUME NEW k \in S, k > j
        PROVE  k > i
    BY <1>1, <2>1, <2>2
  <2> QED
    BY <2>2
<1>3. IsFiniteSet(A)
  <2>1. A \in SUBSET (0..n)
    OBVIOUS
  <2> QED
    BY <2>1, UpTo
<1>4. Cardinality(B) <= Cardinality(A) /\ Cardinality(B) \in Nat /\ Cardinality(A) \in Nat
  BY <1>2, <1>3, FS_Subset, FS_CardinalityType
<1>5. Cardinality(A) < c
  BY DEF Newest
<1> QED
  BY <1>4, <1>5 DEF Newest

\* The highest of a set is among its newest.
LEMMA HighestIsNewest ==
    ASSUME NEW n \in Nat, NEW S \in SUBSET (0..n), NEW c \in Nat \ {0}
    PROVE  \A i \in S : (\A j \in S : j <= i) => i \in Newest(S, c)
<1> SUFFICES ASSUME NEW i \in S, \A j \in S : j <= i
             PROVE  i \in Newest(S, c)
  OBVIOUS
<1>1. {j \in S : j > i} = {}
  <2>1. ASSUME NEW j \in S PROVE ~(j > i)
    BY <2>1
  <2> QED
    BY <2>1
<1> QED
  BY <1>1, FS_EmptySet DEF Newest

\* An item is among the c newest, when it and those above it are within a set of
\* at most c.
LEMMA NewestByCount ==
    ASSUME NEW n \in Nat, NEW S \in SUBSET (0..n), NEW c \in Nat,
           NEW T, IsFiniteSet(T), Cardinality(T) <= c,
           NEW i \in S \cap T, \A j \in S : j > i => j \in T
    PROVE  i \in Newest(S, c)
<1> DEFINE A == {j \in S : j > i}
<1>1. A \subseteq T \ {i}
  <2>1. ASSUME NEW j \in S, j > i PROVE j \in T /\ j # i
    BY <2>1
  <2> QED
    BY <2>1
<1>2. IsFiniteSet(T \ {i}) /\ Cardinality(T \ {i}) = Cardinality(T) - 1 /\ Cardinality(T) \in Nat
  BY FS_RemoveElement, FS_CardinalityType
<1>3. Cardinality(A) <= Cardinality(T \ {i}) /\ Cardinality(A) \in Nat
  BY <1>1, <1>2, FS_Subset, FS_CardinalityType
<1>4. Cardinality(A) < c
  BY <1>2, <1>3
<1> QED
  BY <1>4 DEF Newest

\* No item of a set is above the highest of its newest.
LEMMA NothingAbove ==
    ASSUME NEW n \in Nat, NEW S \in SUBSET (0..n), NEW c \in Nat \ {0}
    PROVE  /\ Newest(S, c) \in SUBSET (0..n)
           /\ \A i \in S : i <= Highest(Newest(S, c))
           /\ S # {} => Newest(S, c) # {}
<1>1. Newest(S, c) \in SUBSET (0..n) /\ Newest(S, c) \subseteq S
  BY DEF Newest
<1>2. Highest(S) \in S \cup {0} /\ Highest(S) \in 0..n /\ \A i \in S : i <= Highest(S)
  BY HighestIsMax
<1>3. \A i \in Newest(S, c) : i <= Highest(Newest(S, c))
  BY <1>1, HighestIsMax
<1>4. ASSUME NEW i \in S
      PROVE  i <= Highest(Newest(S, c)) /\ Newest(S, c) # {}
  <2> DEFINE h == Highest(S)
  <2>1. h \in S
    BY <1>2, <1>4
  <2>2. h \in Newest(S, c)
    BY <1>2, <2>1, HighestIsNewest
  <2>3. h <= Highest(Newest(S, c)) /\ Highest(Newest(S, c)) \in 0..n
    BY <1>1, <1>3, <2>2, HighestIsMax
  <2> QED
    BY <1>2, <2>2, <2>3
<1> QED
  BY <1>1, <1>4

-----------------------------------------------------------------------------
(***************************************************************************)
(* The invariant.                                                          *)
(***************************************************************************)

\* The numbers of the lists and of what is remembered of them are in order.
Shown ==
    /\ \A l \in Lists :
          /\ feed[l] \subseteq 1..last[l]
          /\ last[l] <= MaxItem[l]
          /\ at[l] <= last[l]
          /\ start[l] # None => start[l] <= last[l]
    /\ \A l \in Lists \ Watched : feed[l] = {}
    /\ \A x \in seen : x[2] <= last[x[1]]

\* Only a standalone poller that starts anew has a past and no watermark.
BeforeFirstPoll ==
    kind \notin Standalone /\ mark = None => seen = {} /\ \A l \in Lists : at[l] = 0

\* A watermark is not ahead of what the list showed when it was last available;
\* between the two there is nothing left of a feed; and a monitor of a user of
\* Bluesky remembers a post of that user.
MarksBehind ==
    mark # None =>
        /\ \A l \in Lists : mark[l] <= at[l]
        /\ kind = "rss:default" => \A l \in Lists : \A i \in feed[l] : i <= mark[l] \/ i > at[l]
        /\ kind = "bluesky:user" => mark[1] = 0 \/ mark[1] \notin Unwanted

\* What was returned and is still shown is not above the watermark.
ReturnedBehind ==
    mark # None /\ kind \notin {"reddit:thread", "bluesky:user"} =>
        \A x \in seen : x[2] \in feed[x[1]] =>
            \/ x[2] <= mark[x[1]]
            \/ kind \in Standalone /\ x[1] \in loose /\ mark[x[1]] = 0

\* What was there when the monitor was initialised is not above it either.
StartBehind ==
    mark # None /\ kind # "reddit:thread" =>
        \A l \in Watched \ loose :
            /\ start[l] # None
            /\ \A i \in feed[l] : i <= start[l] => i <= mark[l] \/ (kind \in Bluesky /\ i \in Unwanted)

\* The part on which the facts about one poll rest.
State == TypeOK /\ Shown /\ BeforeFirstPoll /\ MarksBehind

\* What the invariant says of the numbers.
LEMMA Facts ==
    ASSUME State
    PROVE  /\ 1 \in Lists /\ Watched \subseteq Lists
           /\ Items \subseteq Nat \ {0} /\ Cap \in Nat \ {0} /\ Total \in Nat \ {0}
           /\ Marks = Items \cup {0}
           /\ \A l \in Lists :
                 /\ last[l] \in Nat /\ at[l] \in Nat /\ at[l] <= last[l]
                 /\ feed[l] \subseteq Items /\ feed[l] \in SUBSET (0..last[l])
                 /\ Last(l) \in Marks /\ Last(l) \in Nat
                 /\ Last(l) <= at[l] /\ Last(l) <= last[l]
<1>1. NumLists \in Nat /\ NumLists >= 1 /\ Cap \in Nat \ {0} /\ Total \in Nat \ {0}
  BY BoundsAssumption
<1>2. 1 \in Lists /\ Watched \subseteq Lists
  BY <1>1 DEF Lists, Watched
<1>3. Items \subseteq Nat \ {0} /\ Marks = Items \cup {0}
  BY BoundsAssumption DEF Items, Marks, Lists
<1>4. ASSUME NEW l \in Lists
      PROVE  /\ last[l] \in Nat /\ at[l] \in Nat /\ at[l] <= last[l]
             /\ feed[l] \subseteq Items /\ feed[l] \in SUBSET (0..last[l])
  <2>1. last[l] \in Marks /\ at[l] \in Marks /\ feed[l] \in SUBSET Items
    BY DEF State, TypeOK
  <2>2. feed[l] \subseteq 1..last[l] /\ at[l] <= last[l]
    BY DEF State, Shown
  <2>3. last[l] \in Nat /\ at[l] \in Nat
    <3>1. Marks \subseteq Nat
      BY <1>3
    <3> QED
      BY <2>1, <3>1
  <2>4. \A i \in 1..last[l] : i \in 0..last[l]
    BY <2>3
  <2> QED
    BY <2>1, <2>2, <2>3, <2>4
<1>5. ASSUME NEW l \in Lists
      PROVE  Last(l) \in Marks /\ Last(l) <= at[l]
  <2>1. CASE mark = None
    BY <1>3, <1>4, <2>1 DEF Last
  <2>2. CASE mark # None
    <3>1. mark \in [Lists -> Marks] /\ mark[l] <= at[l]
      BY <2>2 DEF State, TypeOK, MarksBehind
    <3> QED
      BY <2>2, <3>1 DEF Last
  <2> QED
    BY <2>1, <2>2
<1>6. ASSUME NEW l \in Lists
      PROVE  Last(l) \in Nat /\ Last(l) <= last[l]
  <2>0. Marks \subseteq Nat
    BY <1>3
  <2>1. Last(l) \in Nat /\ at[l] \in Nat /\ last[l] \in Nat
    BY <2>0, <1>4, <1>5, Zenon
  <2>2. Last(l) <= at[l] /\ at[l] <= last[l]
    BY <1>4, <1>5
  <2> QED
    BY <2>1, <2>2
<1> QED
  BY <1>1, <1>2, <1>3, <1>4, <1>5, <1>6

\* The page of the first list.
LEMMA PageFacts ==
    ASSUME State
    PROVE  /\ Page \subseteq feed[1] /\ Page \subseteq Items /\ Page \in SUBSET (0..last[1])
           /\ \A i \in feed[1] : i <= Highest(Page)
           /\ \A i \in Page, j \in feed[1] : j > i => j \in Page
           /\ Page = {} => feed[1] = {}
<1>1. 1 \in Lists /\ last[1] \in Nat /\ feed[1] \in SUBSET (0..last[1]) /\ feed[1] \subseteq Items
      /\ Cap \in Nat \ {0}
  BY Facts
<1>2. /\ Newest(feed[1], Cap) \subseteq feed[1]
      /\ \A i \in Newest(feed[1], Cap), j \in feed[1] : j > i => j \in Newest(feed[1], Cap)
  BY <1>1, NewestAreTop
<1>3. /\ \A i \in feed[1] : i <= Highest(Newest(feed[1], Cap))
      /\ feed[1] # {} => Newest(feed[1], Cap) # {}
  BY <1>1, NothingAbove
<1> QED
  BY <1>1, <1>2, <1>3 DEF Page

-----------------------------------------------------------------------------
(***************************************************************************)
(* One poll of each kind.                                                  *)
(***************************************************************************)

\* An item of an available list that is returned: it is above the watermark,
\* or the remembered item is lost; and the new watermark is not below it.
SoundItem(r, ok, x) ==
    /\ x \in ok \X Items /\ x[2] \in feed[x[1]]
    /\ kind # "reddit:thread" => x[2] > Last(x[1]) \/ Lost(x[1])
    /\ kind \notin {"reddit:thread", "bluesky:user"} => x[2] <= r.mark[x[1]]
    /\ kind \in Bluesky => x[2] \notin Unwanted

\* The new watermark of a list that is available: it covers what the list shows,
\* but for the monitors of Bluesky, and for a thread with replies that could not
\* be fetched; theirs does not go back, and that of Bluesky covers the wanted
\* items when the monitor is initialised.
SoundMark(r, bad, l) ==
    /\ r.mark[l] <= last[l]
    /\ kind \in Bluesky \/ (kind = "hn:thread" /\ bad # {}) \/ \A i \in feed[l] : i <= r.mark[l]
    /\ kind \in Bluesky \cup {"hn:thread"} => Last(l) <= r.mark[l]
    /\ kind \in Bluesky /\ Last(l) = 0 /\ ~Blind => \A i \in feed[l] \ Unwanted : i <= r.mark[l]
    /\ kind = "bluesky:user" => r.mark[l] = 0 \/ r.mark[l] \notin Unwanted

\* That of a list that is not.
SameMark(r, l) == r.mark[l] \in {0, Last(l)} /\ (l \in Watched => r.mark[l] = Last(l))

Sound(r, ok, bad) ==
    /\ r.mark \in [Lists -> Marks]
    /\ \A x \in r.items : SoundItem(r, ok, x)
    /\ \A l \in Lists : IF l \in ok THEN SoundMark(r, bad, l) ELSE SameMark(r, l)

\* A monitor of one list.
LEMMA OneList ==
    ASSUME State, NEW ok \in Available, NEW bad \in Unavailable, kind \notin Several
    PROVE  /\ Watched = {1}
           /\ kind \notin Standalone => ok = {1}
           /\ ok \in {{}, {1}}
           /\ bad \subseteq On(1, feed[1])
<1>1. Watched = {1}
  BY DEF Watched
<1>2. bad \subseteq On(1, feed[1])
  BY <1>1 DEF Unavailable
<1> QED
  BY <1>1, <1>2 DEF Available

\* Its result, in terms of the items I and the watermark m of that list.
LEMMA OneListSound ==
    ASSUME State, NEW bad, kind \notin Several,
           NEW I \in SUBSET feed[1], NEW m \in Marks, m <= last[1],
           NEW r, r.items = On(1, I), r.mark = Single(m),
           kind # "reddit:thread" => \A i \in I : i > Last(1) \/ Lost(1),
           kind \notin {"reddit:thread", "bluesky:user"} => \A i \in I : i <= m,
           kind \in Bluesky => \A i \in I : i \notin Unwanted,
           kind \in Bluesky \/ (kind = "hn:thread" /\ bad # {}) \/ \A i \in feed[1] : i <= m,
           kind \in Bluesky \cup {"hn:thread"} => Last(1) <= m,
           kind \in Bluesky /\ Last(1) = 0 /\ ~Blind => \A i \in feed[1] \ Unwanted : i <= m,
           kind = "bluesky:user" => m = 0 \/ m \notin Unwanted
    PROVE  Sound(r, {1}, bad)
<1>1. 1 \in Lists /\ Watched = {1} /\ feed[1] \subseteq Items /\ Marks = Items \cup {0}
  BY Facts DEF Watched
<1>2. r.mark \in [Lists -> Marks] /\ r.mark[1] = m /\ \A l \in Lists \ {1} : r.mark[l] = 0
  BY <1>1 DEF Single
<1>3. ASSUME NEW x \in r.items
      PROVE  SoundItem(r, {1}, x)
  <2>1. PICK i \in I : x = <<1, i>>
    BY <1>3 DEF On
  <2>2. x[1] = 1 /\ x[2] = i /\ x \in {1} \X Items
    BY <1>1, <2>1
  <2> QED
    BY <1>2, <2>2 DEF SoundItem
<1>4. SoundMark(r, bad, 1)
  BY <1>2 DEF SoundMark
<1>5. \A l \in Lists \ {1} : SameMark(r, l)
  BY <1>1, <1>2 DEF SameMark
<1> QED
  BY <1>1, <1>2, <1>3, <1>4, <1>5 DEF Sound

\* The result of a monitor whose watermark covers its lists.
LEMMA CoveringSound ==
    ASSUME State, NEW bad, NEW ok \in SUBSET Lists,
           kind \notin Bluesky \cup {"hn:thread", "reddit:thread"},
           NEW r, r.mark \in [Lists -> Marks],
           \A x \in r.items : /\ x \in ok \X Items /\ x[2] \in feed[x[1]]
                              /\ x[2] > Last(x[1]) \/ Lost(x[1]),
           \A l \in ok : r.mark[l] <= last[l] /\ \A i \in feed[l] : i <= r.mark[l],
           \A l \in Lists \ ok : SameMark(r, l)
    PROVE  Sound(r, ok, bad)
<1>1. \A x \in r.items : SoundItem(r, ok, x)
  BY DEF SoundItem, Bluesky
<1>2. \A l \in ok : SoundMark(r, bad, l)
  BY DEF SoundMark, Bluesky
<1> QED
  BY <1>1, <1>2 DEF Sound

\* The highest of items of the first list, perhaps with the watermark.
LEMMA NewMark ==
    ASSUME State, NEW U \in SUBSET (feed[1] \cup {Last(1)})
    PROVE  /\ Highest(U) \in Marks /\ Highest(U) \in Nat /\ Highest(U) <= last[1]
           /\ Highest(U) \in U \cup {0}
           /\ \A i \in U : i <= Highest(U)
           /\ Page \subseteq U => \A i \in feed[1] : i <= Highest(U)
<1>1. /\ last[1] \in Nat /\ feed[1] \in SUBSET (0..last[1]) /\ feed[1] \subseteq Items
      /\ Last(1) \in Nat /\ Last(1) <= last[1] /\ Last(1) \in Marks /\ Marks = Items \cup {0}
  BY Facts
<1>2. U \in SUBSET (0..last[1]) /\ U \subseteq Marks /\ 0 \in Marks
  BY <1>1
<1>3. Highest(U) \in U \cup {0} /\ Highest(U) \in 0..last[1] /\ \A i \in U : i <= Highest(U)
  BY <1>1, <1>2, HighestIsMax
<1>4. ASSUME Page \subseteq U, NEW i \in feed[1]
      PROVE  i <= Highest(U)
  <2> DEFINE h == Highest(Page)
  <2>1. i <= h
    BY PageFacts
  <2>2. Page \in SUBSET (0..last[1])
    BY PageFacts
  <2>3. h \in Page \cup {0} /\ h \in 0..last[1]
    BY <1>1, <2>2, HighestIsMax
  <2>4. h <= Highest(U)
    BY <1>3, <1>4, <2>3
  <2>5. i \in Nat
    BY <1>1
  <2> QED
    BY <1>3, <2>1, <2>3, <2>4, <2>5
<1>5. Highest(U) \in Marks
  BY <1>2, <1>3, Zenon
<1>6. Highest(U) \in Nat /\ Highest(U) <= last[1]
  BY <1>1, <1>3
<1> QED
  BY <1>3, <1>4, <1>5, <1>6

\* The remembered item of the page is lost, or all down to it are above it.
LEMMA DownToMark ==
    ASSUME State, NEW page \in SUBSET feed[1], NEW i \in DownTo(page, Last(1)),
           Last(1) \in page \/ Last(1) = 0
    PROVE  i > Last(1)
<1>1. i \in Items /\ Items \subseteq Nat \ {0} /\ Last(1) \in Nat
  BY Facts DEF DownTo
<1> QED
  BY <1>1 DEF DownTo

LEMMA RedditThreadSound ==
    ASSUME State, NEW bad, kind = "reddit:thread"
    PROVE  Sound(RedditThread, {1}, bad)
<1> DEFINE I == Page \ {Last(1)}
           U == I \cup {Last(1)}
<1>1. RedditThread.items = On(1, I) /\ RedditThread.mark = Single(Highest(U))
  BY DEF RedditThread
<1>2. I \in SUBSET feed[1] /\ U \in SUBSET (feed[1] \cup {Last(1)}) /\ Page \subseteq U
  BY PageFacts
<1>3. /\ Highest(U) \in Marks /\ Highest(U) <= last[1]
      /\ \A i \in feed[1] : i <= Highest(U)
  BY <1>2, NewMark
<1> QED
  BY <1>1, <1>2, <1>3, OneListSound DEF Several, Bluesky

LEMMA SubredditSound ==
    ASSUME State, NEW bad, kind = "reddit:subreddit"
    PROVE  Sound(Subreddit, {1}, bad)
<1> DEFINE I == DownTo(Page, Last(1))
           U == Page \cup {Last(1)}
<1>1. Subreddit.items = On(1, I) /\ Subreddit.mark = Single(Highest(U))
  BY DEF Subreddit
<1>2. I \in SUBSET feed[1] /\ I \subseteq U /\ U \in SUBSET (feed[1] \cup {Last(1)}) /\ Page \subseteq U
  BY PageFacts DEF DownTo
<1>3. /\ Highest(U) \in Marks /\ Highest(U) <= last[1] /\ \A i \in I : i <= Highest(U)
      /\ \A i \in feed[1] : i <= Highest(U)
  BY <1>2, NewMark
<1>4. \A i \in I : i > Last(1) \/ Lost(1)
  BY DownToMark, PageFacts DEF Lost, ByItem, Page
<1> QED
  BY <1>1, <1>2, <1>3, <1>4, OneListSound DEF Several, Bluesky

LEMMA RedditAccountSound ==
    ASSUME State, NEW bad, kind = "reddit:account"
    PROVE  Sound(RedditAccount, {1}, bad)
<1> DEFINE I == DownTo(Page, Last(1)) \ Unwanted
           m == IF Page = {} THEN Last(1) ELSE Highest(Page)
<1>1. RedditAccount.items = On(1, I) /\ RedditAccount.mark = Single(m)
  BY DEF RedditAccount
<1>2. I \in SUBSET feed[1] /\ I \subseteq Page /\ Page \in SUBSET (feed[1] \cup {Last(1)})
  BY PageFacts DEF DownTo
<1>3. /\ m \in Marks /\ m <= last[1] /\ \A i \in I : i <= m
      /\ \A i \in feed[1] : i <= m
  <2>1. CASE Page = {}
    BY <1>2, <2>1, Facts, PageFacts
  <2>2. CASE Page # {}
    BY <1>2, <2>2, NewMark
  <2> QED
    BY <2>1, <2>2
<1>4. \A i \in I : i > Last(1) \/ Lost(1)
  BY DownToMark, PageFacts DEF Lost, ByItem, Page
<1> HIDE DEF I, m
<1> QED
  BY <1>1, <1>2, <1>3, <1>4, OneListSound DEF Several, Bluesky

LEMMA HNThreadSound ==
    ASSUME State, NEW bad, kind = "hn:thread"
    PROVE  Sound(HNThread(bad), {1}, bad)
<1> DEFINE I == {i \in Above(1) : <<1, i>> \notin bad}
           U == I \cup {Last(1)}
<1>1. HNThread(bad).items = On(1, I) /\ HNThread(bad).mark = Single(Highest(U))
  BY DEF HNThread
<1>2. I \in SUBSET feed[1] /\ I \subseteq U /\ U \in SUBSET (feed[1] \cup {Last(1)}) /\ Last(1) \in U
  BY DEF Above
<1>3. /\ Highest(U) \in Marks /\ Highest(U) \in Nat /\ Highest(U) <= last[1]
      /\ \A i \in U : i <= Highest(U)
  BY <1>2, NewMark
<1>4. \A i \in I : i > Last(1)
  BY DEF Above
<1>5. ASSUME bad = {}, NEW i \in feed[1]
      PROVE  i <= Highest(U)
  <2>1. CASE i > Last(1)
    BY <1>3, <1>5, <2>1 DEF Above
  <2>2. CASE ~(i > Last(1))
    <3>1. i \in Nat /\ Last(1) \in Nat /\ Last(1) <= Highest(U)
      BY <1>2, <1>3, Facts
    <3> QED
      BY <1>3, <2>2, <3>1
  <2> QED
    BY <2>1, <2>2
<1> HIDE DEF I, U
<1> QED
  BY <1>1, <1>2, <1>3, <1>4, <1>5, OneListSound DEF Several, Bluesky

LEMMA HNNewSound ==
    ASSUME State, NEW bad, kind = "hn:keywords"
    PROVE  Sound(HNNew(bad), {1}, bad)
<1> DEFINE I == {i \in Newest(Above(1), Total) : <<1, i>> \notin bad}
           U == feed[1] \cup {Last(1)}
<1>1. HNNew(bad).items = On(1, I) /\ HNNew(bad).mark = Single(Highest(U))
  BY DEF HNNew, On
<1>2. I \in SUBSET feed[1] /\ I \subseteq U /\ U \in SUBSET (feed[1] \cup {Last(1)})
  BY DEF Above, Newest
<1>3. /\ Highest(U) \in Marks /\ Highest(U) <= last[1] /\ \A i \in I : i <= Highest(U)
      /\ \A i \in feed[1] : i <= Highest(U)
  BY <1>2, NewMark
<1>4. \A i \in I : i > Last(1)
  BY DEF Above, Newest
<1> HIDE DEF I, U
<1> QED
  BY <1>1, <1>2, <1>3, <1>4, OneListSound DEF Several, Bluesky

LEMMA BlueskyAccountSound ==
    ASSUME State, NEW bad, kind = "bluesky:account"
    PROVE  Sound(BlueskyAccount, {1}, bad)
<1> DEFINE I == {i \in Page \ Unwanted : i > Last(1)}
           U == I \cup {Last(1)}
<1>1. BlueskyAccount.items = On(1, I) /\ BlueskyAccount.mark = Single(Highest(U))
  BY DEF BlueskyAccount
<1>2. I \in SUBSET feed[1] /\ I \subseteq U /\ U \in SUBSET (feed[1] \cup {Last(1)}) /\ Last(1) \in U
  BY PageFacts
<1>3. /\ Highest(U) \in Marks /\ Highest(U) \in Nat /\ Highest(U) <= last[1]
      /\ \A i \in U : i <= Highest(U)
  BY <1>2, NewMark
<1>4. \A i \in I : i > Last(1) /\ i \notin Unwanted
  OBVIOUS
<1>5. ASSUME Last(1) = 0, ~Blind, NEW i \in feed[1] \ Unwanted
      PROVE  i <= Highest(U)
  <2>1. Page \in SUBSET feed[1] /\ feed[1] \subseteq Nat \ {0}
    BY PageFacts, Facts
  <2>2. CASE i \in Page
    <3>1. i \in U
      BY <1>5, <2>1, <2>2
    <3> QED
      BY <1>3, <3>1
  <2>3. CASE i \notin Page
    <3>1. Page # {}
      BY <1>5, PageFacts
    <3>2. PICK w \in Page : w \notin Unwanted
      BY <1>5, <3>1 DEF Blind, Bluesky
    <3>3. w \in U /\ w \in Nat
      BY <1>5, <2>1, <3>2
    <3>4. ~(i > w)
      BY <1>5, <2>3, PageFacts
    <3> QED
      BY <1>3, <1>5, <2>1, <3>3, <3>4
  <2> QED
    BY <2>2, <2>3
<1> HIDE DEF I, U
<1> QED
  BY <1>1, <1>2, <1>3, <1>4, <1>5, OneListSound DEF Several, Bluesky

LEMMA BlueskyUserSound ==
    ASSUME State, NEW bad, kind = "bluesky:user"
    PROVE  Sound(BlueskyUser, {1}, bad)
<1> DEFINE P == Page \ Unwanted
           I == DownTo(P, Last(1))
           m == IF Last(1) = 0 THEN Highest(I) ELSE Last(1)
<1>1. BlueskyUser.items = On(1, I) /\ BlueskyUser.mark = Single(m)
  BY DEF BlueskyUser
<1>2. I \in SUBSET feed[1] /\ I \in SUBSET (feed[1] \cup {Last(1)}) /\ I \subseteq P /\ P \in SUBSET feed[1]
  BY PageFacts DEF DownTo
<1>3. /\ Highest(I) \in Marks /\ Highest(I) \in Nat /\ Highest(I) <= last[1]
      /\ \A i \in I : i <= Highest(I)
      /\ Highest(I) \in I \cup {0}
  BY <1>2, NewMark
<1>4. /\ Last(1) \in Marks /\ Last(1) \in Nat /\ Last(1) <= last[1]
      /\ feed[1] \subseteq Nat \ {0}
  BY Facts
<1>5. m \in Marks /\ m <= last[1] /\ Last(1) <= m
  BY <1>3, <1>4
<1>6. Last(1) = 0 \/ Last(1) \notin Unwanted
  BY DEF State, MarksBehind, Last
<1>7. m = 0 \/ m \notin Unwanted
  BY <1>2, <1>3, <1>6
<1>8. \A i \in I : i > Last(1) \/ Lost(1)
  <2>1. Last(1) = 0 \/ Last(1) \in P \/ Lost(1)
    BY <1>6 DEF Lost, ByItem, Page
  <2> QED
    BY <1>2, <2>1, DownToMark
<1>9. ASSUME Last(1) = 0, ~Blind, NEW i \in feed[1] \ Unwanted
      PROVE  i <= m
  <2>1. Page \in SUBSET feed[1]
    BY PageFacts
  <2>2. I = P /\ m = Highest(I)
    BY <1>2, <1>4, <1>9 DEF DownTo
  <2>3. CASE i \in Page
    BY <1>3, <1>9, <2>2, <2>3
  <2>4. CASE i \notin Page
    <3>1. Page # {}
      BY <1>9, PageFacts
    <3>2. PICK w \in Page : w \notin Unwanted
      BY <1>9, <3>1 DEF Blind, Bluesky
    <3>3. w <= m /\ w \in Nat /\ m \in Nat
      BY <1>3, <1>4, <2>1, <2>2, <3>2
    <3>4. ~(i > w)
      BY <1>9, <2>4, PageFacts
    <3> QED
      BY <1>4, <1>9, <3>3, <3>4
  <2> QED
    BY <2>3, <2>4
<1>10. \A i \in I : i \notin Unwanted
  BY <1>2
<1> HIDE DEF P, I, m
<1> QED
  BY <1>1, <1>2, <1>5, <1>7, <1>8, <1>9, <1>10, OneListSound DEF Several, Bluesky

LEMMA MonitorHNSound ==
    ASSUME State, NEW ok \in {{}, {1}}, NEW bad, kind = "monitor-hn"
    PROVE  Sound(MonitorHN(ok, bad), ok, bad)
<1>1. CASE ok = {}
  <2> DEFINE r == MonitorHN(ok, bad)
  <2>1. r.items = {} /\ r.mark = Single(Last(1))
    BY <1>1 DEF MonitorHN
  <2>2. Last(1) \in Marks /\ 0 \in Marks /\ 1 \in Lists /\ Watched = {1}
    BY Facts DEF Watched, Several
  <2>3. r.mark \in [Lists -> Marks] /\ \A l \in Lists : SameMark(r, l)
    BY <2>1, <2>2 DEF Single, SameMark
  <2> QED
    BY <1>1, <2>1, <2>3 DEF Sound
<1>2. CASE ok = {1}
  <2> DEFINE I == {i \in Above(1) : <<1, i>> \notin bad}
             m == IF feed[1] = {} THEN Last(1) ELSE Highest(feed[1])
  <2>1. MonitorHN(ok, bad).items = On(1, I) /\ MonitorHN(ok, bad).mark = Single(m)
    BY <1>2 DEF MonitorHN, On
  <2>2. I \in SUBSET feed[1] /\ \A i \in I : i > Last(1)
    BY DEF Above
  <2>3. m \in Marks /\ m <= last[1] /\ \A i \in feed[1] : i <= m
    <3>1. CASE feed[1] = {}
      BY <3>1, Facts
    <3>2. CASE feed[1] # {}
      BY <3>2, NewMark
    <3> QED
      BY <3>1, <3>2
  <2> HIDE DEF I, m
  <2> QED
    BY <1>2, <2>1, <2>2, <2>3, OneListSound DEF Several, Bluesky
<1> QED
  BY <1>1, <1>2

\* The highest of what a list shows, perhaps with its watermark.
LEMMA ListMark ==
    ASSUME State, NEW l \in Lists, NEW U \in SUBSET (feed[l] \cup {Last(l)}), feed[l] \subseteq U
    PROVE  /\ Highest(U) \in Marks /\ Highest(U) <= last[l]
           /\ \A i \in feed[l] : i <= Highest(U)
<1>1. /\ last[l] \in Nat /\ feed[l] \in SUBSET (0..last[l]) /\ feed[l] \subseteq Items
      /\ Last(l) \in Nat /\ Last(l) <= last[l] /\ Last(l) \in Marks /\ Marks = Items \cup {0}
  BY Facts
<1>2. U \in SUBSET (0..last[l]) /\ U \subseteq Marks /\ 0 \in Marks
  BY <1>1
<1>3. Highest(U) \in U \cup {0} /\ Highest(U) \in 0..last[l] /\ \A i \in U : i <= Highest(U)
  BY <1>1, <1>2, HighestIsMax
<1>4. Highest(U) \in Marks
  BY <1>2, <1>3, Zenon
<1> QED
  BY <1>1, <1>3, <1>4

\* The watermarks of the monitors that take the top of each list.
TopMarks(ok) == [l \in Lists |-> IF l \in ok /\ feed[l] # {} THEN Highest(feed[l]) ELSE Last(l)]

\* The result of such a monitor of several lists.
LEMMA TopSound ==
    ASSUME State, NEW bad, NEW ok \in SUBSET Lists,
           kind \in {"rss:default", "web:default", "monitor-reddit"},
           NEW r, r.mark = TopMarks(ok),
           \A x \in r.items : /\ x \in ok \X Items /\ x[2] \in feed[x[1]]
                              /\ x[2] > Last(x[1]) \/ Lost(x[1])
    PROVE  Sound(r, ok, bad)
<1> DEFINE m(l) == IF l \in ok /\ feed[l] # {} THEN Highest(feed[l]) ELSE Last(l)
<1>1. ASSUME NEW l \in Lists
      PROVE  m(l) \in Marks /\ m(l) <= last[l] /\ (l \in ok => \A i \in feed[l] : i <= m(l))
  <2>1. CASE l \in ok /\ feed[l] # {}
    BY <2>1, ListMark
  <2>2. CASE ~(l \in ok /\ feed[l] # {})
    BY <2>2, Facts
  <2> QED
    BY <2>1, <2>2
<1>2. \A l \in Lists : r.mark[l] = m(l)
  BY DEF TopMarks
<1>3. r.mark \in [Lists -> Marks]
  BY <1>1 DEF TopMarks
<1>4. \A l \in ok : r.mark[l] <= last[l] /\ \A i \in feed[l] : i <= r.mark[l]
  BY <1>1, <1>2
<1>5. \A l \in Lists \ ok : SameMark(r, l)
  BY <1>2 DEF SameMark
<1> QED
  BY <1>3, <1>4, <1>5, CoveringSound DEF Bluesky

\* An item on list l that is shown.
LEMMA ShownItem ==
    ASSUME State, NEW ok \in SUBSET Lists, NEW l \in ok, NEW i \in feed[l], NEW x, x = <<l, i>>
    PROVE  x \in ok \X Items /\ x[1] = l /\ x[2] = i /\ x[2] \in feed[x[1]]
BY Facts

\* On a page of list l, down to the remembered item.
LEMMA DownToLast ==
    ASSUME State, NEW l \in Lists, NEW page \in SUBSET feed[l], NEW i \in DownTo(page, Last(l)),
           Last(l) \in page \/ Last(l) = 0
    PROVE  i > Last(l)
<1>1. i \in Items /\ Items \subseteq Nat \ {0} /\ Last(l) \in Nat
  BY Facts DEF DownTo
<1> QED
  BY <1>1 DEF DownTo

LEMMA RSSSound ==
    ASSUME State, NEW ok \in SUBSET Lists, NEW bad, kind = "rss:default"
    PROVE  Sound(RSS(ok), ok, bad)
<1>1. RSS(ok).mark = TopMarks(ok)
  BY DEF RSS, TopMarks
<1>2. ASSUME NEW x \in RSS(ok).items
      PROVE  /\ x \in ok \X Items /\ x[2] \in feed[x[1]]
             /\ x[2] > Last(x[1]) \/ Lost(x[1])
  <2>1. PICK l \in ok : x \in On(l, Newest(DownTo(feed[l], Last(l)), Cap))
    BY <1>2 DEF RSS, FirstOf
  <2>2. PICK i \in DownTo(feed[l], Last(l)) : x = <<l, i>>
    BY <2>1 DEF On, Newest
  <2>3. i \in feed[l]
    BY DEF DownTo
  <2>4. i > Last(l) \/ Lost(l)
    BY DownToLast DEF Lost, ByItem
  <2>5. x \in ok \X Items /\ x[1] = l /\ x[2] = i /\ x[2] \in feed[x[1]]
    BY <2>2, <2>3, ShownItem
  <2> QED
    BY <2>4, <2>5
<1> QED
  BY <1>1, <1>2, TopSound

LEMMA ChangedetectSound ==
    ASSUME State, NEW ok \in SUBSET Lists, NEW bad, kind = "web:default"
    PROVE  Sound(Changedetect(ok, bad), ok, bad)
<1>1. Changedetect(ok, bad).mark = TopMarks(ok)
  BY DEF Changedetect, TopMarks
<1>2. ASSUME NEW x \in Changedetect(ok, bad).items
      PROVE  /\ x \in ok \X Items /\ x[2] \in feed[x[1]]
             /\ x[2] > Last(x[1]) \/ Lost(x[1])
  <2>1. PICK l \in ok : x \in On(l, Newest(Above(l), Cap))
    BY <1>2 DEF Changedetect
  <2>2. PICK i \in Above(l) : x = <<l, i>>
    BY <2>1 DEF On, Newest
  <2>3. i \in feed[l] /\ i > Last(l)
    BY DEF Above
  <2>4. x \in ok \X Items /\ x[1] = l /\ x[2] = i /\ x[2] \in feed[x[1]]
    BY <2>2, <2>3, ShownItem
  <2> QED
    BY <2>3, <2>4
<1> QED
  BY <1>1, <1>2, TopSound

LEMMA MonitorRedditSound ==
    ASSUME State, NEW ok \in SUBSET Lists, NEW bad, kind = "monitor-reddit"
    PROVE  Sound(MonitorReddit(ok, bad), ok, bad)
<1>1. MonitorReddit(ok, bad).mark = TopMarks(ok)
  BY DEF MonitorReddit, TopMarks
<1>2. ASSUME NEW x \in MonitorReddit(ok, bad).items
      PROVE  /\ x \in ok \X Items /\ x[2] \in feed[x[1]]
             /\ x[2] > Last(x[1]) \/ Lost(x[1])
  <2>1. PICK l \in ok : x \in On(l, DownTo(Newest(feed[l], Cap), Last(l)))
    BY <1>2 DEF MonitorReddit
  <2>2. PICK i \in DownTo(Newest(feed[l], Cap), Last(l)) : x = <<l, i>>
    BY <2>1 DEF On
  <2>3. i \in feed[l] /\ Newest(feed[l], Cap) \in SUBSET feed[l]
    BY DEF DownTo, Newest
  <2>4. i > Last(l) \/ Lost(l)
    BY <2>3, DownToLast DEF Lost, ByItem
  <2>5. x \in ok \X Items /\ x[1] = l /\ x[2] = i /\ x[2] \in feed[x[1]]
    BY <2>2, <2>3, ShownItem
  <2> QED
    BY <2>4, <2>5
<1> QED
  BY <1>1, <1>2, TopSound

LEMMA HNAccountSound ==
    ASSUME State, NEW ok \in SUBSET Lists, NEW bad, kind = "hn:account"
    PROVE  Sound(HNAccount(ok, bad), ok, bad)
<1> DEFINE r == HNAccount(ok, bad)
           m(l) == IF l \in ok THEN Highest(feed[l] \cup {Last(l)}) ELSE Last(l)
<1>1. ASSUME NEW l \in Lists
      PROVE  m(l) \in Marks /\ m(l) <= last[l] /\ (l \in ok => \A i \in feed[l] : i <= m(l))
  <2>1. CASE l \in ok
    BY <2>1, ListMark
  <2>2. CASE l \notin ok
    BY <2>2, Facts
  <2> QED
    BY <2>1, <2>2
<1>2. r.mark = [l \in Lists |-> m(l)]
  BY DEF HNAccount
<1>3. ASSUME NEW x \in r.items
      PROVE  /\ x \in ok \X Items /\ x[2] \in feed[x[1]]
             /\ x[2] > Last(x[1]) \/ Lost(x[1])
  <2>1. PICK l \in ok : x \in On(l, Above(l))
    BY <1>3 DEF HNAccount
  <2>2. PICK i \in Above(l) : x = <<l, i>>
    BY <2>1 DEF On
  <2>3. i \in feed[l] /\ i > Last(l)
    BY DEF Above
  <2>4. x \in ok \X Items /\ x[1] = l /\ x[2] = i /\ x[2] \in feed[x[1]]
    BY <2>2, <2>3, ShownItem
  <2> QED
    BY <2>3, <2>4
<1>4. r.mark \in [Lists -> Marks]
  BY <1>1, <1>2
<1>5. \A l \in ok : r.mark[l] <= last[l] /\ \A i \in feed[l] : i <= r.mark[l]
  BY <1>1, <1>2
<1>6. \A l \in Lists \ ok : SameMark(r, l)
  BY <1>2 DEF SameMark
<1> HIDE DEF r
<1>7. Sound(r, ok, bad)
  BY <1>3, <1>4, <1>5, <1>6, CoveringSound DEF Bluesky
<1> QED
  BY <1>7 DEF r

\* The result of a poll is sound, whatever the kind.
LEMMA PollSound ==
    ASSUME State, NEW ok \in Available, NEW bad \in Unavailable
    PROVE  Sound(Result(ok, bad), ok, bad)
<1> USE DEF Result
<1>1. kind \in AllKinds /\ ok \in SUBSET Lists
  BY Facts, KindsAssumption DEF State, TypeOK, Available
<1>2. kind \notin Several \cup Standalone => ok = {1}
  BY OneList
<1>3. kind = "monitor-hn" => ok \in {{}, {1}}
  BY OneList DEF Several
<1>4. CASE kind = "rss:default"
  BY <1>1, <1>4, RSSSound
<1>5. CASE kind = "reddit:thread"
  BY <1>2, <1>5, RedditThreadSound DEF Several, Standalone
<1>6. CASE kind = "reddit:subreddit"
  BY <1>2, <1>6, SubredditSound DEF Several, Standalone
<1>7. CASE kind = "reddit:account"
  BY <1>2, <1>7, RedditAccountSound DEF Several, Standalone
<1>8. CASE kind = "hn:thread"
  BY <1>2, <1>8, HNThreadSound DEF Several, Standalone
<1>9. CASE kind = "hn:keywords"
  BY <1>2, <1>9, HNNewSound DEF Several, Standalone
<1>10. CASE kind = "hn:account"
  BY <1>1, <1>10, HNAccountSound
<1>11. CASE kind = "bluesky:account"
  BY <1>2, <1>11, BlueskyAccountSound DEF Several, Standalone
<1>12. CASE kind = "bluesky:user"
  BY <1>2, <1>12, BlueskyUserSound DEF Several, Standalone
<1>13. CASE kind = "web:default"
  BY <1>1, <1>13, ChangedetectSound
<1>14. CASE kind = "monitor-hn"
  BY <1>3, <1>14, MonitorHNSound
<1>15. CASE kind = "monitor-reddit"
  BY <1>1, <1>15, MonitorRedditSound
<1> QED
  BY <1>1, <1>4, <1>5, <1>6, <1>7, <1>8, <1>9, <1>10, <1>11, <1>12, <1>13, <1>14, <1>15 DEF AllKinds

-----------------------------------------------------------------------------
(***************************************************************************)
(* What is remembered.                                                     *)
(***************************************************************************)

FeedInv ==
    /\ TypeOK
    /\ Shown
    /\ BeforeFirstPoll
    /\ MarksBehind
    /\ ReturnedBehind
    /\ StartBehind
    /\ OnlyNew

LEMMA FeedInit ==
    ASSUME Init
    PROVE  FeedInv
<1>1. \A l \in Lists : MaxItem[l] \in Nat
  BY BoundsAssumption DEF Lists
<1>2. TypeOK
  BY DEF Init, TypeOK, Marks
<1>3. Shown
  BY <1>1 DEF Init, Shown
<1>4. BeforeFirstPoll /\ MarksBehind /\ ReturnedBehind /\ StartBehind /\ OnlyNew
  BY DEF Init, BeforeFirstPoll, MarksBehind, ReturnedBehind, StartBehind, OnlyNew
<1> QED
  BY <1>2, <1>3, <1>4 DEF FeedInv

\* A new item is above all that is remembered.
LEMMA AppearKeeps ==
    ASSUME FeedInv, NEW l \in Lists, Appear(l)
    PROVE  FeedInv'
<1> DEFINE n == last[l] + 1
<1>1. State
  BY DEF FeedInv, State
<1>2. \A k \in Lists : last[k] \in Nat /\ at[k] \in Nat /\ at[k] <= last[k] /\ MaxItem[k] \in Nat
  BY <1>1, Facts, BoundsAssumption DEF Lists
<1>3. /\ l \in Watched /\ last[l] < MaxItem[l]
      /\ last' = [last EXCEPT ![l] = n]
      /\ feed' = [feed EXCEPT ![l] = @ \cup {n}]
      /\ out' = {} /\ missed' = {}
      /\ UNCHANGED <<kind, mark, seen, at, start, loose>>
  BY DEF Appear, Quiet, history
<1>4. /\ feed \in [Lists -> SUBSET Items] /\ last \in [Lists -> Marks]
      /\ feed' \in [Lists -> SUBSET Items] /\ last' \in [Lists -> Marks]
      /\ feed'[l] = feed[l] \cup {n} /\ last'[l] = n
      /\ \A k \in Lists \ {l} : feed'[k] = feed[k] /\ last'[k] = last[k]
  <2>1. n \in 1..MaxItem[l]
    BY <1>2, <1>3
  <2>2. n \in Items /\ n \in Marks
    BY <2>1 DEF Items, Marks
  <2>3. feed \in [Lists -> SUBSET Items] /\ last \in [Lists -> Marks]
    BY DEF FeedInv, TypeOK
  <2> QED
    BY <1>3, <2>2, <2>3
<1>5. TypeOK'
  BY <1>3, <1>4 DEF FeedInv, TypeOK
<1>6. Shown'
  <2>1. Watched' = Watched
    BY <1>3 DEF Watched
  <2>2. \A k \in Lists \ Watched : feed'[k] = {}
    BY <1>3, <1>4 DEF FeedInv, Shown
  <2>3. ASSUME NEW k \in Lists
        PROVE  /\ feed'[k] \subseteq 1..last'[k]
               /\ last'[k] <= MaxItem[k]
               /\ at'[k] <= last'[k]
               /\ start'[k] # None => start'[k] <= last'[k]
    <3>1. /\ feed[k] \subseteq 1..last[k] /\ last[k] <= MaxItem[k]
          /\ start[k] # None => start[k] <= last[k]
      BY DEF FeedInv, Shown
    <3>2. start[k] \in Nat \cup {None}
      BY <1>1, Facts DEF FeedInv, TypeOK
    <3> QED
      BY <1>2, <1>3, <1>4, <3>1, <3>2
  <2>4. \A x \in seen' : x[2] <= last'[x[1]]
    <3>1. ASSUME NEW x \in seen
          PROVE  x[2] <= last'[x[1]]
      <4>1. x[1] \in Lists /\ x[2] \in Nat /\ x[2] <= last[x[1]]
        BY <1>1, Facts DEF FeedInv, TypeOK, Shown
      <4> QED
        BY <1>2, <1>4, <4>1
    <3> QED
      BY <1>3, <3>1
  <2> QED
    BY <2>1, <2>2, <2>3, <2>4 DEF Shown
<1>7. BeforeFirstPoll'
  BY <1>3 DEF FeedInv, BeforeFirstPoll
<1>8. MarksBehind'
  BY <1>2, <1>3, <1>4 DEF FeedInv, MarksBehind
<1>9. ReturnedBehind'
  <2>1. SUFFICES ASSUME mark # None, kind \notin {"reddit:thread", "bluesky:user"},
                        NEW x \in seen, x[2] \in feed'[x[1]]
                 PROVE  \/ x[2] <= mark[x[1]]
                        \/ kind \in Standalone /\ x[1] \in loose /\ mark[x[1]] = 0
    BY <1>3 DEF ReturnedBehind
  <2>2. x[1] \in Lists /\ x[2] \in Nat /\ x[2] <= last[x[1]]
    BY <1>1, Facts DEF FeedInv, TypeOK, Shown
  <2>3. x[2] \in feed[x[1]]
    BY <1>2, <1>4, <2>1, <2>2
  <2> QED
    BY <2>1, <2>3 DEF FeedInv, ReturnedBehind
<1>10. StartBehind'
  <2>1. SUFFICES ASSUME mark # None, kind # "reddit:thread", NEW k \in Watched \ loose,
                        NEW i \in feed'[k], start[k] # None => i <= start[k]
                 PROVE  start[k] # None /\ (i <= mark[k] \/ (kind \in Bluesky /\ i \in Unwanted))
    <3>1. Watched' = Watched
      BY <1>3 DEF Watched
    <3>2. \A k \in Watched \ loose : mark # None /\ kind # "reddit:thread" => start[k] # None
      BY DEF FeedInv, StartBehind
    <3> QED
      BY <1>3, <2>1, <3>1, <3>2 DEF StartBehind
  <2>2. start[k] # None /\ start[k] \in Nat /\ start[k] <= last[k] /\ k \in Lists
    BY <1>1, <2>1, Facts DEF FeedInv, TypeOK, Shown, StartBehind
  <2>3. i \in feed[k]
    BY <1>2, <1>4, <2>1, <2>2
  <2> QED
    BY <2>1, <2>2, <2>3 DEF FeedInv, StartBehind
<1>11. OnlyNew'
  BY <1>3 DEF OnlyNew
<1> QED
  BY <1>5, <1>6, <1>7, <1>8, <1>9, <1>10, <1>11 DEF FeedInv

\* What vanishes is remembered nowhere else.
LEMMA VanishKeeps ==
    ASSUME FeedInv, NEW l \in Lists, NEW i \in Items, Vanish(l, i)
    PROVE  FeedInv'
<1>1. /\ feed' = [feed EXCEPT ![l] = @ \ {i}]
      /\ out' = {} /\ missed' = {}
      /\ UNCHANGED <<kind, last, mark, seen, at, start, loose>>
  BY DEF Vanish, Quiet, history
<1>2. feed \in [Lists -> SUBSET Items]
  BY DEF FeedInv, TypeOK
<1>3. feed' \in [Lists -> SUBSET Items] /\ \A k \in Lists : feed'[k] \subseteq feed[k]
  BY <1>1, <1>2
<1>4. Watched' = Watched /\ Watched \subseteq Lists
  BY <1>1, Facts DEF Watched, FeedInv, State
<1>5. TypeOK'
  BY <1>1, <1>3 DEF FeedInv, TypeOK
<1>6. Shown'
  BY <1>1, <1>3, <1>4 DEF FeedInv, Shown
<1>7. BeforeFirstPoll'
  BY <1>1 DEF FeedInv, BeforeFirstPoll
<1>8. MarksBehind'
  BY <1>1, <1>3 DEF FeedInv, MarksBehind
<1>9. ReturnedBehind'
  <2>1. \A x \in seen : x[1] \in Lists
    BY DEF FeedInv, TypeOK
  <2> QED
    BY <1>1, <1>3, <2>1 DEF FeedInv, ReturnedBehind
<1>10. StartBehind'
  BY <1>1, <1>3, <1>4 DEF FeedInv, StartBehind
<1>11. OnlyNew'
  BY <1>1 DEF OnlyNew
<1> QED
  BY <1>5, <1>6, <1>7, <1>8, <1>9, <1>10, <1>11 DEF FeedInv

\* A standalone poller that starts anew has no watermark.
LEMMA RestartKeeps ==
    ASSUME FeedInv, Restart
    PROVE  FeedInv'
<1>1. /\ kind \in Standalone /\ mark' = None
      /\ out' = {} /\ missed' = {}
      /\ UNCHANGED <<kind, feed, last, seen, at, start, loose>>
  BY DEF Restart, Quiet, history
<1>2. Watched' = Watched
  BY <1>1 DEF Watched
<1>3. TypeOK' /\ Shown'
  BY <1>1, <1>2 DEF FeedInv, TypeOK, Shown
<1>4. BeforeFirstPoll' /\ MarksBehind' /\ ReturnedBehind' /\ StartBehind' /\ OnlyNew'
  BY <1>1 DEF BeforeFirstPoll, MarksBehind, ReturnedBehind, StartBehind, OnlyNew
<1> QED
  BY <1>3, <1>4 DEF FeedInv

\* A sound result keeps the invariant.
LEMMA PollKeeps ==
    ASSUME FeedInv, NEW ok \in Available, NEW bad \in Unavailable, Poll(ok, bad)
    PROVE  FeedInv'
<1> DEFINE r == Result(ok, bad)
<1>1. State /\ Sound(r, ok, bad)
  BY PollSound DEF FeedInv, State
<1>2. ok \in SUBSET Watched /\ Watched \subseteq Lists /\ bad \subseteq UNION {On(l, feed[l]) : l \in Watched}
  BY <1>1, Facts DEF Available, Unavailable
<1>3. /\ mark' = r.mark /\ missed' = bad
      /\ out' = Delivered(r.items)
      /\ seen' = seen \cup r.items
      /\ at' = [l \in Lists |-> IF l \in ok THEN last[l] ELSE at[l]]
      /\ mark = None => /\ start' = [l \in Lists |-> IF l \in ok THEN last[l] ELSE None]
                        /\ loose' = (Watched \ ok) \cup {x[1] : x \in bad} \cup {l \in ok : Blind}
      /\ mark # None => start' = start /\ loose' = loose \cup {l \in ok : Lost(l)}
      /\ UNCHANGED <<kind, feed, last>>
  BY DEF Poll
<1>4. /\ r.mark \in [Lists -> Marks]
      /\ \A x \in r.items : SoundItem(r, ok, x)
      /\ \A l \in ok : SoundMark(r, bad, l)
      /\ \A l \in Lists \ ok : SameMark(r, l)
  BY <1>1, <1>2 DEF Sound
<1> HIDE DEF r
<1>5. /\ Marks \subseteq Nat /\ Items \subseteq Nat
      /\ \A l \in Lists : /\ last[l] \in Nat /\ at[l] \in Nat /\ at[l] <= last[l] /\ r.mark[l] \in Nat
                          /\ feed[l] \subseteq Nat \ {0} /\ Last(l) \in Nat /\ Last(l) <= at[l]
  <2>1. Marks \subseteq Nat /\ Items \subseteq Nat
    BY <1>1, Facts
  <2> QED
    BY <1>1, <1>4, <2>1, Facts
<1>6. mark' # None
  <2>1. r.mark \in [1..NumLists -> Nat]
    BY <1>4, <1>5 DEF Lists
  <2> QED
    BY <1>3, <2>1, NoneAssumption
<1>7. out' \subseteq r.items /\ (mark = None => out' = {})
  BY <1>3 DEF Delivered
<1>8. Watched' = Watched
  BY <1>3 DEF Watched
<1>9. TypeOK'
  <2>1. r.items \subseteq Lists \X Items
    BY <1>2, <1>4 DEF SoundItem
  <2>2. seen' \cup missed' \subseteq Lists \X Items
    <3>1. bad \subseteq Lists \X Items
      <4>1. \A l \in Lists : feed[l] \subseteq Items
        BY DEF FeedInv, TypeOK
      <4>2. ASSUME NEW l \in Watched
            PROVE  On(l, feed[l]) \subseteq Lists \X Items
        BY <1>2, <4>1 DEF On
      <4> QED
        BY <1>2, <4>2
    <3> QED
      BY <1>3, <2>1, <3>1 DEF FeedInv, TypeOK
  <2>3. out' \subseteq seen'
    BY <1>3, <1>7
  <2>4. at' \in [Lists -> Marks] /\ start' \in [Lists -> Marks \cup {None}]
    BY <1>3 DEF FeedInv, TypeOK
  <2>5. loose' \subseteq Lists
    <3>1. \A x \in bad : x[1] \in Lists
      BY <2>2, <1>3
    <3> QED
      BY <1>2, <1>3, <3>1 DEF FeedInv, TypeOK
  <2> QED
    BY <1>3, <1>4, <2>2, <2>3, <2>4, <2>5 DEF FeedInv, TypeOK
<1>10. Shown'
  <2>1. ASSUME NEW l \in Lists
        PROVE  at'[l] <= last'[l] /\ (start'[l] # None => start'[l] <= last'[l])
    <3>1. at'[l] <= last'[l]
      BY <1>3, <1>5
    <3>2. start'[l] # None => start'[l] <= last'[l]
      BY <1>3, <1>5 DEF FeedInv, Shown
    <3> QED
      BY <3>1, <3>2
  <2>2. \A x \in seen' : x[2] <= last'[x[1]]
    <3>1. ASSUME NEW x \in r.items
          PROVE  x[2] <= last[x[1]]
      <4>1. x[1] \in Lists /\ x[2] \in feed[x[1]]
        BY <1>2, <1>4 DEF SoundItem
      <4>2. feed[x[1]] \subseteq 1..last[x[1]]
        BY <4>1 DEF FeedInv, Shown
      <4> QED
        BY <1>5, <4>1, <4>2
    <3> QED
      BY <1>3, <3>1 DEF FeedInv, Shown
  <2> QED
    BY <1>3, <1>8, <2>1, <2>2 DEF FeedInv, Shown
<1>11. BeforeFirstPoll'
  BY <1>6 DEF BeforeFirstPoll
<1>12. MarksBehind'
  <2>1. ASSUME NEW l \in Lists
        PROVE  mark'[l] <= at'[l]
    <3>1. CASE l \in ok
      BY <1>3, <1>4, <3>1 DEF SoundMark
    <3>2. CASE l \notin ok
      BY <1>3, <1>4, <1>5, <3>2 DEF SameMark
    <3> QED
      BY <3>1, <3>2
  <2>2. ASSUME kind = "rss:default", NEW l \in Lists, NEW i \in feed[l]
        PROVE  i <= mark'[l] \/ i > at'[l]
    <3>1. CASE l \in ok
      BY <1>3, <1>4, <2>2, <3>1 DEF SoundMark, Bluesky
    <3>2. CASE l \notin ok
      <4>1. mark'[l] = Last(l) /\ at'[l] = at[l]
        BY <1>3, <1>4, <2>2, <3>2 DEF SameMark, Watched, Several
      <4>2. CASE mark = None
        <5>1. at[l] = 0
          BY <2>2, <4>2 DEF FeedInv, BeforeFirstPoll, Standalone
        <5> QED
          BY <1>5, <2>2, <4>1, <5>1
      <4>3. CASE mark # None
        BY <2>2, <4>1, <4>3 DEF FeedInv, MarksBehind, Last
      <4> QED
        BY <4>2, <4>3
    <3> QED
      BY <3>1, <3>2
  <2>3. kind = "bluesky:user" => mark'[1] = 0 \/ mark'[1] \notin Unwanted
    <3>1. kind = "bluesky:user" => 1 \in ok
      BY <1>1, OneList DEF Several, Standalone
    <3> QED
      BY <1>3, <1>4, <3>1 DEF SoundMark
  <2> QED
    BY <1>3, <2>1, <2>2, <2>3 DEF MarksBehind
<1>13. ReturnedBehind'
  <2>1. SUFFICES ASSUME kind \notin {"reddit:thread", "bluesky:user"},
                        NEW x \in seen', x[2] \in feed[x[1]]
                 PROVE  \/ x[2] <= r.mark[x[1]]
                        \/ kind \in Standalone /\ x[1] \in loose' /\ r.mark[x[1]] = 0
    BY <1>3 DEF ReturnedBehind
  <2>2. CASE x \in r.items
    BY <1>4, <2>1, <2>2 DEF SoundItem
  <2>3. CASE x \in seen
    <3> DEFINE l == x[1]
    <3>1. l \in Lists /\ x[2] \in feed[l] /\ x[2] \in Nat
      BY <1>5, <2>1, <2>3 DEF FeedInv, TypeOK
    <3>2. mark # None => x[2] <= Last(l) \/ (kind \in Standalone /\ l \in loose /\ Last(l) = 0)
      BY <2>1, <2>3 DEF FeedInv, ReturnedBehind, Last
    <3>3. mark = None => kind \in Standalone
      BY <2>3 DEF FeedInv, BeforeFirstPoll
    <3>4. l \in Watched
      BY <3>1 DEF FeedInv, Shown
    <3>5. CASE l \in ok
      <4>1. CASE kind \in Bluesky \cup {"hn:thread"}
        <5>1. x[2] <= Last(l) /\ Last(l) <= r.mark[l]
          BY <1>4, <3>2, <3>3, <3>5, <4>1 DEF SoundMark, Standalone, Bluesky
        <5> QED
          BY <1>5, <3>1, <5>1
      <4>2. CASE kind \notin Bluesky \cup {"hn:thread"}
        BY <1>4, <3>1, <3>5, <4>2 DEF SoundMark
      <4> QED
        BY <4>1, <4>2
    <3>6. CASE l \notin ok
      <4>1. r.mark[l] = Last(l)
        BY <1>4, <3>1, <3>4, <3>6 DEF SameMark
      <4>2. CASE mark = None
        BY <1>3, <3>3, <3>4, <3>6, <4>1, <4>2 DEF Last
      <4>3. CASE mark # None
        BY <1>3, <3>2, <4>1, <4>3
      <4> QED
        BY <4>2, <4>3
    <3> QED
      BY <3>5, <3>6
  <2> QED
    BY <1>3, <2>1, <2>2, <2>3
<1>14. StartBehind'
  <2>1. SUFFICES ASSUME kind # "reddit:thread", NEW l \in Watched \ loose'
                 PROVE  /\ start'[l] # None
                        /\ \A i \in feed[l] : i <= start'[l] =>
                              i <= r.mark[l] \/ (kind \in Bluesky /\ i \in Unwanted)
    BY <1>3, <1>8 DEF StartBehind
  <2>2. l \in Lists
    BY <1>2
  <2>3. CASE mark = None
    <3>1. l \in ok /\ ~Blind /\ \A x \in bad : x[1] # l
      BY <1>3, <2>1, <2>3
    <3>2. start'[l] = last[l] /\ last[l] # None
      BY <1>3, <1>5, <2>2, <2>3, <3>1, NoneAssumption
    <3>3. ASSUME NEW i \in feed[l]
          PROVE  i <= r.mark[l] \/ (kind \in Bluesky /\ i \in Unwanted)
      <4>1. CASE kind \in Bluesky
        BY <1>4, <2>3, <3>1, <4>1 DEF SoundMark, Last
      <4>2. CASE kind = "hn:thread"
        <5>1. bad = {}
          <6>1. Watched = {1} /\ bad \subseteq On(1, feed[1]) /\ l = 1
            BY <1>1, <1>2, <2>1, <4>2, OneList DEF Several
          <6> QED
            BY <3>1, <6>1 DEF On
        <5> QED
          BY <1>4, <3>1, <4>1, <5>1 DEF SoundMark
      <4>3. CASE kind \notin Bluesky \cup {"hn:thread"}
        BY <1>4, <3>1, <4>3 DEF SoundMark
      <4> QED
        BY <4>1, <4>2, <4>3
    <3> QED
      BY <3>2, <3>3
  <2>4. CASE mark # None
    <3>1. start' = start /\ l \in Watched \ loose
      BY <1>3, <2>1, <2>4
    <3>2. /\ start[l] # None
          /\ \A i \in feed[l] : i <= start[l] => i <= Last(l) \/ (kind \in Bluesky /\ i \in Unwanted)
      BY <2>1, <2>4, <3>1 DEF FeedInv, StartBehind, Last
    <3>3. ASSUME NEW i \in feed[l], i <= Last(l)
          PROVE  i <= r.mark[l]
      <4>1. i \in Nat /\ Last(l) \in Nat /\ r.mark[l] \in Nat
        BY <1>5, <2>2
      <4>2. CASE l \notin ok
        BY <1>4, <2>2, <3>1, <3>3, <4>2 DEF SameMark
      <4>3. CASE l \in ok /\ kind \in Bluesky \cup {"hn:thread"}
        BY <1>4, <3>3, <4>1, <4>3 DEF SoundMark
      <4>4. CASE l \in ok /\ kind \notin Bluesky \cup {"hn:thread"}
        BY <1>4, <4>4 DEF SoundMark
      <4> QED
        BY <4>2, <4>3, <4>4
    <3> QED
      BY <3>1, <3>2, <3>3
  <2> QED
    BY <2>3, <2>4
<1>15. OnlyNew'
  <2>1. SUFFICES ASSUME kind # "reddit:thread", NEW x \in out', x[1] \notin loose'
                 PROVE  start'[x[1]] # None /\ x[2] > start'[x[1]]
    BY <1>3 DEF OnlyNew
  <2> DEFINE l == x[1]
  <2>2. mark # None /\ SoundItem(r, ok, x)
    BY <1>4, <1>7
  <2>3. l \in ok /\ l \in Lists /\ x[2] \in feed[l] /\ l \in Watched \ loose /\ start' = start
    BY <1>2, <1>3, <2>1, <2>2 DEF SoundItem
  <2>4. x[2] > Last(l) /\ (kind \in Bluesky => x[2] \notin Unwanted)
    BY <1>3, <2>1, <2>2, <2>3 DEF SoundItem
  <2>5. /\ start[l] # None
        /\ x[2] <= start[l] => x[2] <= Last(l) \/ (kind \in Bluesky /\ x[2] \in Unwanted)
    BY <2>1, <2>2, <2>3 DEF FeedInv, StartBehind, Last
  <2>6. start[l] \in Nat /\ x[2] \in Nat /\ Last(l) \in Nat
    BY <1>5, <2>3, <2>5 DEF FeedInv, TypeOK
  <2> QED
    BY <2>3, <2>4, <2>5, <2>6
<1> QED
  BY <1>9, <1>10, <1>11, <1>12, <1>13, <1>14, <1>15 DEF FeedInv

LEMMA FeedNext ==
    ASSUME FeedInv, [Next]_vars
    PROVE  FeedInv'
<1>1. ASSUME NEW l \in Lists, Appear(l)
      PROVE  FeedInv'
  BY <1>1, AppearKeeps
<1>2. ASSUME NEW l \in Lists, NEW i \in Items, Vanish(l, i)
      PROVE  FeedInv'
  BY <1>2, VanishKeeps
<1>3. ASSUME NEW ok \in Available, NEW bad \in Unavailable, Poll(ok, bad)
      PROVE  FeedInv'
  BY <1>3, PollKeeps
<1>4. CASE Restart
  BY <1>4, RestartKeeps
<1>5. CASE UNCHANGED vars
  BY <1>5 DEF vars, history, FeedInv, TypeOK, Shown, BeforeFirstPoll, MarksBehind,
              ReturnedBehind, StartBehind, OnlyNew, Watched
<1> QED
  BY <1>1, <1>2, <1>3, <1>4, <1>5 DEF Next

LEMMA FeedInvariant == Spec => []FeedInv
<1>1. Init => FeedInv
  BY FeedInit
<1>2. FeedInv /\ [Next]_vars => FeedInv'
  BY FeedNext
<1> QED
  BY <1>1, <1>2, PTL DEF Spec

-----------------------------------------------------------------------------
(***************************************************************************)
(* The theorems.                                                           *)
(***************************************************************************)

\* The state of a monitor keeps its types, whatever its kind, its lists and
\* its bounds.
THEOREM FeedTypes == Spec => []TypeOK
<1>1. FeedInv => TypeOK
  BY DEF FeedInv
<1> QED
  BY <1>1, FeedInvariant, PTL

\* No kind of monitor delivers what was there when its list was first looked
\* at, unless nothing could be remembered then or the remembered item is gone:
\* the first poll sets the watermark and delivers nothing, and each watermark
\* separates the old from the new.
THEOREM NoOldItems == Spec => []OnlyNew
<1>1. FeedInv => OnlyNew
  BY DEF FeedInv
<1> QED
  BY <1>1, FeedInvariant, PTL

\* What was returned and is still shown is not above the watermark; so it is
\* returned again only from a list that lost the item to look for, or that a
\* standalone poller could not read after its restart.
THEOREM NothingTwice == Spec => ReturnedOnce
<1> DEFINE Once == kind \notin {"reddit:thread", "bluesky:user"} =>
                      \A x \in out' \cap seen :
                          Lost(x[1]) \/ (x[1] \in loose /\ Last(x[1]) = 0)
<1>1. FeedInv /\ [Next]_vars => [Once]_vars
  <2> SUFFICES ASSUME FeedInv, Next,
                      kind \notin {"reddit:thread", "bluesky:user"}, NEW x \in out' \cap seen
               PROVE  Lost(x[1]) \/ (x[1] \in loose /\ Last(x[1]) = 0)
    OBVIOUS
  <2>1. PICK ok \in Available, bad \in Unavailable : Poll(ok, bad)
    BY DEF Next, Appear, Vanish, Restart, Quiet
  <2> DEFINE r == Result(ok, bad)
  <2>2. mark # None /\ x \in r.items
    BY <2>1 DEF Poll, Delivered
  <2>3. State /\ Sound(r, ok, bad)
    BY PollSound DEF FeedInv, State
  <2> HIDE DEF r
  <2>4. SoundItem(r, ok, x)
    BY <2>2, <2>3 DEF Sound
  <2>5. x[1] \in Lists /\ x[2] \in feed[x[1]]
    BY <2>4 DEF SoundItem, FeedInv, TypeOK
  <2>6. x[2] > Last(x[1]) \/ Lost(x[1])
    BY <2>4 DEF SoundItem
  <2>7. x[2] <= Last(x[1]) \/ (x[1] \in loose /\ Last(x[1]) = 0)
    BY <2>2, <2>5 DEF FeedInv, ReturnedBehind, Last
  <2>8. x[2] \in Nat /\ Last(x[1]) \in Nat
    BY <2>3, <2>5, Facts
  <2> QED
    BY <2>6, <2>7, <2>8
<1> QED
  BY <1>1, FeedInvariant, PTL DEF Spec, ReturnedOnce

-----------------------------------------------------------------------------
(***************************************************************************)
(* What is new is delivered.                                               *)
(***************************************************************************)

LEMMA ItemsFinite == IsFiniteSet(Lists \X Items)
<1>1. NumLists \in Int /\ \A l \in Lists : MaxItem[l] \in Int
  BY BoundsAssumption DEF Lists
<1>2. IsFiniteSet(Lists)
  BY <1>1, FS_Interval DEF Lists
<1> DEFINE ranges == {1..MaxItem[l] : l \in Lists}
           f == [l \in Lists |-> 1..MaxItem[l]]
<1>3. f \in Surjection(Lists, ranges)
  BY DEF Surjection
<1>4. IsFiniteSet(ranges)
  <2> HIDE DEF f, ranges
  <2> QED
    BY <1>2, <1>3, FS_Surjection
<1>5. \A T \in ranges : IsFiniteSet(T)
  <2>1. ASSUME NEW l \in Lists
        PROVE  IsFiniteSet(1..MaxItem[l])
    BY <1>1, FS_Interval
  <2> QED
    BY <2>1
<1>6. IsFiniteSet(Items)
  <2>1. Items = UNION ranges
    BY DEF Items
  <2> HIDE DEF ranges
  <2> QED
    BY <1>4, <1>5, <2>1, FS_UNION
<1> QED
  BY <1>2, <1>6, FS_Product

\* All that is new.
NewOnes == UNION {On(k, New(k)) : k \in Lists}

\* There is room for what is new, and no list lost its item.
Room ==
    /\ \A k \in Lists : Cardinality(New(k)) <= Cap /\ ~Lost(k)
    /\ Cardinality(NewOnes) <= Total

LEMMA NewFinite ==
    ASSUME State
    PROVE  /\ IsFiniteSet(NewOnes)
           /\ \A k \in Lists : IsFiniteSet(New(k)) /\ IsFiniteSet(On(k, New(k)))
           /\ \A k \in Lists : Cardinality(New(k)) = Cardinality(On(k, New(k)))
           /\ \A k \in Lists : Cardinality(On(k, New(k))) <= Cardinality(NewOnes)
<1>1. ASSUME NEW k \in Lists
      PROVE  /\ IsFiniteSet(New(k)) /\ On(k, New(k)) \subseteq Lists \X Items
             /\ Cardinality(New(k)) = Cardinality(On(k, New(k)))
  <2>1. New(k) \in SUBSET (0..last[k]) /\ last[k] \in Nat /\ feed[k] \subseteq Items
    BY Facts DEF New
  <2>2. IsFiniteSet(New(k))
    BY <2>1, UpTo
  <2>3. On(k, New(k)) \subseteq Lists \X Items
    BY <2>1 DEF On, New
  <2>4. Cardinality({k} \X New(k)) = Cardinality({k}) * Cardinality(New(k))
    BY <2>2, FS_Product, FS_Singleton
  <2>5. Cardinality({k}) = 1 /\ Cardinality(New(k)) \in Nat
    BY <2>2, FS_Singleton, FS_CardinalityType
  <2>6. Cardinality(New(k)) = Cardinality(On(k, New(k)))
    BY <2>4, <2>5 DEF On
  <2> QED
    BY <2>2, <2>3, <2>6
<1>2. IsFiniteSet(NewOnes)
  <2>1. NewOnes \in SUBSET (Lists \X Items)
    BY <1>1 DEF NewOnes
  <2> QED
    BY <2>1, ItemsFinite, FS_Subset
<1>3. ASSUME NEW k \in Lists
      PROVE  IsFiniteSet(On(k, New(k))) /\ Cardinality(On(k, New(k))) <= Cardinality(NewOnes)
  <2>1. On(k, New(k)) \in SUBSET NewOnes
    BY DEF NewOnes
  <2> QED
    BY <1>2, <2>1, FS_Subset
<1> QED
  BY <1>1, <1>2, <1>3

\* What is new on a list is among its newest: of all it shows, of what is above
\* the watermark, and of what is above the remembered item.
LEMMA NewIsNewest ==
    ASSUME State, NEW l \in Lists, NEW i \in New(l), NEW c \in Nat, Cardinality(New(l)) <= c
    PROVE  /\ i \in feed[l] /\ i > Last(l) /\ i \in Nat /\ Last(l) \in Nat
           /\ i \in Newest(feed[l], c)
           /\ i \in Newest(Above(l), c)
           /\ i \in DownTo(feed[l], Last(l)) /\ i \in Newest(DownTo(feed[l], Last(l)), c)
<1>1. /\ last[l] \in Nat /\ feed[l] \in SUBSET (0..last[l]) /\ at[l] \in Nat
      /\ Last(l) \in Nat /\ Last(l) <= at[l] /\ IsFiniteSet(New(l))
  BY Facts, NewFinite
<1>2. i \in feed[l] /\ i > at[l] /\ i \in Nat
  BY <1>1 DEF New
<1>3. i > Last(l)
  BY <1>1, <1>2
<1>4. \A j \in feed[l] : j > i => j \in New(l)
  BY <1>1, <1>2 DEF New
<1>5. ASSUME NEW S \in SUBSET feed[l], i \in S
      PROVE  i \in Newest(S, c)
  <2>1. S \in SUBSET (0..last[l])
    BY <1>1
  <2>2. \A j \in S : j > i => j \in New(l)
    BY <1>4
  <2> QED
    BY <1>1, <1>5, <2>1, <2>2, NewestByCount
<1>6. i \in Above(l) /\ Above(l) \in SUBSET feed[l]
  BY <1>2, <1>3 DEF Above
<1>7. i \in DownTo(feed[l], Last(l)) /\ DownTo(feed[l], Last(l)) \in SUBSET feed[l]
  BY <1>2, <1>3 DEF DownTo
<1> QED
  BY <1>1, <1>2, <1>3, <1>5, <1>6, <1>7

\* The feeds: when none lost its item, all that a poll considers is new.
LEMMA NewOfFeeds ==
    ASSUME State, mark # None, kind = "rss:default", Room,
           NEW ok \in SUBSET Lists, NEW l \in ok, NEW i \in New(l)
    PROVE  <<l, i>> \in RSS(ok).items
<1> DEFINE x == <<l, i>>
           all == UNION {On(k, Newest(DownTo(feed[k], Last(k)), Cap)) : k \in ok}
           S == {y \in all : y[1] < x[1] \/ (y[1] = x[1] /\ y[2] > x[2])}
<1>1. RSS(ok).items = FirstOf(all, Total)
  BY DEF RSS
<1>2. Cap \in Nat /\ Total \in Nat /\ Lists \subseteq Nat
  BY Facts DEF Lists
<1>3. x \in all
  <2>1. i \in Newest(DownTo(feed[l], Last(l)), Cap)
    BY <1>2, NewIsNewest DEF Room
  <2> QED
    BY <2>1 DEF On
<1>4. ASSUME NEW y \in all
      PROVE  y \in NewOnes
  <2>1. PICK k \in ok : y \in On(k, Newest(DownTo(feed[k], Last(k)), Cap))
    BY <1>4
  <2>2. PICK j \in DownTo(feed[k], Last(k)) : y = <<k, j>>
    BY <2>1 DEF On, Newest
  <2>3. j \in feed[k] /\ ~Lost(k) /\ j \in Nat /\ Last(k) \in Nat
    BY Facts DEF DownTo, Room
  <2>4. j > Last(k)
    BY <2>3, DownToLast DEF Lost, ByItem
  <2>5. j <= mark[k] \/ j > at[k]
    BY <2>3 DEF State, MarksBehind
  <2>6. j > at[k]
    BY <2>3, <2>4, <2>5 DEF Last
  <2> QED
    BY <2>2, <2>3, <2>6 DEF NewOnes, On, New
<1>5. x \in NewOnes
  BY <1>3, <1>4
<1>6. IsFiniteSet(NewOnes) /\ Cardinality(NewOnes) <= Total /\ Cardinality(NewOnes) \in Nat
  BY NewFinite, FS_CardinalityType DEF Room
<1>7. S \in SUBSET (NewOnes \ {x})
  <2>1. ASSUME NEW y \in S
        PROVE  y \in NewOnes /\ y # x
    <3>1. l \in Nat /\ i \in Nat
      BY <1>2, Facts DEF New
    <3>2. x[1] = l /\ x[2] = i
      OBVIOUS
    <3> QED
      BY <1>4, <2>1, <3>1, <3>2
  <2> QED
    BY <2>1
<1>8. IsFiniteSet(NewOnes \ {x}) /\ Cardinality(NewOnes \ {x}) = Cardinality(NewOnes) - 1
  <2> HIDE DEF x
  <2> QED
    BY <1>5, <1>6, FS_RemoveElement
<1>9. Cardinality(S) < Total
  <2> HIDE DEF S, x
  <2>1. Cardinality(S) <= Cardinality(NewOnes \ {x}) /\ Cardinality(S) \in Nat
    BY <1>7, <1>8, FS_Subset, FS_CardinalityType
  <2> QED
    BY <1>2, <1>6, <1>8, <2>1
<1> QED
  BY <1>1, <1>3, <1>9 DEF FirstOf

\* Every kind returns what is new and wanted and can be fetched.
LEMMA NewIsReturned ==
    ASSUME State, mark # None, Room,
           NEW ok \in Available, NEW bad \in Unavailable, NEW l \in ok, NEW i \in New(l)
    PROVE  i \in Unwanted \/ <<l, i>> \in Result(ok, bad).items \cup bad
<1> USE DEF Result
<1>1. kind \in AllKinds /\ ok \in SUBSET Lists /\ l \in Lists
  BY Facts, KindsAssumption DEF State, TypeOK, Available
<1>2. kind \notin Several => l = 1 /\ ok = {1}
  BY OneList
<1>3. /\ Cardinality(New(l)) <= Cap /\ Cardinality(New(l)) <= Total
      /\ Cap \in Nat /\ Total \in Nat /\ ~Lost(l)
  <2>1. Cardinality(New(l)) <= Cardinality(NewOnes) /\ Cardinality(NewOnes) <= Total
    BY <1>1, NewFinite DEF Room
  <2>2. IsFiniteSet(NewOnes) /\ IsFiniteSet(New(l))
    BY <1>1, NewFinite
  <2>3. Cardinality(NewOnes) \in Nat /\ Cardinality(New(l)) \in Nat
    BY <2>2, FS_CardinalityType
  <2> QED
    BY <1>1, <2>1, <2>3, Facts DEF Room
<1>4. /\ i \in feed[l] /\ i > Last(l) /\ i \in Nat /\ Last(l) \in Nat
      /\ i \in Newest(feed[l], Cap) /\ i \in Newest(Above(l), Cap)
      /\ i \in Newest(Above(l), Total) /\ i \in Above(l)
  <2>1. i \in Newest(Above(l), Total)
    BY <1>1, <1>3, NewIsNewest
  <2> QED
    BY <1>1, <1>3, <2>1, NewIsNewest DEF Newest
<1>5. l = 1 => i \in Page /\ i # Last(1) /\ i > Last(1)
  BY <1>4 DEF Page
<1>7. CASE kind = "rss:default"
  BY <1>1, <1>7, NewOfFeeds
<1>8. CASE kind = "reddit:thread"
  BY <1>2, <1>5, <1>8 DEF RedditThread, On, Several
<1>9. CASE kind = "reddit:subreddit"
  BY <1>2, <1>5, <1>9 DEF Subreddit, DownTo, On, Several
<1>10. CASE kind = "reddit:account"
  BY <1>2, <1>5, <1>10 DEF RedditAccount, DownTo, On, Several
<1>11. CASE kind = "hn:thread"
  BY <1>2, <1>4, <1>11 DEF HNThread, On, Several
<1>12. CASE kind = "hn:keywords"
  BY <1>2, <1>4, <1>12 DEF HNNew, On, Several
<1>13. CASE kind = "hn:account"
  <2> DEFINE pages == {On(k, Above(k)) : k \in ok}
  <2>1. <<l, i>> \in On(l, Above(l))
    BY <1>4 DEF On
  <2>2. Result(ok, bad).items = (UNION pages) \ bad
    BY <1>13 DEF HNAccount
  <2>3. On(l, Above(l)) \in pages
    OBVIOUS
  <2> HIDE DEF Result, pages
  <2> QED
    BY <2>1, <2>2, <2>3
<1>14. CASE kind = "bluesky:account"
  BY <1>2, <1>5, <1>14 DEF BlueskyAccount, On, Several
<1>15. CASE kind = "bluesky:user"
  BY <1>2, <1>5, <1>15 DEF BlueskyUser, DownTo, On, Several
<1>16. CASE kind = "web:default"
  <2> DEFINE pages == {On(k, Newest(Above(k), Cap)) : k \in ok}
  <2>1. <<l, i>> \in On(l, Newest(Above(l), Cap))
    BY <1>4 DEF On
  <2>2. Result(ok, bad).items = (UNION pages) \ bad
    BY <1>16 DEF Changedetect
  <2>3. On(l, Newest(Above(l), Cap)) \in pages
    OBVIOUS
  <2> HIDE DEF Result, pages
  <2> QED
    BY <2>1, <2>2, <2>3
<1>17. CASE kind = "monitor-hn"
  BY <1>2, <1>4, <1>17 DEF MonitorHN, On, Several
<1>18. CASE kind = "monitor-reddit"
  <2> DEFINE pages == {On(k, DownTo(Newest(feed[k], Cap), Last(k))) : k \in ok}
  <2>1. i \in DownTo(Newest(feed[l], Cap), Last(l))
    BY <1>4 DEF DownTo
  <2>2. <<l, i>> \in On(l, DownTo(Newest(feed[l], Cap), Last(l)))
    BY <2>1 DEF On
  <2>3. Result(ok, bad).items = (UNION pages) \ bad
    BY <1>18 DEF MonitorReddit
  <2>4. On(l, DownTo(Newest(feed[l], Cap), Last(l))) \in pages
    OBVIOUS
  <2> HIDE DEF Result, pages
  <2> QED
    BY <2>2, <2>3, <2>4
<1> QED
  BY <1>1, <1>7, <1>8, <1>9, <1>10, <1>11, <1>12, <1>13, <1>14, <1>15, <1>16, <1>17, <1>18 DEF AllKinds

\* No watermark passes an item that the monitor should have returned: a poll
\* after which an item counts as known delivers it, or knows that it could not
\* be fetched, as long as what is new fits on a page and in a poll and no list
\* lost the remembered item.
THEOREM NothingIsPassed == Spec => NothingPassed
<1> DEFINE Delivers ==
             \A l \in Lists :
                /\ mark # None
                /\ at'[l] # at[l]
                /\ \A k \in Lists : Cardinality(New(k)) <= Cap /\ ~Lost(k)
                /\ Cardinality(UNION {On(k, New(k)) : k \in Lists}) <= Total
                => \A i \in New(l) : i \in Unwanted \/ <<l, i>> \in out' \cup missed'
<1>1. FeedInv /\ [Next]_vars => [Delivers]_vars
  <2> SUFFICES ASSUME FeedInv, Next,
                      NEW l \in Lists, mark # None, at'[l] # at[l],
                      \A k \in Lists : Cardinality(New(k)) <= Cap /\ ~Lost(k),
                      Cardinality(UNION {On(k, New(k)) : k \in Lists}) <= Total,
                      NEW i \in New(l)
               PROVE  i \in Unwanted \/ <<l, i>> \in out' \cup missed'
    OBVIOUS
  <2>1. PICK ok \in Available, bad \in Unavailable : Poll(ok, bad)
    BY DEF Next, Appear, Vanish, Restart, history
  <2>2. State /\ Room
    BY DEF FeedInv, State, Room, NewOnes
  <2>3. l \in ok
    BY <2>1 DEF Poll, FeedInv, TypeOK
  <2>4. i \in Unwanted \/ <<l, i>> \in Result(ok, bad).items \cup bad
    BY <2>2, <2>3, NewIsReturned
  <2>5. out' = Result(ok, bad).items /\ missed' = bad
    BY <2>1 DEF Poll, Delivered
  <2> QED
    BY <2>4, <2>5
<1> QED
  BY <1>1, FeedInvariant, PTL DEF Spec, NothingPassed
=============================================================================
