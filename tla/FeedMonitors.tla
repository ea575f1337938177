---------------------------- MODULE FeedMonitors ----------------------------
(***************************************************************************)
(* What each kind of monitor takes from the lists it watches, and how its  *)
(* watermark moves: the source monitors of the werd API and the standalone *)
(* pollers for Hacker News and Reddit.  SourcePolling models the rounds    *)
(* around a poll; here a poll and the ingestion of its items are one step. *)
(*                                                                         *)
(* A list shows its items newest first; items are numbered as they appear, *)
(* and names and timestamps are ordered alike.                             *)
(***************************************************************************)
EXTENDS Naturals, FiniteSets, FiniteSetsExt

CONSTANTS
    Kinds,     \* the kinds of monitor of an instance, among AllKinds
    NumLists,  \* feeds, watches, submissions or subreddits that are watched
    MaxItem,   \* MaxItem[l]: bound of the items that appear on list l
    MaxBad,    \* bound of the items that cannot be fetched in a poll
    Unwanted,  \* items of a type that the monitors of an account pass over
    Cap,       \* items of a list that a page or a poll holds (25, 50, 100, 10)
    Total,     \* items that a poll returns (50)
    Faults,    \* the faults of an instance, among AllFaults
    None       \* no watermark

\* A monitor of the API is named by the type and the mode of its source.
AllKinds == {"rss:default", "reddit:thread", "reddit:subreddit", "reddit:account", "hn:thread",
             "hn:keywords", "hn:account", "bluesky:account", "bluesky:user", "web:default",
             "monitor-hn", "monitor-reddit"}

\* Their watermark is in memory.
Standalone == {"monitor-hn", "monitor-reddit"}

\* They watch several lists, each with a watermark of its own.
Several == {"rss:default", "hn:account", "web:default", "monitor-reddit"}

\* They look for the item they saw last; the others compare numbers or times.
ByItem == {"rss:default", "reddit:subreddit", "reddit:account", "bluesky:user", "monitor-reddit"}

\* They pass over items of other types, and remember one of a wanted type.
Bluesky == {"bluesky:account", "bluesky:user"}

\* A list is not available; an item of a list cannot be fetched or delivered.
AllFaults == {"list", "item"}

ASSUME KindsAssumption == Kinds \subseteq AllKinds /\ Faults \subseteq AllFaults
ASSUME BoundsAssumption ==
    /\ {NumLists, Cap, Total} \subseteq Nat \ {0} /\ MaxBad \in Nat
    /\ MaxItem \in [1..NumLists -> Nat]
ASSUME NoneAssumption == None \notin Nat /\ None \notin [1..NumLists -> Nat]

VARIABLES
    kind,   \* the kind of the monitor
    feed,   \* feed[l]: the items that list l shows
    last,   \* last[l]: the number of its newest item ever
    mark,   \* the watermark: what was seen last of each list, 0 for nothing
    out,    \* the items that the last step delivered
    missed, \* those that it could not
    seen,   \* the items that any poll returned
    at,     \* at[l]: the newest item when the list was last available
    start,  \* start[l]: the newest item when the monitor was initialised
    loose   \* lists of which nothing was remembered then, or the item was lost

vars == <<kind, feed, last, mark, out, missed, seen, at, start, loose>>
history == <<seen, at, start, loose>>

Lists == 1..NumLists
Items == UNION {1..MaxItem[l] : l \in Lists}
Marks == {0} \cup Items
Watched == IF kind \in Several THEN Lists ELSE {1}

TypeOK ==
    /\ kind \in Kinds
    /\ feed \in [Lists -> SUBSET Items]
    /\ last \in [Lists -> Marks]
    /\ mark \in [Lists -> Marks] \cup {None}
    /\ out \subseteq seen
    /\ seen \cup missed \subseteq Lists \X Items
    /\ at \in [Lists -> Marks]
    /\ start \in [Lists -> Marks \cup {None}]
    /\ loose \subseteq Lists

Init ==
    /\ kind \in Kinds
    /\ feed = [l \in Lists |-> {}]
    /\ last = [l \in Lists |-> 0]
    /\ mark = None
    /\ out = {} /\ missed = {}
    /\ seen = {}
    /\ at = [l \in Lists |-> 0]
    /\ start = [l \in Lists |-> None]
    /\ loose = {}

Quiet == out' = {} /\ missed' = {}

Appear(l) ==
    /\ l \in Watched
    /\ last[l] < MaxItem[l]
    /\ last' = [last EXCEPT ![l] = @ + 1]
    /\ feed' = [feed EXCEPT ![l] = @ \cup {last[l] + 1}]
    /\ Quiet
    /\ UNCHANGED <<kind, mark, history>>

\* An item is removed from its site.
Vanish(l, i) ==
    /\ i \in feed[l]
    /\ feed' = [feed EXCEPT ![l] = @ \ {i}]
    /\ Quiet
    /\ UNCHANGED <<kind, last, mark, history>>

-----------------------------------------------------------------------------
(***************************************************************************)
(* The monitors: the items they return and their new watermark, when the   *)
(* lists in ok are available and the items in bad are not.                 *)
(***************************************************************************)

Newest(set, n) == {i \in set : Cardinality({j \in set : j > i}) < n}

Highest(set) == Max(set \cup {0})

\* What the watermark says of list l.
Last(l) == IF mark = None THEN 0 ELSE mark[l]

Above(l) == {i \in feed[l] : i > Last(l)}

\* Variant: the remembered item is returned again.
DownTo_Included(page, i) == {j \in page : i \in page => j >= i}

\* The list from its top down to the item i; all of it, if i is not there.
DownTo(page, i) == {j \in page : i \in page => j > i}

Page == Newest(feed[1], Cap)

On(l, set) == {l} \X set

\* A watermark for one list; the others have none.
Single(n) == [l \in Lists |-> IF l = 1 THEN n ELSE 0]

\* The first n items when the lists follow each other.
FirstOf(all, n) ==
    {x \in all : Cardinality({y \in all : y[1] < x[1] \/ (y[1] = x[1] /\ y[2] > x[2])}) < n}

\* At most Cap items of each feed, and at most Total, though all watermarks move.
RSS(ok) ==
    [items |-> FirstOf(UNION {On(l, Newest(DownTo(feed[l], Last(l)), Cap)) : l \in ok}, Total),
     mark |-> [l \in Lists |-> IF l \in ok /\ feed[l] # {} THEN Highest(feed[l]) ELSE Last(l)]]

\* RedditReader.GetReplies drops the reply it was given, and only that one.
RedditThread ==
    LET replies == Page \ {Last(1)} IN
    [items |-> On(1, replies), mark |-> Single(Highest(replies \cup {Last(1)}))]

\* The greatest name of the page and of the watermark.
Subreddit ==
    [items |-> On(1, DownTo(Page, Last(1))), mark |-> Single(Highest(Page \cup {Last(1)}))]

\* Variant: an item of another type ends the list.
RedditAccount_Stops ==
    [items |-> On(1, {i \in DownTo(Page, Last(1)) : \A j \in Page \cap Unwanted : i > j}),
     mark |-> Single(IF Page = {} THEN Last(1) ELSE Highest(Page))]

\* The first of the list, of whatever type.
RedditAccount ==
    [items |-> On(1, DownTo(Page, Last(1)) \ Unwanted),
     mark |-> Single(IF Page = {} THEN Last(1) ELSE Highest(Page))]

\* The watermark is the greatest of the replies that could be fetched.
HNThread(bad) ==
    LET replies == {i \in Above(1) : <<1, i>> \notin bad} IN
    [items |-> On(1, replies), mark |-> Single(Highest(replies \cup {Last(1)}))]

\* Variant: the watermark is the number that is expected next.
HNNew_Expected(bad) ==
    [items |-> On(1, Newest(Above(1), Total)) \ bad,
     mark |-> Single(Highest(feed[1] \cup {Last(1)}) + 1)]

\* The greatest number of the list, fetched or not (also hn:new).
HNNew(bad) ==
    [items |-> On(1, Newest(Above(1), Total)) \ bad,
     mark |-> Single(Highest(feed[1] \cup {Last(1)}))]

\* The submissions of a user, with the greatest reply of each, fetched or not.
HNAccount(ok, bad) ==
    [items |-> (UNION {On(l, Above(l)) : l \in ok}) \ bad,
     mark |-> [l \in Lists |-> IF l \in ok THEN Highest(feed[l] \cup {Last(l)}) ELSE Last(l)]]

BlueskyAccount ==
    LET notifications == {i \in Page \ Unwanted : i > Last(1)} IN
    [items |-> On(1, notifications), mark |-> Single(Highest(notifications \cup {Last(1)}))]

\* The watermark is set once: to the newest post, when there is none.
BlueskyUser ==
    LET posts == DownTo(Page \ Unwanted, Last(1)) IN
    [items |-> On(1, posts), mark |-> Single(IF Last(1) = 0 THEN Highest(posts) ELSE Last(1))]

\* The newest snapshots of each watch.
Changedetect(ok, bad) ==
    [items |-> (UNION {On(l, Newest(Above(l), Cap)) : l \in ok}) \ bad,
     mark |-> [l \in Lists |-> IF l \in ok /\ feed[l] # {} THEN Highest(feed[l]) ELSE Last(l)]]

\* The standalone poller for Hacker News: the greatest number of the list as it
\* is, set before the items are fetched and sent.
MonitorHN(ok, bad) ==
    [items |-> IF ok = {} THEN {} ELSE On(1, Above(1)) \ bad,
     mark |-> Single(IF ok = {} \/ feed[1] = {} THEN Last(1) ELSE Highest(feed[1]))]

\* The standalone poller for Reddit: the first of each page, set before the
\* posts are sent.
MonitorReddit(ok, bad) ==
    [items |-> (UNION {On(l, DownTo(Newest(feed[l], Cap), Last(l))) : l \in ok}) \ bad,
     mark |-> [l \in Lists |-> IF l \in ok /\ feed[l] # {} THEN Highest(feed[l]) ELSE Last(l)]]

Result(ok, bad) ==
    CASE kind = "rss:default" -> RSS(ok)
      [] kind = "reddit:thread" -> RedditThread
      [] kind = "reddit:subreddit" -> Subreddit
      [] kind = "reddit:account" -> RedditAccount
      [] kind = "hn:thread" -> HNThread(bad)
      [] kind = "hn:keywords" -> HNNew(bad)
      [] kind = "hn:account" -> HNAccount(ok, bad)
      [] kind = "bluesky:account" -> BlueskyAccount
      [] kind = "bluesky:user" -> BlueskyUser
      [] kind = "web:default" -> Changedetect(ok, bad)
      [] kind = "monitor-hn" -> MonitorHN(ok, bad)
      [] kind = "monitor-reddit" -> MonitorReddit(ok, bad)

-----------------------------------------------------------------------------

\* Lists that can fail alone; a monitor of one list returns an error, and its
\* watermark stays.
Available == {ok \in SUBSET Watched :
                 \/ ok = Watched
                 \/ "list" \in Faults /\ kind \in Several \cup Standalone}

\* Kinds that fetch or deliver their items one by one.
Unavailable == {bad \in SUBSET UNION {On(l, feed[l]) : l \in Watched} :
                   \/ bad = {}
                   \/ /\ "item" \in Faults
                      /\ Cardinality(bad) <= MaxBad
                      /\ kind \in Standalone \cup {"hn:thread", "hn:keywords", "hn:account",
                                                   "web:default"}}

\* The remembered item of the list is not on its page; feeds have no pages.
Lost(l) ==
    /\ kind \in ByItem
    /\ Last(l) # 0
    /\ Last(l) \notin (IF kind = "rss:default" THEN feed[l] ELSE Newest(feed[l], Cap))

\* The page shows nothing to remember: it holds items of other types only.
Blind == kind \in Bluesky /\ Page # {} /\ Page \subseteq Unwanted

\* Variant: the first poll is like the others.
Delivered_All(items) == items

\* The first poll sets the watermark and delivers nothing.
Delivered(items) == IF mark = None THEN {} ELSE items

Poll(ok, bad) ==
    /\ mark' = Result(ok, bad).mark
    /\ out' = Delivered(Result(ok, bad).items)
    /\ missed' = bad
    /\ seen' = seen \cup Result(ok, bad).items
    /\ at' = [l \in Lists |-> IF l \in ok THEN last[l] ELSE at[l]]
    /\ IF mark = None
       THEN /\ start' = [l \in Lists |-> IF l \in ok THEN last[l] ELSE None]
            /\ loose' = (Watched \ ok) \cup {x[1] : x \in bad} \cup {l \in ok : Blind}
       ELSE /\ start' = start
            /\ loose' = loose \cup {l \in ok : Lost(l)}
    /\ UNCHANGED <<kind, feed, last>>

\* A standalone poller starts anew.
Restart ==
    /\ kind \in Standalone
    /\ mark # None
    /\ mark' = None
    /\ Quiet
    /\ UNCHANGED <<kind, feed, last, history>>

Next ==
    \/ \E l \in Lists : Appear(l)
    \/ \E l \in Lists, i \in Items : Vanish(l, i)
    \/ \E ok \in Available, bad \in Unavailable : Poll(ok, bad)
    \/ Restart

Spec == Init /\ [][Next]_vars

-----------------------------------------------------------------------------
(***************************************************************************)
(* Properties.                                                             *)
(***************************************************************************)

\* "On first poll, set watermark but don't ingest (prevents startup flood)"
\* (service/source_poller.go, and "initialized" in the standalone pollers):
\* what is delivered appeared after the list was first looked at.  Lists that
\* could not be read then, lists whose page showed nothing to remember, and
\* lists that lost the item to look for, are flooded; and a thread of Reddit
\* is, at every poll.
OnlyNew ==
    kind # "reddit:thread" =>
        \A x \in out : x[1] \in loose \/ (start[x[1]] # None /\ x[2] > start[x[1]])

\* The items that appeared on list l since it was last available.
New(l) == {i \in feed[l] : i > at[l]}

\* A poll that changes what is known of a list delivers all that is new on it
\* and of a wanted type, unless it cannot be fetched: a watermark passes nothing
\* that the monitor should have returned.  There may be too much for a page, or
\* for a poll with what lost lists return again.
NothingPassed ==
    [][\A l \in Lists :
          /\ mark # None
          /\ at'[l] # at[l]
          /\ \A k \in Lists : Cardinality(New(k)) <= Cap /\ ~Lost(k)
          /\ Cardinality(UNION {On(k, New(k)) : k \in Lists}) <= Total
          => \A i \in New(l) : i \in Unwanted \/ <<l, i>> \in out' \cup missed']_vars

\* No item is returned to the poller twice, whatever vanishes and restarts,
\* unless its list lost the item to look for, or was not available after the
\* restart.  (The monitors for the threads of Reddit and the users of Bluesky do
\* so at every poll.)
ReturnedOnce ==
    [][kind \notin {"reddit:thread", "bluesky:user"} =>
          \A x \in out' \cap seen :
              Lost(x[1]) \/ (x[1] \in loose /\ Last(x[1]) = 0)]_vars
=============================================================================
