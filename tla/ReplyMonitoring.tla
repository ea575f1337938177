--------------------------- MODULE ReplyMonitoring ---------------------------
(***************************************************************************)
(* The reply monitor: every five minutes it takes the results of published *)
(* posts that were checked longest ago, reads the replies of each with the *)
(* credentials of a platform connection, makes them alerts and remembers   *)
(* the last one.  Connections come and go meanwhile.                       *)
(***************************************************************************)
EXTENDS PlatformConnections, Sequences, SequencesExt

CONSTANTS
    Results,     \* results of publishing that succeeded and have a post's identifier
    PlatformOf,  \* PlatformOf[r]: the platform of a result
    Nameless,    \* results whose identifier is a placeholder and names no post
    Watched,     \* results that are monitored at the start
    Readers,     \* platforms that have a reader
    Batch,       \* results that are looked at in a check (20)
    MaxReplies   \* bound of the replies that are ever written

ASSUME ResultsAssumption == IsFiniteSet(Results) /\ PlatformOf \in [Results -> Platforms]
ASSUME WatchedAssumption == Watched \subseteq Results /\ Nameless \subseteq Results
ASSUME ReadersAssumption == Readers \subseteq Platforms \cap {"bluesky", "hn", "reddit"}
ASSUME BoundsAssumption == Batch \in Nat \ {0} /\ MaxReplies \in Nat

VARIABLES
    thread,     \* thread[r]: the number of replies to a post
    gone,       \* results whose post the platform does not show any more
    monitored,  \* results whose replies are monitored
    checked,    \* the results that were ever checked, longest ago first
    since,      \* since[r]: the reply that is remembered, or 0
    alerted,    \* alerted[r]: replies that became alerts
    missed,     \* missed[r]: replies that could not be fetched or ingested
    down,       \* a platform that does not answer, or refuses all credentials, or None
    monitor     \* the check under way

replyVars == <<thread, gone, monitored, checked, since, alerted, missed, down, monitor>>
vars == <<connVars, lapses, replyVars>>

Replies == 1..MaxReplies

\* A check: todo is what is left of its list, read with the replies known then;
\* with is the method of the connection that was found for the result it is at.
MonitorState ==
    [pc : {"idle", "take", "read", "ingest", "save"},
     todo : Seq([result : Results, since : 0..MaxReplies]),
     with : Methods \cup {None}, found : Seq(Replies), latest : 0..MaxReplies]

NoCheck == [pc |-> "idle", todo |-> <<>>, with |-> None, found |-> <<>>, latest |-> 0]

TypeOK ==
    /\ ConnTypeOK
    /\ thread \in [Results -> 0..MaxReplies]
    /\ gone \subseteq Results
    /\ monitored \subseteq Results
    /\ checked \in Seq(Results) /\ IsInjective(checked)
    /\ since \in [Results -> 0..MaxReplies]
    /\ alerted \in [Results -> SUBSET Replies]
    /\ missed \in [Results -> SUBSET Replies]
    /\ down \in Platforms \cup {None}
    /\ monitor \in MonitorState
    /\ monitor.pc \in {"take", "read", "ingest", "save"} <=> monitor.todo # <<>>

Init ==
    /\ ConnInit
    /\ thread = [r \in Results |-> 0]
    /\ gone = {}
    /\ monitored = Watched
    /\ checked = <<>>
    /\ since = [r \in Results |-> 0]
    /\ alerted = [r \in Results |-> {}]
    /\ missed = [r \in Results |-> {}]
    /\ down = None
    /\ monitor = NoCheck

Written == {w \in Results \X Replies : w[2] <= thread[w[1]]}

Current == Head(monitor.todo).result

\* Variant: a check never ends.
Rest_Endless(m) == [NoCheck EXCEPT !.pc = "take", !.todo = Tail(m.todo)]

\* A check that is done with a result takes the next.
Rest(m) ==
    IF Len(m.todo) = 1 THEN NoCheck
    ELSE [NoCheck EXCEPT !.pc = "take", !.todo = Tail(m.todo)]

-----------------------------------------------------------------------------
(***************************************************************************)
(* Users and platforms.                                                    *)
(***************************************************************************)

\* Monitoring is switched; what is remembered of the replies stays.
SetPostMonitor(k, r, on) ==
    /\ request[k] = Idle
    /\ request' = [request EXCEPT ![k] = [Idle EXCEPT !.op = "other", !.pc = "ok"]]
    /\ monitored' = IF on THEN monitored \cup {r} ELSE monitored \ {r}
    /\ UNCHANGED <<conn, account, replaced, lapses, thread, gone, checked, since, alerted,
                   missed, down, monitor>>

\* A reply to a post that can be looked up.
WriteReply(r) ==
    /\ r \notin gone \cup Nameless
    /\ Cardinality(Written) < MaxReplies
    /\ thread' = [thread EXCEPT ![r] = @ + 1]
    /\ UNCHANGED <<connVars, lapses, gone, monitored, checked, since, alerted, missed, down, monitor>>

\* A post is deleted at its platform (one that is checked).
RemovePost(r) ==
    /\ r \in monitored \ (gone \cup Nameless)
    /\ Lapse
    /\ gone' = gone \cup {r}
    /\ UNCHANGED <<connVars, thread, monitored, checked, since, alerted, missed, down, monitor>>

\* A platform stops to answer (one with a post to read).
GoDown(p) ==
    /\ down = None
    /\ \E r \in monitored \ Nameless : PlatformOf[r] = p
    /\ Lapse
    /\ down' = p
    /\ UNCHANGED <<connVars, thread, gone, monitored, checked, since, alerted, missed, monitor>>

ComeBack ==
    /\ down # None
    /\ down' = None
    /\ UNCHANGED <<connVars, lapses, thread, gone, monitored, checked, since, alerted, missed, monitor>>

-----------------------------------------------------------------------------
(***************************************************************************)
(* The readers.                                                            *)
(***************************************************************************)

\* A read is an error while the platform is down; for an identifier that names
\* no post; with credentials for a browser, except on Hacker News, which asks for
\* none; and for a post that is gone, except on Hacker News, where it has no
\* replies.
Readable(r, method) ==
    /\ down # PlatformOf[r]
    /\ r \notin Nameless
    /\ PlatformOf[r] = "hn" \/ (method = "api" /\ r \notin gone)

\* The page that lists the replies in S newest first.
NewestFirst(S) == {f \in SetToSeqs(S) : \A i, j \in DOMAIN f : i < j => f[i] > f[j]}

\* Comments newest first, all of them but the one that is remembered: the
\* filter after the loop looks for it when it is gone already.
RedditReader(r, n) == NewestFirst((1..thread[r]) \ {n})

\* Replies newest first, up to the one that is remembered.
BlueskyReader(r, n) == NewestFirst((n + 1)..thread[r])

\* Comments above the one that is remembered, in the order of their rank,
\* without those whose fetch failed.
Above(r, n) == {m \in (n + 1)..thread[r] : r \notin gone}
HNReader(r, n, failed) == SetToSeqs(Above(r, n) \ failed)

GetReplies(r, n, failed) ==
    CASE PlatformOf[r] = "reddit" -> RedditReader(r, n)
      [] PlatformOf[r] = "bluesky" -> BlueskyReader(r, n)
      [] PlatformOf[r] = "hn" -> HNReader(r, n, failed)

-----------------------------------------------------------------------------
(***************************************************************************)
(* The check.                                                              *)
(***************************************************************************)

\* The place of a result in the order of its last check, 0 before the first.
Place(r) == IF r \in Range(checked) THEN CHOOSE i \in DOMAIN checked : checked[i] = r ELSE 0

\* Results never checked come first, in any order, then the others.
ListMonitoredResults ==
    {[i \in 1..Min({Batch, Len(f)}) |-> [result |-> f[i], since |-> since[f[i]]]] :
        f \in {g \in SetToSeqs(monitored) :
                 \A i, j \in DOMAIN g : i < j => Place(g[i]) <= Place(g[j])}}

Check ==
    /\ monitor.pc = "idle"
    /\ monitored # {}
    /\ \E list \in ListMonitoredResults : monitor' = [NoCheck EXCEPT !.pc = "take", !.todo = list]
    /\ UNCHANGED <<connVars, lapses, thread, gone, monitored, checked, since, alerted, missed, down>>

\* A result without a reader or a connection is passed by, and stays first; for
\* the others the credentials are read once.
Take ==
    LET p == PlatformOf[Current] IN
    /\ monitor.pc = "take"
    /\ \/ /\ p \in Readers
          /\ \E c \in Preferred(p) :
                monitor' = [monitor EXCEPT !.pc = "read", !.with = conn[c].key[2]]
       \/ /\ p \notin Readers \/ Preferred(p) = {}
          /\ monitor' = Rest(monitor)
    /\ UNCHANGED <<connVars, lapses, thread, gone, monitored, checked, since, alerted, missed,
                   down>>

\* Variant: a check without new replies leaves no trace.
AfterRead_Forgets(page) ==
    IF page = <<>> THEN Rest(monitor)
    ELSE [monitor EXCEPT !.pc = "ingest", !.with = None, !.found = page,
                         !.latest = Head(monitor.todo).since]

AfterRead(page) ==
    [monitor EXCEPT !.pc = IF page = <<>> THEN "save" ELSE "ingest", !.with = None,
                    !.found = page, !.latest = Head(monitor.todo).since]

\* A result that cannot be read is passed by too, for as long as it cannot.
Read ==
    LET n == Head(monitor.todo).since
        readable == Readable(Current, monitor.with) IN
    /\ monitor.pc = "read"
    /\ \/ /\ readable
          /\ \E page \in GetReplies(Current, n, {}) : monitor' = AfterRead(page)
          /\ UNCHANGED <<lapses, missed>>
       \/ /\ readable /\ PlatformOf[Current] = "hn"
          /\ Lapse
          /\ \E lost \in Above(Current, n) :
                /\ missed' = [missed EXCEPT ![Current] = @ \cup {lost}]
                /\ \E page \in GetReplies(Current, n, {lost}) : monitor' = AfterRead(page)
       \/ /\ ~readable
          /\ monitor' = Rest(monitor)
          /\ UNCHANGED <<lapses, missed>>
    /\ UNCHANGED <<connVars, thread, gone, monitored, checked, since, alerted, down>>

\* The reply to remember after one more was ingested, or failed.
Remembered(n, ok) == IF ok THEN n ELSE monitor.latest

\* The next reply becomes an alert, unless it is one, or fails.
Ingest ==
    LET n == Head(monitor.found)
        Go(ok) == monitor' = [monitor EXCEPT !.found = Tail(@), !.latest = Remembered(n, ok),
                                             !.pc = IF Len(monitor.found) = 1 THEN "save"
                                                     ELSE "ingest"] IN
    /\ monitor.pc = "ingest"
    /\ \/ /\ alerted' = [alerted EXCEPT ![Current] = @ \cup {n}]
          /\ Go(TRUE)
          /\ UNCHANGED <<missed, lapses>>
       \/ /\ Lapse
          /\ missed' = [missed EXCEPT ![Current] = @ \cup {n}]
          /\ Go(FALSE)
          /\ UNCHANGED alerted
    /\ UNCHANGED <<connVars, thread, gone, monitored, checked, since, down>>

\* What is remembered is written, and the result goes to the end of the line;
\* if that fails, nobody notices.
UpdateReplyCheckpoint ==
    /\ monitor.pc = "save"
    /\ \/ /\ since' = [since EXCEPT ![Current] = monitor.latest]
          /\ checked' = Append(RemoveAt(checked, Place(Current)), Current)
          /\ UNCHANGED lapses
       \/ Lapse /\ UNCHANGED <<since, checked>>
    /\ monitor' = Rest(monitor)
    /\ UNCHANGED <<connVars, thread, gone, monitored, alerted, missed, down>>

\* The process dies in the middle of it all.
Crash ==
    /\ Lapse
    /\ Cut
    /\ monitor' = NoCheck
    /\ UNCHANGED <<conn, account, replaced, thread, gone, monitored, checked, since, alerted,
                   missed, down>>

MonitorStep == Check \/ Take \/ Read \/ Ingest \/ UpdateReplyCheckpoint

Next ==
    \/ ConnNext /\ UNCHANGED replyVars
    \/ \E k \in Clients, r \in Results, on \in BOOLEAN : SetPostMonitor(k, r, on)
    \/ \E r \in Results : WriteReply(r)
    \/ \E r \in Results : RemovePost(r)
    \/ \E p \in Platforms : GoDown(p)
    \/ ComeBack
    \/ MonitorStep
    \/ Crash

Spec == Init /\ [][Next]_vars

\* The ticker goes on, and every call has a timeout.
FairSpec == Spec /\ WF_vars(MonitorStep)

-----------------------------------------------------------------------------
(***************************************************************************)
(* Properties.                                                             *)
(***************************************************************************)

\* A result that a check can get through with: with the connection that it would
\* use, its replies can be read.
Servable(r) ==
    /\ r \in monitored
    /\ PlatformOf[r] \in Readers
    /\ \E c \in Preferred(PlatformOf[r]) : Readable(r, conn[c].key[2])

\* Results that are passed by keep their place; a whole batch of them is all
\* that is ever looked at.
Clogged == Cardinality({r \in monitored : ~Servable(r)}) >= Batch

\* Every reply to a monitored post that is still shown becomes an alert, if its
\* fetch and ingestion do not fail, its platform is reachable and connected by
\* a method that its reader accepts, and fewer results than a batch are in the
\* way: no check, order of replies, result that can never be read, crash or
\* failed write of what is remembered loses it.
EveryReplyAlerted ==
    \A r \in Results :
        <>[](r \notin gone /\ Servable(r) /\ ~Clogged)
            => []<>(1..thread[r] \subseteq alerted[r] \cup missed[r])
=============================================================================
