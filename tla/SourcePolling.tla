---------------------------- MODULE SourcePolling ----------------------------
(***************************************************************************)
(* The source poller of the werd API: rounds over the enabled monitor      *)
(* sources, the watermark of each source, and what becomes an alert, while *)
(* users create, change and delete sources.                                *)
(*                                                                         *)
(* The monitor behind a source is the one for new Hacker News stories (and *)
(* its twin for keywords): items have increasing numbers, the watermark is *)
(* the greatest number seen, and at most Cap items are taken per poll.     *)
(***************************************************************************)
EXTENDS Naturals, Sequences, FiniteSets

CONSTANTS
    Sources,   \* identifiers of monitor sources
    Modes,     \* kinds of monitor, by the field of the watermark that they read
    Pollable,  \* pairs of source and mode that have a monitor and credentials
    Slow,      \* sources with a poll interval longer than that of the rounds
    Unwanted,  \* items that the processing rules drop
    Limit,     \* sources that a round looks at (20)
    Cap,       \* items that a poll takes (50)
    MaxItem,   \* bound of the items that appear in a feed
    Faults,    \* the faults of an instance, among AllFaults
    None       \* no watermark, no start

\* The process dies; a poll fails; an item cannot be fetched; the rules cannot
\* be read; an item cannot be ingested; a watermark cannot be written.
AllFaults == {"crash", "poll", "fetch", "rules", "ingest", "write"}

ASSUME SourcesAssumption == IsFiniteSet(Sources) /\ Modes # {}
ASSUME PollableAssumption == Pollable \subseteq Sources \X Modes
ASSUME BoundsAssumption == Limit \in Nat \ {0} /\ Cap \in Nat \ {0} /\ MaxItem \in Nat
ASSUME FaultsAssumption == Faults \subseteq AllFaults
ASSUME NoneAssumption == None \notin Nat \cup [mode : Modes, seen : Nat]

VARIABLES
    source,   \* source[s]: the row of monitor_sources
    rank,     \* a permutation of the sources: the order of last_poll_at, and
              \* of updated_at for those that were never polled
    due,      \* due[s]: the poll interval has passed
    feed,     \* feed[m]: the items that monitors of mode m can see
    last,     \* last[m]: the number of the newest item ever
    round,    \* the rows that the current round has still to handle
    task,     \* what the poller does with the first of them
    alerts,   \* alerts[s][m]: items that have been ingested
    start     \* start[s][m]: newest item when the source was initialised

vars == <<source, rank, due, feed, last, round, task, alerts, start>>
rows == <<source, rank, due>>
world == <<feed, last>>
history == <<alerts, start>>

Items == 1..MaxItem

\* A watermark is understood by the monitors of one mode.
Watermarks == [mode : Modes, seen : 0..MaxItem] \cup {None}

SourceState == [life : {"unused", "kept", "deleted"}, mode : Modes, enabled : BOOLEAN,
                watermark : Watermarks, polled : BOOLEAN]

\* What a round reads of a row.
RowState == [id : Sources, mode : Modes, watermark : Watermarks]

TaskState == [pc : {"next", "ingest"}, items : SUBSET Items, mark : Watermarks]

NextRow == [pc |-> "next", items |-> {}, mark |-> None]

TypeOK ==
    /\ source \in [Sources -> SourceState]
    /\ rank \in [Sources -> Nat]
    /\ due \in [Sources -> BOOLEAN]
    /\ feed \in [Modes -> SUBSET Items]
    /\ last \in [Modes -> 0..MaxItem]
    /\ round \in Seq(RowState)
    /\ task \in TaskState
    /\ alerts \in [Sources -> [Modes -> SUBSET Items]]
    /\ start \in [Sources -> [Modes -> 0..MaxItem \cup {None}]]

NoSource == [life |-> "unused", mode |-> CHOOSE m \in Modes : TRUE, enabled |-> FALSE,
             watermark |-> None, polled |-> FALSE]

Init ==
    /\ source = [s \in Sources |-> NoSource]
    /\ rank \in [Sources -> 1..Cardinality(Sources)]
    /\ \A s, t \in Sources : rank[s] = rank[t] => s = t
    /\ due = [s \in Sources |-> TRUE]
    /\ feed = [m \in Modes |-> {}]
    /\ last = [m \in Modes |-> 0]
    /\ round = <<>>
    /\ task = NextRow
    /\ alerts = [s \in Sources |-> [m \in Modes |-> {}]]
    /\ start = [s \in Sources |-> [m \in Modes |-> None]]

Kept(s) == source[s].life = "kept"

-----------------------------------------------------------------------------
(***************************************************************************)
(* Users change sources; items come and go.                                *)
(***************************************************************************)

\* Variant: the time of a poll is not recorded.
MovedBack_Not(s) == rank

\* The order after s got a new time.
MovedBack(s) ==
    [t \in Sources |-> IF t = s THEN Cardinality(Sources)
                       ELSE IF rank[t] > rank[s] THEN rank[t] - 1 ELSE rank[t]]

Create(s, m, enabled) ==
    /\ source[s].life = "unused"
    /\ source' = [source EXCEPT ![s] = [life |-> "kept", mode |-> m, enabled |-> enabled,
                                        watermark |-> None, polled |-> FALSE]]
    /\ rank' = MovedBack(s)
    /\ UNCHANGED <<due, world, round, task, history>>

\* Type, configuration and flag change; the watermark stays.  The time of the
\* update counts only until the first poll.
Update(s, m, enabled) ==
    /\ Kept(s)
    /\ source' = [source EXCEPT ![s].mode = m, ![s].enabled = enabled]
    /\ rank' = IF source[s].polled THEN rank ELSE MovedBack(s)
    /\ UNCHANGED <<due, world, round, task, history>>

Delete(s) ==
    /\ Kept(s)
    /\ source' = [source EXCEPT ![s].life = "deleted"]
    /\ UNCHANGED <<rank, due, world, round, task, history>>

Appear(m) ==
    /\ last[m] < MaxItem
    /\ last' = [last EXCEPT ![m] = @ + 1]
    /\ feed' = [feed EXCEPT ![m] = @ \cup {last[m] + 1}]
    /\ UNCHANGED <<rows, round, task, history>>

\* An item is removed from its site, or has been pushed off the list.
Vanish(m, i) ==
    /\ i \in feed[m]
    /\ feed' = [feed EXCEPT ![m] = @ \ {i}]
    /\ UNCHANGED <<rows, last, round, task, history>>

\* The poll interval of a source passes.
BecomeDue(s) ==
    /\ ~due[s]
    /\ due' = [due EXCEPT ![s] = TRUE]
    /\ UNCHANGED <<source, rank, world, round, task, history>>

-----------------------------------------------------------------------------
(***************************************************************************)
(* The monitor.                                                            *)
(***************************************************************************)

\* What a monitor of mode m reads of a watermark: one of another mode lacks the
\* field, and counts as zero.
SeenBy(m, watermark) ==
    IF watermark # None /\ watermark.mode = m THEN watermark.seen ELSE 0

\* Variant: off by one.
Fresh_SkipsNext(m, seen) == {i \in feed[m] : i > seen + 1}

Fresh(m, seen) == {i \in feed[m] : i > seen}

\* The list is sorted by number, newest first, and cut.
Page(fresh) == {i \in fresh : Cardinality({j \in fresh : j > i}) < Cap}

Newest(set) == {i \in set : \A j \in set : j <= i}

\* Variant: the newest item of the list, whatever was seen before.
NextSeen_OfList(m, seen) == Newest(feed[m] \cup {0})

\* Variant: the number that is expected next.
NextSeen_Expected(m, seen) == {i + 1 : i \in Newest(feed[m] \cup {seen})}

\* The greatest number of the list and of the old watermark.
NextSeen(m, seen) == Newest(feed[m] \cup {seen})

-----------------------------------------------------------------------------
(***************************************************************************)
(* The poller.                                                             *)
(***************************************************************************)

Enabled(s) == Kept(s) /\ source[s].enabled

\* ORDER BY last_poll_at NULLS FIRST, updated_at
Before(s, t) ==
    IF source[s].polled = source[t].polled THEN rank[s] < rank[t] ELSE ~source[s].polled

\* Lists that LIMIT cuts off after Limit enabled sources.
Listed(list) ==
    /\ \A i \in 1..Len(list) : Enabled(list[i])
    /\ \A i, j \in 1..Len(list) : i < j => Before(list[i], list[j])
    /\ \A s \in Sources : Enabled(s) =>
          \/ \E i \in 1..Len(list) : list[i] = s
          \/ Len(list) = Limit /\ Before(list[Limit], s)

\* A tick: the poller reads the rows it will look at.
StartRound ==
    /\ round = <<>>
    /\ \E n \in 1..Limit : \E list \in [1..n -> Sources] :
          /\ Listed(list)
          /\ round' = [i \in 1..n |-> [id |-> list[i],
                                       mode |-> source[list[i]].mode,
                                       watermark |-> source[list[i]].watermark]]
    /\ UNCHANGED <<rows, world, task, history>>

Current == Head(round)

CanPoll(row) == <<row.id, row.mode>> \in Pollable /\ due[row.id]

Ready == round # <<>> /\ task = NextRow

\* Not due, no monitor for the mode, or no credentials: the row stays as it is.
Skip ==
    /\ Ready
    /\ ~CanPoll(Current)
    /\ round' = Tail(round)
    /\ UNCHANGED <<rows, world, task, history>>

\* UpdateSourceWatermark, of a row that may be gone.
WriteWatermark(s, watermark) ==
    /\ source' = [source EXCEPT ![s].watermark = IF Kept(s) THEN watermark ELSE @,
                                ![s].polled = @ \/ Kept(s)]
    /\ rank' = IF Kept(s) THEN MovedBack(s) ELSE rank
    /\ due' = [due EXCEPT ![s] = s \notin Slow]

\* A poll that failed: the time is recorded, with the watermark that was read.
PollFails ==
    /\ "poll" \in Faults
    /\ Ready
    /\ CanPoll(Current)
    /\ \/ WriteWatermark(Current.id, Current.watermark)
       \/ "write" \in Faults /\ UNCHANGED rows
    /\ round' = Tail(round)
    /\ UNCHANGED <<world, task, history>>

\* Variant: a first poll is like any other.
First_Never(row) == FALSE

\* A source without a watermark is initialised.
First(row) == row.watermark = None

\* A poll: the items of the page that could be fetched are to be ingested, less
\* those that the rules drop, if they can be read; on a first poll, none.
Poll ==
    /\ Ready
    /\ CanPoll(Current)
    /\ LET m == Current.mode
           seen == SeenBy(m, Current.watermark)
           page == Page(Fresh(m, seen)) IN
       \E got \in SUBSET page, drop \in {Unwanted, {}}, next \in NextSeen(m, seen) :
          /\ "fetch" \in Faults \/ got = page
          /\ "rules" \in Faults \/ drop = Unwanted
          /\ task' = [pc |-> "ingest",
                      items |-> IF First(Current) THEN {} ELSE got \ drop,
                      mark |-> [mode |-> m, seen |-> next]]
    /\ UNCHANGED <<rows, world, round, history>>

\* One item is ingested.  An alert refers to its source, which must exist.
Ingest(i) ==
    /\ task.pc = "ingest"
    /\ i \in task.items
    /\ \/ /\ Kept(Current.id)
          /\ alerts' = [alerts EXCEPT ![Current.id][Current.mode] = @ \cup {i}]
       \/ /\ ~Kept(Current.id) \/ "ingest" \in Faults
          /\ UNCHANGED alerts
    /\ task' = [task EXCEPT !.items = @ \ {i}]
    /\ UNCHANGED <<rows, world, round, start>>

\* All items are done: the watermark is written, if possible.
Finish ==
    /\ task.pc = "ingest"
    /\ task.items = {}
    /\ \/ /\ WriteWatermark(Current.id, task.mark)
          /\ start' = IF First(Current)
                      THEN [start EXCEPT ![Current.id][Current.mode] = task.mark.seen]
                      ELSE start
       \/ "write" \in Faults /\ UNCHANGED <<rows, start>>
    /\ task' = NextRow
    /\ round' = Tail(round)
    /\ UNCHANGED <<world, alerts>>

\* The process dies; the next one has no round.
Crash ==
    /\ "crash" \in Faults
    /\ round' = <<>>
    /\ task' = NextRow
    /\ UNCHANGED <<rows, world, history>>

-----------------------------------------------------------------------------

Step == Skip \/ PollFails \/ Poll \/ (\E i \in Items : Ingest(i)) \/ Finish

Next ==
    \/ \E s \in Sources, m \in Modes, e \in BOOLEAN : Create(s, m, e) \/ Update(s, m, e)
    \/ \E s \in Sources : Delete(s) \/ BecomeDue(s)
    \/ \E m \in Modes : Appear(m) \/ \E i \in Items : Vanish(m, i)
    \/ StartRound
    \/ Step
    \/ Crash

Spec == Init /\ [][Next]_vars

\* The ticker ticks, the poller is scheduled and its calls return, and poll
\* intervals pass.
Fairness ==
    /\ WF_vars(StartRound)
    /\ WF_vars(Step)
    /\ \A s \in Sources : WF_vars(BecomeDue(s))

FairSpec == Spec /\ Fairness

-----------------------------------------------------------------------------
(***************************************************************************)
(* Properties.                                                             *)
(***************************************************************************)

\* The number after which items count: nothing, until the source is initialised
\* in the mode.
Floor(s, m) == IF start[s][m] = None THEN 0 ELSE start[s][m]

\* No watermark has passed an item that can still be seen, appeared after the
\* initialisation, and was neither ingested nor dropped by a rule.  (No poll but
\* a first one finds more than Cap items; no "fetch", no "ingest".)
NothingSkipped ==
    \A s \in Sources :
        source[s].watermark # None =>
            LET m == source[s].watermark.mode IN
            \A i \in feed[m] :
                Floor(s, m) < i /\ i <= source[s].watermark.seen =>
                    i \in alerts[s][m] \cup Unwanted \/ ~Kept(s)

\* As long as the mode is the same, a watermark never goes back, though the
\* list may shrink and failed polls write what they had read.
WatermarkAdvances ==
    [][\A s \in Sources :
          LET old == source[s].watermark
              new == source'[s].watermark IN
          old # None => new # None /\ (old.mode = new.mode => old.seen <= new.seen)]_vars

\* "On first poll, set watermark but don't ingest (prevents startup flood)"
\* (service/source_poller.go): what is ingested appeared after the source was
\* initialised in its mode.  It holds as long as the mode stays the same.
NoFlood ==
    \A s \in Sources, m \in Modes : \A i \in alerts[s][m] :
        start[s][m] # None /\ i > start[s][m]

\* While a source stays enabled in a mode that can be polled, every item that
\* appears after its initialisation becomes an alert, is dropped by a rule or
\* vanishes, however many sources compete.  (Sources that cannot be polled keep
\* their place in front of the list: there are none, and no faults.)
EveryItemArrives ==
    \A s \in Sources, m \in Modes, i \in Items :
        i \in feed[m] /\ start[s][m] # None /\ i > start[s][m]
            ~> \/ i \in alerts[s][m] \cup Unwanted \/ i \notin feed[m]
               \/ ~Enabled(s) \/ source[s].mode # m
=============================================================================
