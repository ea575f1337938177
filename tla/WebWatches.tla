----------------------------- MODULE WebWatches -----------------------------
(***************************************************************************)
(* Web monitor sources and the watches that the werd API keeps for them at *)
(* changedetection.io: the row of a source lists its watches, in the order *)
(* of its URLs.  Each call to changedetection.io and each statement is a   *)
(* step, may fail, and interleaves with other requests.                    *)
(***************************************************************************)
EXTENDS Naturals, Sequences, FiniteSets, FiniteSetsExt

CONSTANTS
    Sources,   \* identifiers of monitor sources
    Requests,  \* requests that are handled at a time
    URLs,      \* addresses of pages
    UrlLists,  \* lists of addresses that users configure
    MaxWatch,  \* bound of the watches that are ever made
    Faults,    \* the faults of an instance, among AllFaults
    None       \* no watch, no instance

\* A call to changedetection.io fails; a statement fails; the process dies; a
\* project is deleted with its sources.
AllFaults == {"call", "statement", "crash", "project"}

ASSUME UrlsAssumption == UrlLists \subseteq Seq(URLs) /\ MaxWatch \in Nat
ASSUME FaultsAssumption == Faults \subseteq AllFaults
ASSUME NoneAssumption == None \notin Nat \cup Seq(Nat) /\ None \notin Sources

VARIABLES
    row,       \* row[s]: the row of monitor_sources
    instance,  \* instance[s]: the watches in the row of service_instances, or None
    watch,     \* the watches at changedetection.io
    made,      \* the number of watches ever made
    request,   \* request[r]: a request under way
    torn,      \* sources with a request cut short or overlapped by another, or
               \* with addresses that shared a watch when they were updated
    flawed     \* sources with a failed call, a repeated address, another type,
               \* or torn

vars == <<row, instance, watch, made, request, torn, flawed>>
history == <<torn, flawed>>

Watches == 1..MaxWatch

\* A row that went with its project is gone.  Whether the source is enabled is
\* left out: it does not change what is called or tracked.  (The statement that
\* ends a creation enables the source, whatever was asked.)
RowState == [life : {"unused", "kept", "deleted", "gone"}, web : BOOLEAN, urls : Seq(URLs),
             ids : Seq(Watches)]

\* What changedetection.io knows: the source is the tag of the watch.
WatchState == [id : Watches, url : URLs, source : Sources]

\* drop and make are what is left to do there, of[u] is the watch known for u.
RequestState ==
    [op : {"create", "update", "delete", "none"}, pc : {"idle", "read", "call", "track", "write"},
     source : Sources \cup {None}, web : BOOLEAN, urls : Seq(URLs),
     drop : Seq(Watches), make : Seq(URLs), ids : Seq(Watches),
     of : [URLs -> Watches \cup {None}]]

NoWatch == [u \in URLs |-> None]

Idle == [op |-> "none", pc |-> "idle", source |-> None, web |-> FALSE,
         urls |-> <<>>, drop |-> <<>>, make |-> <<>>, ids |-> <<>>, of |-> NoWatch]

TypeOK ==
    /\ row \in [Sources -> RowState]
    /\ instance \in [Sources -> Seq(Watches) \cup {None}]
    /\ watch \subseteq WatchState
    /\ made \in 0..MaxWatch
    /\ request \in [Requests -> RequestState]
    /\ torn \subseteq flawed
    /\ flawed \subseteq Sources

NoRow == [life |-> "unused", web |-> FALSE, urls |-> <<>>, ids |-> <<>>]

Init ==
    /\ row = [s \in Sources |-> NoRow]
    /\ instance = [s \in Sources |-> None]
    /\ watch = {}
    /\ made = 0
    /\ request = [r \in Requests |-> Idle]
    /\ torn = {}
    /\ flawed = {}

Kept(s) == row[s].life = "kept"
Busy(s) == \E r \in Requests : request[r].source = s

Tear(s) == torn' = torn \cup {s} /\ flawed' = flawed \cup {s}
Flaw(s) == torn' = torn /\ flawed' = flawed \cup {s}
Fine == UNCHANGED history

Step(r, q) == request' = [request EXCEPT ![r] = q]

-----------------------------------------------------------------------------
(***************************************************************************)
(* Requests begin.                                                         *)
(***************************************************************************)

\* A request that overlaps another one for the source tears it; a list with
\* repeated addresses is a flaw, and so is a change to another type.
Begun(s, urls, web) ==
    IF Busy(s) THEN Tear(s)
    ELSE IF ~IsInjective(urls) \/ (Kept(s) /\ row[s].web /\ ~web) THEN Flaw(s)
    ELSE Fine

\* The row is inserted without watches; those of a web source are made next.
Create(r, s, urls, web) ==
    /\ row[s].life = "unused"
    /\ request[r] = Idle
    /\ row' = [row EXCEPT ![s] = [life |-> "kept", web |-> web,
                                  urls |-> urls, ids |-> <<>>]]
    /\ IF web /\ urls # <<>>
       THEN Step(r, [Idle EXCEPT !.op = "create", !.pc = "call", !.source = s, !.web = TRUE,
                                 !.urls = urls, !.make = urls])
       ELSE Step(r, Idle)
    /\ Begun(s, urls, web)
    /\ UNCHANGED <<instance, watch, made>>

Update(r, s, urls, web) ==
    /\ Kept(s)
    /\ request[r] = Idle
    /\ Step(r, [Idle EXCEPT !.op = "update", !.pc = IF web THEN "read" ELSE "write",
                            !.source = s, !.web = web, !.urls = urls])
    /\ Begun(s, urls, web)
    /\ UNCHANGED <<row, instance, watch, made>>

\* The row is read, and the watches it lists will be deleted.
Delete(r, s) ==
    /\ Kept(s)
    /\ request[r] = Idle
    /\ Step(r, [Idle EXCEPT !.op = "delete", !.pc = IF row[s].web THEN "call" ELSE "write",
                            !.source = s, !.drop = IF row[s].web THEN row[s].ids ELSE <<>>])
    /\ IF Busy(s) THEN Tear(s) ELSE Fine
    /\ UNCHANGED <<row, instance, watch, made>>

-----------------------------------------------------------------------------
(***************************************************************************)
(* Reconciliation of old and new addresses.                                *)
(***************************************************************************)

\* Variant: addresses are paired with watches from the end.
WatchOf_Reversed(old, u) ==
    LET at == {i \in 1..Len(old.urls) : old.urls[i] = u /\ i <= Len(old.ids)} IN
    IF at = {} THEN None ELSE old.ids[Len(old.ids) + 1 - Max(at)]

\* Addresses and watches are paired by position; the last pair counts.
WatchOf(old, u) ==
    LET at == {i \in 1..Len(old.urls) : old.urls[i] = u /\ i <= Len(old.ids)} IN
    IF at = {} THEN None ELSE old.ids[Max(at)]

\* The part of a list at some of its places.
At(list, places) ==
    LET at == CHOOSE f \in [1..Cardinality(places) -> places] :
                  \A i, j \in DOMAIN f : i < j => f[i] < f[j] IN
    [i \in 1..Cardinality(places) |-> list[at[i]]]

\* Variant: the watches of addresses that are kept are deleted too.
Dropped_All(old, new) == old.ids

\* The watches of the addresses that are gone, once for every place.
Dropped(old, new) ==
    At([i \in 1..Len(old.urls) |-> WatchOf(old, old.urls[i])],
       {i \in 1..Len(old.urls) : old.urls[i] \notin Range(new) /\ WatchOf(old, old.urls[i]) # None})

\* Variant: an unknown watch leaves a hole.
Listed_Holes(urls, of) == [i \in 1..Len(urls) |-> of[urls[i]]]

\* The watches of a list of addresses, in its order, unknown ones left out.
Listed(urls, of) ==
    At([i \in 1..Len(urls) |-> of[urls[i]]], {i \in 1..Len(urls) : of[urls[i]] # None})

\* Addresses of a row share a watch, after a failed call for one of a list that
\* repeats another.
Tangled(old) ==
    \E u, v \in URLs : u # v /\ WatchOf(old, u) # None /\ WatchOf(old, u) = WatchOf(old, v)

\* An update reads the row.  If it cannot, nothing is reconciled, and the row
\* loses its watches.
ReadOld(r) ==
    LET q == request[r]
        old == row[q.source] IN
    /\ q.pc = "read"
    /\ \/ /\ Kept(q.source)
          /\ Step(r, [q EXCEPT !.pc = "call", !.drop = Dropped(old, q.urls),
                               !.make = q.urls,
                               !.of = [u \in URLs |-> WatchOf(old, u)]])
          /\ IF Tangled(old) THEN Tear(q.source) ELSE Fine
       \/ /\ ~Kept(q.source) \/ "statement" \in Faults
          /\ Step(r, [q EXCEPT !.pc = "write"])
          /\ Tear(q.source)
    /\ UNCHANGED <<row, instance, watch, made>>

-----------------------------------------------------------------------------
(***************************************************************************)
(* Calls to changedetection.io.                                            *)
(***************************************************************************)

\* A watch that does not exist cannot be deleted: the call fails.
DropWatch(r) ==
    LET q == request[r] IN
    /\ q.pc = "call"
    /\ q.drop # <<>>
    /\ \/ watch' = {w \in watch : w.id # Head(q.drop)} /\ Fine
       \/ "call" \in Faults /\ watch' = watch /\ Flaw(q.source)
    /\ Step(r, [q EXCEPT !.drop = Tail(q.drop)])
    /\ UNCHANGED <<row, instance, made>>

\* A watch is made for the next address; an update skips one that has a watch.
MakeWatch(r) ==
    LET q == request[r]
        u == Head(q.make)
        rest == [q EXCEPT !.make = Tail(q.make)] IN
    /\ q.pc = "call"
    /\ q.drop = <<>> /\ q.make # <<>>
    /\ \/ /\ q.op = "update" /\ q.of[u] # None
          /\ Step(r, rest)
          /\ Fine
          /\ UNCHANGED <<watch, made>>
       \/ /\ q.op = "create" \/ q.of[u] = None
          /\ made < MaxWatch
          /\ made' = made + 1
          /\ watch' = watch \cup {[id |-> made + 1, url |-> u, source |-> q.source]}
          /\ Step(r, [rest EXCEPT !.ids = Append(@, made + 1), !.of[u] = made + 1])
          /\ Fine
       \/ /\ q.op = "create" \/ q.of[u] = None
          /\ "call" \in Faults
          /\ Step(r, rest)
          /\ Flaw(q.source)
          /\ UNCHANGED <<watch, made>>
    /\ UNCHANGED <<row, instance>>

\* The calls are done.  Creation writes the row next if there are watches; an
\* update keeps track of the instance first; so does a deletion.
CallsDone(r) ==
    LET q == request[r] IN
    /\ q.pc = "call"
    /\ q.drop = <<>> /\ q.make = <<>>
    /\ CASE q.op = "create" ->
              Step(r, IF q.ids = <<>> THEN Idle ELSE [q EXCEPT !.pc = "write"])
         [] q.op = "update" -> Step(r, [q EXCEPT !.pc = "track", !.ids = Listed(q.urls, q.of)])
         [] q.op = "delete" -> Step(r, [q EXCEPT !.pc = "track"])
    /\ UNCHANGED <<row, instance, watch, made, history>>

-----------------------------------------------------------------------------
(***************************************************************************)
(* Statements at the end of a request.                                     *)
(***************************************************************************)

\* The instance, which refers to the project, is inserted, updated if there is one, or deleted.
Track(r) ==
    LET q == request[r] IN
    /\ q.pc = "track"
    /\ \/ /\ instance' = [instance EXCEPT ![q.source] =
                CASE q.op = "create" -> IF row[q.source].life # "gone" THEN q.ids ELSE @
                  [] q.op = "update" -> IF @ = None THEN None ELSE q.ids
                  [] q.op = "delete" -> None]
          /\ Fine
       \/ "statement" \in Faults /\ UNCHANGED instance /\ Tear(q.source)
    /\ Step(r, IF q.op = "create" THEN Idle ELSE [q EXCEPT !.pc = "write"])
    /\ UNCHANGED <<row, watch, made>>

Written(q) ==
    [life |-> "kept", web |-> q.web, urls |-> q.urls, ids |-> q.ids]

\* The row is changed, if it is still there, or deleted.
Write(r) ==
    LET q == request[r]
        s == q.source IN
    /\ q.pc = "write"
    /\ \/ /\ row' = [row EXCEPT ![s] =
                IF q.op = "delete" THEN [NoRow EXCEPT !.life = "deleted"]
                ELSE IF Kept(s) THEN Written(q) ELSE @]
          /\ Fine
       \/ "statement" \in Faults /\ UNCHANGED row /\ Tear(s)
    /\ Step(r, IF q.op = "create" THEN [q EXCEPT !.pc = "track"] ELSE Idle)
    /\ UNCHANGED <<instance, watch, made>>

-----------------------------------------------------------------------------
(***************************************************************************)
(* Faults.                                                                 *)
(***************************************************************************)

\* The process dies with its requests.
Crash ==
    /\ "crash" \in Faults
    /\ request' = [r \in Requests |-> Idle]
    /\ LET cut == {s \in Sources : Busy(s)} IN
       torn' = torn \cup cut /\ flawed' = flawed \cup cut
    /\ UNCHANGED <<row, instance, watch, made>>

\* The deletion of a project takes rows and instances with it, not the watches.
DeleteProject ==
    /\ "project" \in Faults
    /\ row' = [s \in Sources |-> IF row[s].life = "unused" THEN NoRow
                                 ELSE [NoRow EXCEPT !.life = "gone"]]
    /\ instance' = [s \in Sources |-> None]
    /\ LET gone == {s \in Sources : Kept(s)} IN
       torn' = torn \cup gone /\ flawed' = flawed \cup gone
    /\ UNCHANGED <<watch, made, request>>

-----------------------------------------------------------------------------

Next ==
    \/ \E r \in Requests :
          \/ \E s \in Sources, urls \in UrlLists, web \in BOOLEAN :
                Create(r, s, urls, web) \/ Update(r, s, urls, web)
          \/ \E s \in Sources : Delete(r, s)
          \/ ReadOld(r) \/ DropWatch(r) \/ MakeWatch(r) \/ CallsDone(r) \/ Track(r) \/ Write(r)
    \/ Crash
    \/ DeleteProject

Spec == Init /\ [][Next]_vars

-----------------------------------------------------------------------------
(***************************************************************************)
(* Properties.                                                             *)
(***************************************************************************)

Exists(w) == \E v \in watch : v.id = w

\* The row of a web source lists only watches that exist, even after calls that
\* failed, or for lists with repeated addresses, as long as its requests did not
\* overlap, were not cut short, and their statements did not fail.  The two
\* together can leave a watch to two addresses: it goes with the first of them.
ListedExist ==
    \A s \in Sources :
        Kept(s) /\ ~Busy(s) /\ s \notin torn => \A w \in Range(row[s].ids) : Exists(w)

\* Where there is an instance, it tells the same watches as the row.
InstanceMatches(s) == instance[s] # None => Kept(s) /\ instance[s] = row[s].ids

\* A web source without a flaw has one watch for each of its addresses, in their
\* order, and no other, and its instance tells the same; one that was deleted has
\* none left.
WatchesMatch ==
    \A s \in Sources :
        ~Busy(s) /\ s \notin flawed =>
            /\ {w \in watch : w.source = s} =
                  {[id |-> row[s].ids[i], url |-> row[s].urls[i], source |-> s] :
                      i \in 1..Len(row[s].ids)}
            /\ Kept(s) /\ row[s].web => Len(row[s].ids) = Len(row[s].urls)
            /\ InstanceMatches(s)
=============================================================================
