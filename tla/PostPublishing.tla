--------------------------- MODULE PostPublishing ---------------------------
(***************************************************************************)
(* Publishing of posts by the werd API: the rows of published_posts and    *)
(* post_platform_results, the HTTP requests and river workers that read    *)
(* and write them, the river job table, and the social platforms.          *)
(*                                                                         *)
(* A request or a worker is a run.  Each statement it sends to the         *)
(* database and each call of a platform adapter is a step of its own, so   *)
(* that runs interleave between them as they do in the service.            *)
(***************************************************************************)
EXTENDS Naturals, Sequences, FiniteSets

CONSTANTS
    Posts,        \* identifiers of posts
    Platforms,    \* platforms with a registered adapter
    Lists,        \* the platform lists a client may submit
    Http,         \* concurrent HTTP requests
    Workers,      \* concurrent river workers
    Jobs,         \* identifiers of river jobs (bounds the Schedule calls)
    MaxAttempts,  \* attempts river makes at a job before it discards it
    MaxTime,      \* bound of the clock
    Faults,       \* the faults of an instance, among AllFaults
    None          \* no post, no job

\* "crash": the process dies; "db": a statement fails (server or context);
\* "lost": the platform accepts a post but the adapter reports an error.
AllFaults == {"crash", "db", "lost"}

Runs == Http \cup Workers

ASSUME ListsAssumption == Lists \subseteq Seq(Platforms) \ {<<>>}
ASSUME RunsAssumption == Http \cap Workers = {}
ASSUME BoundsAssumption == MaxAttempts \in Nat \ {0} /\ MaxTime \in Nat
ASSUME FaultsAssumption == Faults \subseteq AllFaults
ASSUME NoneAssumption == None \notin Posts /\ None \notin Jobs

VARIABLES
    status,       \* status[p]: the row's status; "none" before, "deleted" after
    platforms,    \* platforms[p]: the row's target platforms, in order
    scheduledAt,  \* scheduledAt[p]: the row's scheduled_at, 0 for NULL
    okRows,       \* okRows[p]: platforms with a success row in the results
    failRows,     \* failRows[p]: platforms with a failure row in the results
    job,          \* job[j]: the river job table
    run,          \* run[r]: local state of a request or worker
    now,          \* the clock
    delivered,    \* delivered[p]: platforms on which p has been posted
    jobSent       \* jobSent[j]: list positions that attempts of j have posted

rows == <<status, platforms, scheduledAt, okRows, failRows>>
world == <<delivered, jobSent>>
vars == <<rows, job, run, now, world>>

Statuses == {"none", "draft", "scheduled", "publishing", "published",
             "failed", "deleted"}

\* Statuses a post has once a run has begun to publish it.
Committed == {"publishing", "published", "failed"}

PCs == {"idle", "enqueue", "delete", "load", "mark", "send", "record",
        "conclude", "final"}

IdleRun == [pc |-> "idle", post |-> None, job |-> None, at |-> 0,
            list |-> <<>>, idx |-> 0, failed |-> {}]

NoJob == [state |-> "none", post |-> None, at |-> 0, tries |-> 0]

RunState == [pc : PCs, post : Posts \cup {None}, job : Jobs \cup {None},
             at : Nat, list : Seq(Platforms), idx : Nat, failed : SUBSET Nat]

JobState == [state : {"none", "available", "running", "completed",
                      "discarded"},
             post : Posts \cup {None}, at : Nat, tries : Nat]

TypeOK ==
    /\ status \in [Posts -> Statuses]
    /\ platforms \in [Posts -> Seq(Platforms)]
    /\ scheduledAt \in [Posts -> Nat]
    /\ okRows \in [Posts -> SUBSET Platforms]
    /\ failRows \in [Posts -> SUBSET Platforms]
    /\ job \in [Jobs -> JobState]
    /\ run \in [Runs -> RunState]
    /\ now \in Nat
    /\ delivered \in [Posts -> SUBSET Platforms]
    /\ jobSent \in [Jobs -> SUBSET Nat]

Init ==
    /\ status = [p \in Posts |-> "none"]
    /\ platforms = [p \in Posts |-> <<>>]
    /\ scheduledAt = [p \in Posts |-> 0]
    /\ okRows = [p \in Posts |-> {}]
    /\ failRows = [p \in Posts |-> {}]
    /\ job = [j \in Jobs |-> NoJob]
    /\ run = [r \in Runs |-> IdleRun]
    /\ now = 0
    /\ delivered = [p \in Posts |-> {}]
    /\ jobSent = [j \in Jobs |-> {}]

-----------------------------------------------------------------------------
(***************************************************************************)
(* Guards and conversions.                                                 *)
(***************************************************************************)

\* The WHERE clause of UpdatePublishedPost and DeletePublishedPost.
Editable_WithFailed == {"draft", "scheduled", "failed"}
Editable == {"draft", "scheduled"}

\* The status test of Publish.
Publishable == {"draft", "failed"}

\* The status test of ExecutePublish.
Executable_Resume == {"scheduled", "publishing"}
Executable == {"scheduled"}

\* The WHERE clause of UnschedulePublishedPost.
Unschedulable_Publishing == {"scheduled", "publishing"}
Unschedulable == {"scheduled"}

RowExists(p) == status[p] \notin {"none", "deleted"}

PlatformAt(r) == run[r].list[run[r].idx]

\* Has run r been started and not returned, on post p?
Busy(r, p) == run[r].pc # "idle" /\ run[r].post = p

UnusedJobs == {j \in Jobs : job[j].state = "none"}

\* A variant that leaves the job in a state that no fetch looks at.
AfterError_Retryable(j) == [job[j] EXCEPT !.state = "retryable"]

\* What river does with a job whose attempt did not return nil: another
\* attempt later, until the attempts are used up.
AfterError(j) ==
    [job[j] EXCEPT !.state =
        IF job[j].tries < MaxAttempts THEN "available" ELSE "discarded"]

\* Run r returns; a worker reports to river whether ExecutePublish gave nil.
Return(r, ok) ==
    /\ run' = [run EXCEPT ![r] = IdleRun]
    /\ job' = [j \in Jobs |->
                 IF j # run[r].job THEN job[j]
                 ELSE IF ok THEN [job[j] EXCEPT !.state = "completed"]
                 ELSE AfterError(j)]

-----------------------------------------------------------------------------
(***************************************************************************)
(* Requests that are one statement.                                        *)
(***************************************************************************)

\* Create: a new draft with a non-empty platform list.
Create(p, l) ==
    /\ status[p] = "none"
    /\ status' = [status EXCEPT ![p] = "draft"]
    /\ platforms' = [platforms EXCEPT ![p] = l]
    /\ UNCHANGED <<scheduledAt, okRows, failRows, job, run, now, world>>

\* Update: edits a draft or a scheduled post.
Update(p, l) ==
    /\ status[p] \in Editable
    /\ platforms' = [platforms EXCEPT ![p] = l]
    /\ UNCHANGED <<status, scheduledAt, okRows, failRows, job, run, now, world>>

\* UnschedulePublishedPost: back to draft; the river job stays in its table.
BackToDraft(p) ==
    /\ status' = [status EXCEPT ![p] = "draft"]
    /\ scheduledAt' = [scheduledAt EXCEPT ![p] = 0]
    /\ UNCHANGED <<platforms, okRows, failRows>>

\* Unschedule: cancels a scheduled post.
Unschedule(p) ==
    /\ status[p] \in Unschedulable
    /\ BackToDraft(p)
    /\ UNCHANGED <<job, run, now, world>>

-----------------------------------------------------------------------------
(***************************************************************************)
(* Delete: reads the row, then deletes it if it is still editable.  The    *)
(* results go with the row (ON DELETE CASCADE).                            *)
(***************************************************************************)
DeleteRead(h, p) ==
    /\ run[h].pc = "idle"
    /\ status[p] \in {"draft", "scheduled"}
    /\ run' = [run EXCEPT ![h] = [IdleRun EXCEPT !.pc = "delete", !.post = p]]
    /\ UNCHANGED <<rows, job, now, world>>

DeleteRow(h) ==
    LET p == run[h].post IN
    /\ run[h].pc = "delete"
    /\ run' = [run EXCEPT ![h] = IdleRun]
    /\ IF status[p] \in Editable
         THEN /\ status' = [status EXCEPT ![p] = "deleted"]
              /\ okRows' = [okRows EXCEPT ![p] = {}]
              /\ failRows' = [failRows EXCEPT ![p] = {}]
              /\ UNCHANGED <<platforms, scheduledAt>>
         ELSE UNCHANGED rows
    /\ UNCHANGED <<job, now, world>>

-----------------------------------------------------------------------------
(***************************************************************************)
(* Schedule: marks a draft scheduled, then inserts the river job; if the   *)
(* insert fails the row goes back to draft, if that statement succeeds.    *)
(***************************************************************************)

\* The guard on UnusedJobs is the model's bound on the number of jobs: every
\* request that is to insert one finds an identifier.
ScheduleRow(h, p, t) ==
    /\ run[h].pc = "idle"
    /\ t > now
    /\ status[p] = "draft"
    /\ Cardinality(UnusedJobs) > Cardinality({r \in Runs : run[r].pc = "enqueue"})
    /\ status' = [status EXCEPT ![p] = "scheduled"]
    /\ scheduledAt' = [scheduledAt EXCEPT ![p] = t]
    /\ run' = [run EXCEPT ![h] =
                 [IdleRun EXCEPT !.pc = "enqueue", !.post = p, !.at = t]]
    /\ UNCHANGED <<platforms, okRows, failRows, job, now, world>>

\* A variant with river's unique jobs: a job with the same arguments, finished
\* or not, suppresses the insertion.
InsertJob_Unique(h, j) ==
    IF \E k \in Jobs : job[k].post = run[h].post THEN job
    ELSE [job EXCEPT ![j] = [state |-> "available", post |-> run[h].post,
                             at |-> run[h].at, tries |-> 0]]

InsertJob(h, j) ==
    [job EXCEPT ![j] = [state |-> "available", post |-> run[h].post,
                        at |-> run[h].at, tries |-> 0]]

EnqueueJob(h, j) ==
    /\ run[h].pc = "enqueue"
    /\ j \in UnusedJobs
    /\ job' = InsertJob(h, j)
    /\ run' = [run EXCEPT ![h] = IdleRun]
    /\ UNCHANGED <<rows, now, world>>

EnqueueFails(h) ==
    /\ "db" \in Faults
    /\ run[h].pc = "enqueue"
    /\ run' = [run EXCEPT ![h] = IdleRun]
    /\ \/ /\ status[run[h].post] \in Unschedulable
          /\ BackToDraft(run[h].post)
       \/ UNCHANGED rows
    /\ UNCHANGED <<job, now, world>>

-----------------------------------------------------------------------------
(***************************************************************************)
(* Starting to publish.                                                    *)
(***************************************************************************)

\* The run has seen a status it accepts and keeps the row it has read.
TakeSnapshot(r, p, j) ==
    run' = [run EXCEPT ![r] = [IdleRun EXCEPT !.pc = "mark", !.post = p,
                                              !.job = j, !.list = platforms[p],
                                              !.idx = 1]]

\* Publish, up to and including the status test.
Publish(h, p) ==
    /\ run[h].pc = "idle"
    /\ status[p] \in Publishable
    /\ TakeSnapshot(h, p, None)
    /\ UNCHANGED <<rows, job, now, world>>

\* A river worker takes a job that is due.
Fetch(w, j) ==
    /\ run[w].pc = "idle"
    /\ job[j].state = "available"
    /\ job[j].at <= now
    /\ job' = [job EXCEPT ![j].state = "running", ![j].tries = @ + 1]
    /\ run' = [run EXCEPT ![w] = [IdleRun EXCEPT !.pc = "load", !.job = j,
                                                 !.post = job[j].post]]
    /\ UNCHANGED <<rows, now, world>>

\* ExecutePublish reads the row: an executable post is published, one that
\* has another status ends the job, and a missing row is an error.
Load(w) ==
    LET p == run[w].post IN
    /\ run[w].pc = "load"
    /\ \/ /\ status[p] \in Executable
          /\ TakeSnapshot(w, p, run[w].job)
          /\ UNCHANGED job
       \/ /\ RowExists(p)
          /\ status[p] \notin Executable
          /\ Return(w, TRUE)
       \/ /\ ~RowExists(p) \/ "db" \in Faults
          /\ Return(w, FALSE)
    /\ UNCHANGED <<rows, now, world>>

\* UpdatePublishedPostStatus: no WHERE on the status, an error if the row is
\* gone.
Mark(r) ==
    LET p == run[r].post IN
    /\ run[r].pc = "mark"
    /\ \/ /\ RowExists(p)
          /\ status' = [status EXCEPT ![p] = "publishing"]
          /\ run' = [run EXCEPT ![r].pc = "send"]
          /\ UNCHANGED <<platforms, scheduledAt, okRows, failRows, job>>
       \/ /\ ~RowExists(p) \/ "db" \in Faults
          /\ Return(r, FALSE)
          /\ UNCHANGED rows
    /\ UNCHANGED <<now, world>>

-----------------------------------------------------------------------------
(***************************************************************************)
(* The loop over the platforms of the snapshot.                            *)
(***************************************************************************)

\* To the next platform, or out of the loop after the last.
Advance(r, failed) ==
    run' = [run EXCEPT ![r].idx = @ + 1, ![r].failed = failed,
                       ![r].pc = IF run[r].idx < Len(run[r].list)
                                 THEN "send" ELSE "conclude"]

\* The platform publishes the post: what the world has seen of it.
Deliver(r) ==
    /\ delivered' = [delivered EXCEPT ![run[r].post] = @ \cup {PlatformAt(r)}]
    /\ jobSent' = [j \in Jobs |-> IF j = run[r].job
                                  THEN jobSent[j] \cup {run[r].idx}
                                  ELSE jobSent[j]]

\* A variant that does not write a result row for the last platform.
SendOk_SkipLastRow(r) ==
    /\ run[r].pc = "send"
    /\ Deliver(r)
    /\ IF run[r].idx < Len(run[r].list)
         THEN run' = [run EXCEPT ![r].pc = "record"]
         ELSE Advance(r, run[r].failed)
    /\ UNCHANGED <<rows, job, now>>

SendOk(r) ==
    /\ run[r].pc = "send"
    /\ Deliver(r)
    /\ run' = [run EXCEPT ![r].pc = "record"]
    /\ UNCHANGED <<rows, job, now>>

\* A variant that drops the error of the adapter.
SendFails_Ignored(r) ==
    /\ run[r].pc = "send"
    /\ run' = [run EXCEPT ![r].pc = "record"]
    /\ UNCHANGED <<rows, job, now, world>>

\* No enabled connection, no adapter, or the adapter reports an error.
SendFails(r) ==
    /\ run[r].pc = "send"
    /\ Advance(r, run[r].failed \cup {run[r].idx})
    /\ UNCHANGED <<rows, job, now, world>>

\* The platform publishes the post, but the adapter reports an error (the
\* browser service answers after the 60 s of the client, say).
SendLost(r) ==
    /\ "lost" \in Faults
    /\ run[r].pc = "send"
    /\ Deliver(r)
    /\ Advance(r, run[r].failed \cup {run[r].idx})
    /\ UNCHANGED <<rows, job, now>>

\* CreatePostPlatformResult for a success; its error is ignored.
RecordSuccess(r) ==
    LET p == run[r].post IN
    /\ run[r].pc = "record"
    /\ \/ /\ RowExists(p)
          /\ okRows' = [okRows EXCEPT ![p] = @ \cup {PlatformAt(r)}]
       \/ /\ ~RowExists(p) \/ "db" \in Faults
          /\ UNCHANGED okRows
    /\ Advance(r, run[r].failed)
    /\ UNCHANGED <<status, platforms, scheduledAt, failRows, job, now, world>>

FailedPlatforms(r) == {run[r].list[i] : i \in run[r].failed}

\* A variant that persists failures only if no platform succeeded.
FailuresWritten_AllOrNone(r) ==
    IF Cardinality(run[r].failed) < Len(run[r].list) THEN {{}}
    ELSE {FailedPlatforms(r)}

\* The failure rows one call of the loop may leave behind.
FailuresWritten(r) ==
    IF "db" \in Faults THEN SUBSET FailedPlatforms(r) ELSE {FailedPlatforms(r)}

\* CreatePostPlatformResult for each failed platform; errors are ignored.
RecordFailures(r) ==
    LET p == run[r].post IN
    /\ run[r].pc = "conclude"
    /\ \E F \in FailuresWritten(r) :
          failRows' = IF RowExists(p) THEN [failRows EXCEPT ![p] = @ \cup F]
                      ELSE failRows
    /\ run' = [run EXCEPT ![r].pc = "final"]
    /\ UNCHANGED <<status, platforms, scheduledAt, okRows, job, now, world>>

\* Variants: the outcome ignores failures; a failure leaves the status alone.
Outcome_AlwaysPublished(r) == "published"
Outcome_FailureForgotten(r) ==
    IF run[r].failed = {} THEN "published" ELSE status[run[r].post]

Outcome(r) == IF run[r].failed = {} THEN "published" ELSE "failed"

\* The final status, written without a test of the current one and with its
\* error ignored; a run with failures returns ErrPublishFailed.
Conclude(r) ==
    LET p == run[r].post IN
    /\ run[r].pc = "final"
    /\ \/ /\ RowExists(p)
          /\ status' = [status EXCEPT ![p] = Outcome(r)]
       \/ /\ ~RowExists(p) \/ "db" \in Faults
          /\ UNCHANGED status
    /\ Return(r, run[r].failed = {})
    /\ UNCHANGED <<platforms, scheduledAt, okRows, failRows, now, world>>

-----------------------------------------------------------------------------
(***************************************************************************)
(* The environment: time, and the death of the process.                    *)
(***************************************************************************)
Tick ==
    /\ now < MaxTime
    /\ now' = now + 1
    /\ UNCHANGED <<rows, job, run, world>>

\* All runs are lost; river's rescuer gives the jobs that were running to
\* another attempt, or discards them.
Crash ==
    /\ "crash" \in Faults
    /\ run' = [r \in Runs |-> IdleRun]
    /\ job' = [j \in Jobs |-> IF job[j].state = "running" THEN AfterError(j)
                              ELSE job[j]]
    /\ UNCHANGED <<rows, now, world>>

Request ==
    \/ \E p \in Posts, l \in Lists : Create(p, l) \/ Update(p, l)
    \/ \E p \in Posts : Unschedule(p)
    \/ \E h \in Http, p \in Posts :
          \/ DeleteRead(h, p)
          \/ Publish(h, p)
          \/ \E t \in 1..MaxTime : ScheduleRow(h, p, t)

\* The steps of a request or an attempt that is under way.
Continue(r) ==
    \/ DeleteRow(r) \/ EnqueueFails(r)
    \/ \E j \in Jobs : EnqueueJob(r, j)
    \/ Load(r) \/ Mark(r)
    \/ SendOk(r) \/ SendFails(r) \/ SendLost(r) \/ RecordSuccess(r)
    \/ RecordFailures(r) \/ Conclude(r)

Next ==
    \/ Request
    \/ \E w \in Workers, j \in Jobs : Fetch(w, j)
    \/ \E r \in Runs : Continue(r)
    \/ Tick
    \/ Crash

Spec == Init /\ [][Next]_vars

(***************************************************************************)
(* The clock advances, a free worker takes a due job, and a request or an  *)
(* attempt that is under way takes its next step (a goroutine is not       *)
(* suspended for ever, and every external call has a timeout).  Clients    *)
(* need not do anything.                                                   *)
(***************************************************************************)
Fairness ==
    /\ WF_vars(Tick)
    /\ WF_vars(\E w \in Workers, j \in Jobs : Fetch(w, j))
    /\ \A r \in Runs : WF_vars(Continue(r))

FairSpec == Spec /\ Fairness

-----------------------------------------------------------------------------
(***************************************************************************)
(* Properties that hold under every fault.                                 *)
(***************************************************************************)

PlatformsOf(list) == {list[i] : i \in 1..Len(list)}

\* A post that has been posted anywhere is never a draft, a scheduled post or
\* a deleted row: whatever requests and workers race, nobody can edit, cancel
\* or delete what the outside world may already show.
NothingSentUncommitted ==
    \A p \in Posts : delivered[p] # {} => status[p] \in Committed

\* Once a run has marked a post publishing, no request changes its platforms
\* and no request or rollback makes it editable, scheduled or deleted again
\* ("Published posts cannot be edited or deleted from Werd").
CommittedStays ==
    [][\A p \in Posts : status[p] \in Committed =>
          status'[p] \in Committed /\ platforms'[p] = platforms[p]]_vars

\* River repeats a job after an error, a timeout or a crash; the attempts of
\* one job still post to each place of the platform list at most once.
JobSendsOnce ==
    \A w \in Workers : run[w].pc = "send" => run[w].idx \notin jobSent[run[w].job]

\* A success row is written only for a platform that has the post.
RowsAreTrue == \A p \in Posts : okRows[p] \subseteq delivered[p]

\* A post becomes published only by a run all of whose platforms have the
\* post.  (The platforms the run has read: an edit before the
\* mark may have added others since.)
PublishedWasSent ==
    [][\A p \in Posts : status[p] # "published" /\ status'[p] = "published" =>
          \E r \in Runs : /\ run[r].post = p
                          /\ PlatformsOf(run[r].list) \subseteq delivered[p]]_vars

(***************************************************************************)
(* Properties that need some faults to be absent.                          *)
(***************************************************************************)

\* While statements succeed and the process lives, whatever was posted has a
\* success row, or its run is about to write one.  (No "db", "crash", "lost".)
NothingUnrecorded ==
    \A p \in Posts : \A x \in delivered[p] \ okRows[p] :
        \E r \in Runs : Busy(r, p) /\ run[r].pc = "record" /\ PlatformAt(r) = x

\* A failed post says where: it has a failure row.  (No "db".)
FailedHasReason ==
    \A p \in Posts : status[p] = "failed" => failRows[p] # {}

\* The results of a post tell what became of it, on every platform.
OutcomesRecorded == NothingUnrecorded /\ FailedHasReason

\* A scheduled post has a job that will still test its status, or a request
\* about to insert one: no cancellation, rescheduling, stale job or racing
\* request leaves it behind.  (No "db", "crash".)
ScheduledHasJob ==
    \A p \in Posts : status[p] = "scheduled" =>
        \/ \E j \in Jobs : job[j].post = p /\ job[j].state = "available"
        \/ \E r \in Runs : Busy(r, p) /\ run[r].pc \in {"enqueue", "load", "mark"}

\* A scheduled post is in the end published or attempted, cancelled, or
\* deleted.
ScheduledIsTaken ==
    \A p \in Posts : status[p] = "scheduled" ~> status[p] # "scheduled"

\* A post does not stay in publishing, from which no request can move it.
PublishingEnds ==
    \A p \in Posts : status[p] = "publishing" ~> status[p] \in {"published", "failed"}

(***************************************************************************)
(* The lifecycle that publishing implements.  Draft and scheduled are one  *)
(* phase to it, and the runs, jobs, results and the clock are hidden.      *)
(***************************************************************************)
Phase(s) ==
    CASE s = "none" -> "unwritten"
      [] s \in {"draft", "scheduled"} -> "open"
      [] s = "publishing" -> "pending"
      [] s = "deleted" -> "gone"
      [] OTHER -> s

Lifecycle == INSTANCE PostLifecycle WITH
                 phase <- [p \in Posts |-> Phase(status[p])],
                 sent <- delivered

\* Every step of the service is a step of the lifecycle or invisible to it:
\* posts go out only after publishing has begun, success is claimed only for
\* a post that is out, and no race, fault or crash leads back.
ImplementsLifecycle == Lifecycle!LifecycleSpec
=============================================================================
