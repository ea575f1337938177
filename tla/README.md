# Formal model of werd

werd is a self-hosted social-media tool: users write posts and publish them to
several platforms, now or at a scheduled time, and monitors watch Hacker News,
Reddit, Bluesky, RSS feeds and web pages and turn what they find into alerts.
This directory holds TLA+ specifications of the program's own logic, the TLC
configurations that check them, and proofs for TLAPS.

Paths below are relative to `src/go/api/internal/` unless they start with
`src/`.

## 1. The system

| Component | State | Operations | What is hard |
|---|---|---|---|
| Posts and publishing (`service/post.go`, `handler/platform.go`) | `published_posts`, `post_platform_results` | create, edit, delete, publish, schedule, unschedule, execute | requests and river workers race on a row that is read, then marked without a condition; several platforms, each may fail, or succeed unheard; retries; crashes |
| River worker (`worker/publish_post.go`, `cmd/werd-api/main.go`) | `river_job` (a library's) | fetch a due job, run, retry, rescue | at-least-once execution; jobs outlive the schedule that made them |
| Alerts (`service/alert.go`) | `alerts` | ingest (upsert by project, source, id), triage | redelivery; "new" is deduced from two timestamps |
| Notification (`service/notification.go`) | `notification_rules` | route an alert to ntfy, webhook, email | runs in a goroutine after the commit; lost by a crash |
| Keywords (`service/keyword.go`) | `keywords` | create, delete, match | snapshot at ingestion |
| Processing rules (`service/processing.go`) | `processing_rules` | filter, classify | defaults of mixed include and exclude rules |
| Source poller (`service/source_poller.go`) | `monitor_sources.watermark`, `last_poll_at` | a round over at most 20 sources | watermarks, skipped sources, partial failure, crash |
| Source monitors (`integration/*_monitor.go`) | none (the watermark is passed in) | poll one source | caps and failed fetches against an advancing watermark |
| Reply monitor (`service/reply_monitor.go`) | `last_known_reply_id`, `last_reply_check` | a round over at most 20 results | the order of replies against the checkpoint; results that can never be read |
| Monitor sources (`service/monitor_source.go`) | `monitor_sources`, `service_instances`, watches at changedetection.io | create, update, delete | two systems without a transaction; positions pair URLs with watches |
| Projects and members (`service/project.go`, `middleware/project.go`) | `projects`, `project_members` | create, delete, add, change role, remove | roles read once per request; check, then act |
| Authentication (`service/auth.go`) | `users` | login, change password, seed the administrator | the seed runs at every start |
| Platform connections (`service/platform.go`) | `platform_connections` | create, update, delete, create an account | an external account before its row |
| Standalone monitors (`src/go/monitor-hn`, `src/go/monitor-reddit`) | a watermark in memory | poll, send to the webhook | watermark before delivery, restarts |
| Browser service (`src/browser-service`) | none | publish and create accounts through a browser | captcha chains, mail polling, long calls |
| Dashboard, deployment, specification, migrations | none of interest | | |

Interactions: handlers call services; services issue single SQL statements
(each its own transaction, except the creation of a project) and call external
services between them. The post service inserts river jobs, and river workers
call it back. Pollers and monitors feed `Alert.Ingest` directly, the standalone
monitors through `POST /webhooks/ingest`, whose handler starts the routing of
notifications. The reply monitor reads the results the post service writes.

What makes each component correct:

* *Posts*: nothing is out that can still be edited, cancelled or deleted; a
  schedule is either honoured or cancelled; results are true; attempts do not
  duplicate posts; a post never stays between states.
* *Alerts and notification*: one row per item, triage survives redelivery, a new
  alert reaches every matching rule once.
* *Pollers*: an item that appears after a source is initialised becomes an
  alert unless a rule drops it; every source is polled.
* *Members*: a project keeps an owner; nobody acts beyond the role he has.
* *Web watches*: the watches at changedetection.io are those of the sources.

## 2. Plan

| | Modules | State |
|---|---|---|
| 1 | `PostPublishing`, `PostLifecycle`, `PostPublishingProofs` | modelled, checked, proved |
| 2 | `AlertIngest`, `AlertIngestProofs` | modelled, checked, proved |
| 3 | `SourcePolling`, `SourcePollingProofs` | modelled, checked, proved |
| 4 | `Membership`, `MembershipProofs` | modelled, checked, proved |
| 5 | `WebWatches`, `WebWatchesProofs` | modelled, checked, proved |
| 6 | `FeedMonitors`: every monitor, and the standalone ones; `FeedMonitorsProofs` | modelled, checked, proved |
| 7 | `ProcessingPipeline`, `ProcessingPipelineProofs` | modelled, checked, proved |
| 8 | `PlatformConnections`, `ReplyMonitoring` on top of it, `ReplyMonitoringProofs` | modelled, checked, proved but for liveness |

Every safety and action property of a passing run is stated by a theorem. Wanted next:
composition, that what `SourcePolling` ingests twice is an upsert that `AlertIngest`
treats as an update.

How the modules meet: `ReplyMonitoring` EXTENDS `PlatformConnections`, since a
check uses the connection that the requests change. `SourcePolling` has the
rounds of the poller with one kind of monitor, `FeedMonitors` all kinds of
monitors with a poll and its ingestion in one step, `ProcessingPipeline` what
happens between the two; `AlertIngest` is where `Ingest` of all of them ends (as
`PollerIngest`). What composing these would show is said on either side:
`SourcePolling` and `ReplyMonitoring` repeat items after a crash, and
`AlertIngest` checks that a repeated upsert changes nothing that matters.

## 3. Modules

### PostPublishing

One module for the row of a post, its results, the river jobs about it, and
the requests and workers that handle it. `status`, `platforms`, `scheduledAt`
are the columns of `published_posts`; `okRows` and `failRows` the platforms
named by successful and failed rows of `post_platform_results`; `job` is river's
table; `run[r]` the local state of request or worker `r`: the program counter,
the post and list it has read, the position in the list, the positions that
failed. `delivered` and `jobSent` record what the platforms have seen; the
program reads neither.

Each SQL statement and each adapter call is one action, so all interleavings
between them are explored:

| Code | Actions |
|---|---|
| `Create`, `Update`, `Unschedule` | one action each: one statement |
| `Delete` | `DeleteRead`, `DeleteRow` |
| `Schedule` | `ScheduleRow`, then `EnqueueJob` or `EnqueueFails` |
| `Publish` | `Publish` (read and test), `Mark`, the loop, `Conclude` |
| `ExecutePublish` | `Fetch` (river), `Load` (read and test), `Mark`, the loop, `Conclude` |
| the loop over platforms | `SendOk`, `SendFails` or `SendLost`; `RecordSuccess`; `RecordFailures` at the end |

`Publish` and `ExecutePublish` share the loop, as the two functions repeat the
same code; they differ in the status they accept, and in who learns the result:
a worker's goes to river, which gives a job whose attempt failed another
attempt until `MaxAttempts`.

Abstractions: texts, titles and URLs are left out; an adapter call has three
outcomes (done, failed, done but reported as failed); the three reasons for a
failure before the call (no connection, no adapter, error) are one. All failure
rows are written in one action which, when statements may fail, writes any
subset. The list is a sequence because the code accepts a list that names a
platform twice, and posts twice. The deletion of a project, with its posts, is
not an action here. A worker that acts on a context already cancelled is the
fault "db" at the following statements.

Faults are a parameter: `crash` (the process dies, all runs with it; river
rescues jobs that were running), `db` (any statement may fail, which the code
mostly ignores), `lost` (a platform posts and the adapter reports an error).

### PostLifecycle

The abstract specification: a post is unwritten, open, pending, published,
failed or gone; platforms see it only once it is pending; there is no way back
from there; success is claimed only for a post that is somewhere out.
`PostPublishing!ImplementsLifecycle` instantiates it with draft and scheduled
both as open, and everything about runs, jobs, rows and time hidden.

### MCPostPublishing

The platform lists of the instances, and the symmetry of requests, workers and
jobs (no property names one of them).

### PostPublishingProofs

The theorems, section 6.

### AlertIngest

The alerts of one project, its notification rules, and the webhook requests with
the goroutines that route new alerts. `row[k]` is the alert of item `k` (an item
stands for the key of the upsert: source type and source id), `rule[r]` a row
of `notification_rules`, `slot[h]` a request and then its goroutine: idle, about
to read the rules, or calling the destinations in `pending`. `calls`, `since`
and `loyal` are history: how often a rule was called for an item, which rules
matched at some time since the insertion, and which matched then and have not
been touched since.

| Code | Actions |
|---|---|
| `IngestWebhook`, `Alert.Ingest`, `UpsertAlert` | `Deliver`; `DeliverLost` when the statement is committed and the request fails |
| the same from `SourcePoller` and `ReplyMonitor` | `PollerIngest`: nobody looks at the flag that says the alert is new |
| `Alert.UpdateStatus` | `UpdateStatus` |
| `CreateRule`, `UpdateRule`, `DeleteRule` | one action each: one statement |
| `RouteAlert` | `ReadRules`, `Call` once per rule, `Routed` |

`Ingest` deduces that an alert is new from `created_at = updated_at`. Both are
`now()`, the instant at which a transaction began, so `taken` holds instants
that were used, in no order, and `StampsDiffer` says whether two transactions
may read the same one. Severities are the ranks of `severityRank`; title,
content and tags are one `version`; a destination is one that is called or one
that is not (email, and ntfy without its URL). The loop over the rules calls
them in any order, which covers that of the list. `Applies` and `Reaches` are
the conditions of the code; `Meant` is what its documentation says of a rule,
against which the properties measure.

### AlertIngestProofs, MCAlertIngest

The theorems, section 6; the types of the items and the symmetry of slots,
rules, versions and instants.

### SourcePolling

The source poller, with the rows of `monitor_sources` changing under it.
`source[s]` is a row, `rank` the order of `last_poll_at` (of `updated_at` for
those never polled), `due[s]` whether the poll interval has passed; `round` the
rows that the current round has read and not yet handled, `task` what it does
with the first. `feed[m]` and `last[m]` are the site that monitors of mode `m`
read, `alerts` what was ingested for which source, and `start` (history) the
watermark with which a source was initialised in a mode.

| Code | Actions |
|---|---|
| `MonitorSource.Create`, `Update`, `Delete` | `Create`, `Update` (the watermark stays), `Delete` |
| `ListAllEnabledMonitorSources` | `StartRound`: the first `Limit` enabled sources in order |
| the three `continue` before the poll | `Skip`: the row is left as it is |
| a poll that fails | `PollFails`: the old watermark and the time are written |
| `monitor.Poll` and the pipeline | `Poll` |
| the loop over the items | `Ingest`, one item at a time |
| the write of the watermark | `Finish` |

The monitor is that of new Hacker News stories (`hn_new_monitor.go`; that for
keywords repeats it): the watermark is the greatest number seen, and at most
`Cap` items are taken. A mode is a kind of monitor with its own watermark
field: a monitor that meets the watermark of another kind does not find its
field and starts from zero, which is how `json.Unmarshal` leaves it. Modes share
the algorithm here; what each kind of monitor does is in `FeedMonitors`.

Abstractions: clock times are an order and a flag; the intervals are long
(`Slow`) or shorter than a round; credentials and the registry of monitors are
the relation `Pollable`; the pipeline drops the items in `Unwanted`, or none
when the rules cannot be read, as the code falls through with all items. A
fetch that fails for one item is an item missing from the poll.

### SourcePollingProofs, MCSourcePolling

The theorems, section 6; which sources can be polled.

### Membership

Accounts, projects and members. `request[r]` is a request under way: the role its
caller had when the middleware let it in, and where it is: about to check or
about to write. A request that its first reads refuse is no step.

| Code | Actions |
|---|---|
| `Authenticate`, `RequireProjectMember`, the guards of the handlers | `CreateProject`, `UpdateProject`, `DeleteProject`, `AddMember`, `UpdateMemberRole`, `RemoveMember`, `ChangePassword`: each begins a request (`Begin`) |
| what a service reads before it writes | `Check`: `SlugFree`, `MayAdd`, `MayChange` or `MayRemove`; `Refuse` |
| the statement at its end | `Write`: `InsertProject`, `ChangeProject`, `RemoveProject`, `InsertMember`, `ChangeRole`, `DeleteRow`, `UpdateUserPassword` |
| `SeedAdmin` in `main` | `Start`, which also ends the requests of the process before |

`founder`, `abdicated`, `configured`, `changed` and `steady` are history.
`member` and `viewer` are told apart by no check here: `Plain` has one role.
`Mixes` says which operations occur together in a behaviour; accounts, slugs and
members of a project share no statement, so their interleavings are explored
separately.

### MembershipProofs, MCMembership

The theorems, section 6; the mixes that are checked and the symmetry of requests.

### WebWatches

Web sources, their rows in `service_instances`, and the watches of
changedetection.io. Each call and each statement is a step.

| Code | Actions |
|---|---|
| `MonitorSource.Create`, `provisionWebWatches` | `Create`, `MakeWatch` for each address, `CallsDone`, `Write`, `Track` |
| `MonitorSource.Update`, `reconcileWebWatches` | `Update`, `ReadOld`, `DropWatch`, `MakeWatch`, `CallsDone`, `Track`, `Write` |
| `MonitorSource.Delete`, `deprovisionWebWatches` | `Delete`, `DropWatch`, `CallsDone`, `Track`, `Write` |

Faults: a call fails, a statement fails (ignored but for the last), the process
dies, the project is deleted with its rows (`Project.Delete` in `service/project.go`, which
takes sources and instances along by `ON DELETE CASCADE`, `migrations/001_initial_schema.sql:85`
and `:102`, and leaves the watches). Whether a source is enabled is left out: it
changes nothing that is called or tracked. `torn` are the sources of which a
request was cut short or overlapped another, `flawed` those that also met a failed
call, a list that repeats an address, or a change to another type: the code makes
no promise there, and the properties say exactly how much is left.

A row keeps addresses and watches in two lists. `WatchOf` is the map that the code
builds from them by position, `At` the part of a list at some of its places (the
loops that append what passes a test), and `Dropped` and `Listed` say which places
those are. `Tangled` is a state of a row that no test met: a list that repeats an
address, of which the call for another one failed, pairs two addresses with one
watch; the update that removes one of them deletes the watch of both. A source
is torn from then on.

### WebWatchesProofs, MCWebWatches

The theorems, section 6; the lists of addresses, the constraint and the symmetry.

### FeedMonitors

What each monitor takes from the lists it watches and how its watermark moves: a
list shows items, numbered as they appear; `mark` is the watermark, which is in the
row of a source or, for the standalone pollers, in memory. One operator per
monitor (`RSS`, `Subreddit`, `HNThread`, ...) gives the items it returns and its
new watermark; `Poll` adds what the poller does at a first poll.

The monitors differ in what they remember (one item to look for, or the greatest
number), whether the watermark counts items that could not be fetched, whether it
counts items of another type, and in their pages and caps. Names and times are
ordered as items appear. `seen`, `at`, `start` and `loose` are history. A poll is
one step: a crash in it leaves the old watermark in the row, which
`SourcePolling` has, or loses the watermark of a standalone poller, which is
`Restart`. A list is `Blind` at the first poll of a Bluesky monitor when all that its page
shows is of a type that the monitor passes over: nothing is remembered then, and
older items of the wanted type behind the page look new when they come into
view. It counts as not available at the first poll.

### FeedMonitorsProofs, MCFeedMonitors

The theorems, section 6; the bounds of the instance.

### ProcessingPipeline

The rules, as users change them and as sources are deleted with theirs; the loop
of the poller that loads the rules of a source, filters, classifies item by item,
and ingests items with results paired by position. `AfterFilter` and
`AfterClassify` are the bodies of the two loops over rules. A loop is a recursive
function from the number of turns to the values after it (`Filtering`, `Classified`,
and `Chosen` and `WithTags` for the loops that append); the properties define what a
*set* of rules means and compare.

Patterns and keywords are the set of items they match (`hits`). Rules of equal
priority come in any order, since the query orders by priority alone. The LLM
answers anything in `Answers`: a relevant and an irrelevant answer and a failed call
in the run. A relevant answer is the reason of the classification only if it gives one.

### PlatformConnections, ReplyMonitoring

Connections have one row for a platform and a method. A request asks the
platform before it writes, so `CreateConnection`, `UpdateConnection` and
`CreateAccount` only begin a request, `ValidateCredentials` or `MakeAccount` is
the answer of the platform, and `InsertConnection`, `WriteConnection`,
`RemoveConnection` the statement. `CreateAccount` has a third outcome, an account
that exists though the answer came too late. A statement is done, is refused, fails
without a trace (`StatementFails`), or is committed though the request is told that it
failed (`Committed`); a client with the answer `failed` knows nothing. (The API does not
distinguish `refused` from `failed`: an update answers 404 to both,
`handler/platform.go:229`.) Credentials are named after the
client that brought them; each client makes one request, and of one that is over
the state keeps the answer and what a success was about (`Over`).

| Code | Actions |
|---|---|
| `SetPostMonitor` | `SetPostMonitor` |
| `ListMonitoredResults` | `Check`: never checked first, then longest ago, at most `Batch` |
| reader and connection of a result | `Take`, which keeps the method of the connection; a result without them is passed by |
| `GetReplies` | `Read`, with one operator for each of the three readers; `Readable` says when it is an error, and the result is passed by as well |
| the loop over the replies | `Ingest`, one reply at a time |
| `UpdateReplyCheckpoint` | the action of this name, whose failure nobody notices |

A read fails for a result of its own, not only while a platform is down: the
readers of Bluesky and Reddit log in with api credentials
(`integration/bluesky_reader.go:34`, `reddit_reader.go:36`), and a connection by browser
holds a user name and a password (the reader of Hacker News takes no
credentials); a post that its platform does not show any more (`RemovePost`)
is an error, except on Hacker News, where it has no replies (where a platform goes on to show the comments of a
deleted post, the post is not `gone`); and what the
browser service publishes on Bluesky is stored as `"browser-post"`
(`browser_service/platforms/bluesky.py:65`), which names no post (`Nameless`). Results that store
no identifier at all are never listed (`storage/post_platform_results.sql.go:68`),
so `Results` are those that have one. A platform that is `down` answers nobody, or
refuses the credentials it is given.

Bluesky and Reddit list the newest reply first (`NewestFirst`): the readers rely
on it (the comments in `integration/bluesky_reader.go:84`, `reddit_reader.go:102`);
Hacker News lists by rank, which is any order: a new reply appears at any place.
`Place` is where a list has the reply that was remembered. There are readers for these three
platforms only (`ReadersAssumption`), and the rows that are there at the start
belong to nobody who makes a request (`GivenAssumption`). Pages of more than 100 replies and
deleted replies are left out. `Lapse` is a fault (crash, failed statement, late
answer, statement committed unheard, outage, deleted post, failed fetch or ingestion), and a behaviour has at most
`MaxLapses` of them.

### The MC modules

`MCMembership`, `MCWebWatches`, `MCFeedMonitors`, `MCProcessingPipeline` and
`MCReplyMonitoring` hold the constants of the instances, the symmetries (only
where no liveness is checked) and two constraints, see the runs.

## 4. Runs

| Run | Instance | Shows |
|---|---|---|
| `post_race` | two requests, one worker, one job with two attempts, lists of one and two platforms, every fault | the safety properties below, and that `PostPublishing` implements `PostLifecycle` |
| `post_live` | a request, two workers, two jobs, a list that names a platform twice, two ticks, fair, no fault | `ScheduledHasJob`, `OutcomesRecorded`; a scheduled post is taken (`ScheduledIsTaken`), publishing ends (`PublishingEnds`) |

The properties of `post_race`:

* `NothingSentUncommitted`: whatever a platform shows belongs to a post that is
  publishing, published or failed. It takes the conditions in the `WHERE`
  clauses of all editing statements together to ensure it.
* `CommittedStays`: from the mark on, no request changes the target platforms or
  leads back. The rollback of `Schedule` is the interesting step: it runs after
  anything may have happened to the row.
* `JobSendsOnce`: the attempts of one job never post twice to one place. It
  holds because an attempt accepts only a scheduled post and because the mark
  precedes the first call; a job resumed in `publishing` would break it. Its
  price is that an attempt that fails or dies is never made good.
* `RowsAreTrue`, `PublishedWasSent`: what the results and the final status claim
  has happened.

Those of `post_live` hold only while statements succeed and the process lives: a
scheduled post has a job that will come for it, whatever was cancelled and
scheduled before; what is out has a row, or is about to have one; a post that
failed has a row that says why.

One post is enough for these: no statement or test relates two posts, and the
only thing they share is the pool of workers. Two platforms show partial
failure; two requests and a worker are the smallest number at which a race can
involve both kinds of run and a third party; two attempts show a retry after a
crash or an error. Two jobs, two workers and two ticks allow a stale job, a
second schedule and both jobs at work on the post.

| Run | Instance | Shows |
|---|---|---|
| `alert_once` | two items of two types, two requests, a poller, one rule, three instants, every fault | `NotifiedOnce`, `CalledAsMeant`, `TriageSurvives` |
| `alert_live` | one item, two rules, two requests, one severity, two instants, fair, no fault | `NoRuleForgotten`, `NewIsRouted` |

* `NotifiedOnce` relates all deliveries of an item, in any order and overlap, to
  the calls of one rule. It rests on the stamps alone, hence `StampsDiffer`.
* `CalledAsMeant` says that a rule which changes while an alert is on its way is
  called only if it matched at some time since the insertion.
* `NoRuleForgotten` and `NewIsRouted` are the converse for a rule that nobody
  touched: one failing destination does not keep the others from being called.
* `TriageSurvives` says that no delivery reopens or re-rates an alert.

Three instants allow an insertion, a redelivery and a triage, in all orders, of
either item; two versions and two severities make a redelivery differ. One rule
suffices for what happens between an item and a rule, two for what happens
between rules; a rule runs through all its settings.

| Run | Instance | Shows |
|---|---|---|
| `source_skip` | one source, two modes, crashes, failing polls and writes | `NothingSkipped`, `WatermarkAdvances` |
| `source_live` | two sources, one slow, one mode, a round that looks at one, fair | `NoFlood`, `EveryItemArrives` |

* `NothingSkipped`: a watermark has not passed an item that can still be seen and
  is neither an alert nor dropped, though the process may die between the
  ingestion and the write, the row may change mode or go, and the list may
  shrink. Items that cannot be fetched or ingested are passed over by design,
  so the run leaves those faults out, and the cap does not bind.
* `WatermarkAdvances`: the write has no condition, and failed polls write what
  the round had read; that this never goes back needs the order of the round.
* `NoFlood`: what is ingested appeared after the initialisation.
* `EveryItemArrives`: the order by last poll and the limit of a round starve
  nobody, as long as the sources in front can be polled.

Two items are needed to pass one over and see the next; two modes to change and
change back; two sources and a limit of one for competition. A round of one
source already meets every change of the row between the read and the write.
Sources do not share state but the round, so one suffices for watermarks.

| Run | Instance | Shows |
|---|---|---|
| `members` | three users, two projects and slugs, two requests, mixes of operations, restarts | `FounderOwns`, `ConfiguredPasswordHolds`, `OwnershipWithOwners`, `RowsAsRequested` |
| `members_owner` | the same with members only | a violation, see below |

* `OwnershipWithOwners` and `FounderOwns` say how far the reading of roles once
  per request goes: an admin takes the ownership only from who became an owner
  after the admin's request had begun; the founder of a project keeps it
  until an owner gives it away.
* `RowsAsRequested`: adding twice does not change a role, a role change under way
  does not bring back who was removed.
* `ConfiguredPasswordHolds`: what an earlier process had under way does not
  override the password that is set at the start.

Two requests are what a race takes; three users are an owner, an admin and a target;
two projects and two slugs let slugs collide and be exchanged.

| Run | Instance | Shows |
|---|---|---|
| `watches` | one source, two addresses in lists of at most three, three watches, two requests, every fault | `ListedExist`, `WatchesMatch` |

* `ListedExist`: whatever calls fail, a row lists no watch that is gone, unless two
  addresses came to share it.
* `WatchesMatch`: without a flaw there is exactly one watch for an address, at the
  position of the address, and row and instance tell the same.

Sources share nothing but changedetection.io, which keeps watches apart by
identifier. Three watches allow a list of two to be replaced in part and a list of
three to repeat an address. The constraint `MCNotTorn` stops a behaviour once the source is torn: it stays so,
and no property speaks of it.

| Run | Instance | Shows |
|---|---|---|
| `fetch` | each of twelve kinds, two lists of three items and one, caps of two, one item that cannot be fetched in a poll | `OnlyNew`, `NothingPassed`, `ReturnedOnce` |

Three items are one before the initialisation, one remembered and one new; caps of
two bind and are exceeded. What the properties excuse is named in them: a list that
lost the remembered item (`Lost`), one that was not available at the first
poll (`loose`), what exceeds the caps, and two monitors that return items again
at every poll, those of Reddit threads and of Bluesky users.

| Run | Instance | Shows |
|---|---|---|
| `rules` | up to three of eight rules, two items, three answers of the LLM, failing loads | `FiltersMean`, `ClassificationMeans` |

* `FiltersMean`: no exclude rule matches, and an include rule does if there is one.
* `ClassificationMeans`: an alert has the highest severity that was found for this
  very item (`HighestWins`), each tag found for it once (`TagsOnce`), and the LLM
  was asked only about items that the filters let pass and, for a gated rule, that
  a keyword rule in front of it matched (`LLMOnlyIfMatched`). That words which are
  no severity never win is what keeps the ingestion from refusing the alert.

The eight rules (`MCTemplates`) are include and exclude filters of both types and
one that cannot match, keyword rules that raise and that name no severity, LLM
rules with and without a gate, and a rule of another project. Three at a time
make every pair meet with a third between them, in both orders. `MCAsLoaded`
stops a behaviour when a rule that was loaded is changed during the batch: nothing
reads the table before the next one.

| Run | Instance | Shows |
|---|---|---|
| `replies` | four results on three platforms, one of which names no post, batches of two, two replies, two clients, one fault, fair | `ReportedIsStored`, `EveryReplyAlerted` |

* `EveryReplyAlerted` is what the monitor is for. It speaks of a result that is still
  shown and that a check can get through with from some time on (`Servable`: the connection
  that would be used is of a method its reader accepts), while fewer results than a
  batch are in the way (`~Clogged`). It holds because a result that
  was read goes to the end of the line even when there was nothing new, because
  what is remembered was ingested, and because each reader returns at least what
  came after it; it is checked against the order of replies, crashes, outages,
  failed writes, posts that are deleted, connections that come and go or change their
  method, results that can never be read, and a limit on the results of a check.
  `~Clogged` is needed: without it the property is violated, by the result that names
  no post and one of Reddit with a connection by browser only.
* `ReportedIsStored` relates the answer of a client to the rows that are left after
  all other requests: what was stored, what was deleted for good, and what was refused.

The three readers each have a result. Bluesky is connected by api, Hacker News by
browser, which serves it all the same, and requests connect Reddit by either method, so its
result can be read, cannot for ever, or changes. A second result on Bluesky names no
post and is monitored from the start: it is in front of every check,
and a batch of two leaves one place for the others to compete for, or none when
another cannot be read either. Two replies make an order; two requests are a race; one
fault at a time is what the code handles.

One run expects a violation. "cannot demote or remove the project owner"
(`service/project.go:23`) is not what the code does: in `members_owner` an admin
asks to remove a member, the role is read, an owner makes the member an owner, and
the row is deleted.

Other limits of the code were met while modelling and have no run of their own;
each is a behaviour of the models:

* "Only the failed platforms will be retried" (`src/web/src/lib/help-content.tsx:385`):
  publishing a failed post goes to every platform again (`Publish`, `SendOk`);
* the job "will detect the status change and skip publishing"
  (`src/spec/openapi.yaml:965` of the repository): a cancellation between the worker's
  read and its mark is overridden (`Load`, `Unschedule`, `Mark`);
* "will publish it at the specified time" (the same, line 925): the job of a
  cancelled schedule publishes a post before the time of the new one (`Load`);
* a rule "will fire for every alert" (`help-content.tsx:115`): what the source
  poller ingests is never routed (`PollerIngest`);
* "prevents startup flood" (`service/source_poller.go:131`): a source changed to
  another mode keeps its watermark, and its first poll ingests the whole list
  (`Update`, `Poll` of `SourcePolling`); so does one whose list was not available at
  the first poll (`FeedMonitors`);
* "item must match at least one include rule" (`service/processing.go:101`): where
  all rules exclude, items that match none of them pass, which is what users of
  exclude rules want (`ItemPasses`);
* "Returns replies newer than sinceID" (`integration/reader.go:22`): the reader of
  Reddit returns all but that one (`RedditReader`);
* owners may demote each other and themselves until none is left (`ChangeRole`);
* "Build URL→watchID map from old config." (`service/monitor_source.go:225`): after a
  failed call the row has an address more than it has watches, and the map gives the
  address the watch of the next one, so that the address never gets a watch of its own
  (`MakeWatch`, `WatchOf`);
* the deletion of a project leaves its watches at changedetection.io behind
  (`DeleteProject`);
* a Bluesky monitor whose first page holds nothing of the wanted type remembers
  nothing, and returns items from before its start later (`Blind`);
* `Batch` monitored results (twenty in the program) that cannot be read keep all others
  out of a check, since nothing is written of a failed read: results of
  Bluesky and Reddit with a connection by browser only, posts that these do not show any more and those stored
  as `"browser-post"` do so for ever, and their own replies are never alerted (`Take`, `Read`);
* an update of a connection whose statement failed, though it may have been committed,
  is answered as one of a connection that does not exist (`Committed`);
* the creation of a web source that is asked to be disabled enables it when its
  watches are made (`service/monitor_source.go:202`); the model has no such flag;
* two publish requests for one draft both pass the test of the status and both
  publish it, since the mark has no condition (`Publish`, `Mark`);
* an edit between the read of a post and its mark is accepted, and the platforms
  it adds are never reached, though the post ends as published (`Update`, `Mark`);
* a crash between `ScheduleRow` and `EnqueueJob` leaves a post scheduled with
  nothing that will publish it;
* an update of an alert whose transaction began at the very instant of the
  insertion looks new; `StampsDiffer` in the runs says that there is none;
* `Skip` does not touch `last_poll_at`, so sources that cannot be polled stay in
  front, and `Limit` of them (twenty in the program) keep all others out of the
  round: for ever if they have no monitor or credentials, until their interval
  has passed otherwise. `source_live` has only sources of the second kind (every
  pair is in `Pollable` there); the proofs leave `Pollable` open.

## 5. Fairness

`post_live` assumes weak fairness of the clock, of a free
worker taking a due job, and of every started run's next step: goroutines are
scheduled, database and adapter calls return or time out. Nothing is assumed
of clients, so a post need not be published or cancelled by hand. `Crash` is
not fair, and `post_live` excludes crashes and failing statements: with them a
post can stay in `publishing` or in `scheduled`, and the code has no step that would
repair it.

`alert_live` assumes weak fairness of each goroutine that
routes: it is scheduled, the database answers, and a destination answers or
runs into the ten seconds of its HTTP client. Deliveries are not fair.

`source_live` assumes weak fairness of the ticker
(`StartRound`), of the poller's next step, whose calls time out, and of the
passing of each poll interval. Users and sites are not fair, and faults are
left out, since a poll that always fails delivers nothing.

`replies` assumes weak fairness of the monitor's next step (`MonitorStep`): the
ticker goes on, also after a crash, since the process is started again, and every
call has a timeout. Nothing is assumed of clients, platforms or faults; a
platform that stays down, unconnected, or connected by a method that its reader does not
accept is excused by the property, and so is a post that is deleted.

## 6. Proofs

`PostPublishingProofs` proves for any sets of posts, platforms, lists, requests,
workers and jobs and under any faults:

| Theorem | Property |
|---|---|
| `TypeCorrect` | `TypeOK` |
| `SentIsCommitted` | `NothingSentUncommitted` |
| `CommittedForGood` | `CommittedStays` |
| `JobsSendOnce` | `JobSendsOnce` |
| `RowsNeverLie` | `RowsAreTrue` |
| `PublishedIsOut` | `PublishedWasSent` |
| `LifecycleImplemented` | `ImplementsLifecycle`: the refinement of `PostLifecycle` |

Two theorems assume what the property needs and no more, that some faults are absent:

| Theorem | Property | Assumes |
|---|---|---|
| `OutcomesAreRecorded` | `OutcomesRecorded` | no failing statements, no crashes, no lost answers |
| `ScheduledHasAJob` | `ScheduledHasJob` | no failing statements, no crashes |

The assumptions are those of the module: lists are non-empty sequences of
platforms (the handlers refuse an empty list), requests and workers are
different, `None` is neither a post nor a job.

The inductive invariant has four layers. `ShapeInv` says which local states of a
run are possible at each of its steps, that the jobs of running workers are
running and theirs alone, and that rows target submitted lists. It alone makes
types inductive (the index stays within the list because the list is not
empty). `CommitInv` adds that a run that is publishing has a committed post, and
that a job that has sent anything belongs to one: that is why a later attempt,
which requires `scheduled`, finds nothing to do. `JobInv` then bounds what a
job has sent by the position of its worker. `ClaimInv` says that every position
a run has passed and not counted as failed is out, so that the claim `Conclude`
makes is true. Each layer is proved by lemmas about single steps (`WorldStep`,
`RunStep`, `JobStep`, `Steps`), one case per action.

For the refinement, every change of a status is one of the moves that the actions make
(`StatusMove`), each move is a step of the lifecycle because of `ClaimInv`
(success is claimed for what is out) and of the guards, and what a platform sees belongs
to a committed post (`CommitInv`). The two conditional theorems add what a run still
has to write: what is out and unrecorded is at the position of a run that is about to
record it; a failed post has a failure row, since `ReasonInv` has it before the
conclusion; and a scheduled post without a waiting job has a request on its way to
`EnqueueJob`, or a worker that fetched the job and has not marked the row.

`AlertIngestProofs` proves for any sets of items, rules, requests, versions and
instants:

| Theorem | Property | Assumes |
|---|---|---|
| `AlertTypes` | `TypeOK` | |
| `CallsAreMeant` | `CalledAsMeant` | |
| `TriageIsKept` | `TriageSurvives` | |
| `RulesAreCalledOnce` | `NotifiedOnce` | `StampsDiffer` |
| `NoRuleIsForgotten` | `NoRuleForgotten` | no faults |

`AlertInv` says that a busy slot routes a known alert with the severity of its
row, that the rules it is still to call have matched since the insertion, and
that the stamps of known alerts are taken; that is what makes an upsert with a
fresh stamp an update that does not look new. `OnceInv` adds that at most one
slot routes an item, and that a rule it has still to call has not been called.
`ServedInv` adds that a rule untouched since the insertion still matches, which
is why the list that the goroutine reads later contains it.

`SourcePollingProofs` proves for any finite set of sources, any modes, limit and
cap, and feeds of any length:

| Theorem | Property | Assumes |
|---|---|---|
| `SourceTypes` | `TypeOK` | |
| `WatermarksNeverGoBack` | `WatermarkAdvances` | |
| `NothingIsSkipped` | `NothingSkipped` | items can be fetched and ingested, and no poll but a first one finds more than `Cap` (`[]PollsFit`) |
| `NoFloodInOneMode` | `NoFlood` | no source is changed to another mode (`[][ModeStays]_vars`) |

The heart of `PollInv` is `RoundInv`: the rows of a round are those of different
sources, and what the round read of their watermarks is still true, because
users never write them and the poller writes only that of the row it leaves. So
the old watermark that a failed poll writes back is not old, and the new one is
no less than it (`TaskInv`). `SkipInv` adds what the watermark that is about to
be written will pass: items that arrived, that are dropped, or that are still in
the task. `FloodInv` adds that a source without a watermark has no alerts, and
that a watermark has not fallen behind where the source was initialised. Both
extra assumptions are exactly where the code loses or floods: with a second mode in
`source_live`, `NoFlood` is violated by a change of mode.

`MembershipProofs` proves for any sets of users, projects, slugs, passwords, plain
roles and requests, and any mixes of operations:

| Theorem | Property |
|---|---|
| `MemberTypes` | `TypeOK` |
| `FounderKeepsProject` | `FounderOwns` |
| `OwnersAmongThemselves` | `OwnershipWithOwners` |
| `RowsOnRequest` | `RowsAsRequested` |
| `PasswordHolds` | `ConfiguredPasswordHolds` |

It assumes that there is a password and a slug, and that `None` is none of the
values. What a check has read may be stale when the statement after it runs, so
`MemberInv` says what cannot have become untrue since: no request that has
passed its check removes a founder who still owns the project, and only one of
an owner changes the role (`FounderInv`); the same holds of anybody who has
owned the project all through the request (`SteadyInv`); and who is about to
make an owner was an owner (`MakerInv`). A check establishes this, since it reads the role
of the target; no write undoes it, since an identifier of a project is used once
(`PlaceInv`) and an INSERT leaves a row that is there alone. `AfterWrite` has what is
common to the writes, and each of them a lemma that supplies the rest. Without
the words "still" and "all through" it is not true: see `members_owner`.

`FeedMonitorsProofs` proves for any kinds of monitor, numbers of lists and items,
caps and faults:

| Theorem | Property |
|---|---|
| `FeedTypes` | `TypeOK` |
| `NoOldItems` | `OnlyNew` |
| `NothingTwice` | `ReturnedOnce` |
| `NothingIsPassed` | `NothingPassed` |

Twelve algorithms share one argument. `Sound` says what any of them must return:
items above the watermark unless the list lost the remembered one (`SoundItem`), and a
watermark that covers the list, or says why not (`SoundMark`, `SameMark`). Each
monitor has a lemma that its result is sound; everything after that knows only
`Sound`. `FeedInv` relates the watermark to the lists: it is not ahead of what was
shown when the list was last available (`MarksBehind`), what was returned is not above it
(`ReturnedBehind`), nor is what was there at the first poll (`StartBehind`). `NothingPassed`
is a fact about one step, which needs that a cap drops nothing as long as what is
new fits (`Room`). The case `Blind` was found by this proof: without it, `OnlyNew`
is false for the Bluesky monitors.

`ReplyMonitoringProofs` proves for any clients, connections, results and batches,
and any number of faults:

| Theorem | Property |
|---|---|
| `Connections` | `ConnInv`, the inductive invariant of `PlatformConnections` |
| `ReportsAreTrue` | `ReportedIsStored` |
| `TypeCorrect` | `TypeOK` |

A client brings credentials of its own, so `StoredInv` follows what a row holds
back to the answer its client got, and a success that is in no row any more to the
request that replaced it; a row that was deleted is never kept again, since a statement
changes only rows that are kept and an insertion has an identifier of its own. For the types, `MonitorInv` adds that a check reads only
platforms it has a reader for and ingests only while there are replies; a
result that is checked goes to the end of a line without repetitions, since
`Place` finds the one it was at.

`WebWatchesProofs` proves for any sources, requests, addresses and lists of them,
under any faults:

| Theorem | Property |
|---|---|
| `WatchTypes` | `TypeOK` |
| `ListedWatchesExist` | `ListedExist` |
| `WatchesAreMatched` | `WatchesMatch` |

The first part is about lists: `At` is a list again, has what its places had
(`AtPlaces`), and all of the list if all places are taken (`AtAll`), hence
`DroppedRange` and `ListedRange`. `WatchInv` then has four parts: types; what a request holds at
each stage (`Shapes`); that nobody handles the watch of another source, so requests
for two sources never meet at changedetection.io (`Owned`); and, for each source, what
its only request finds (`Sound`). `Sound` has two halves: `Lists` for a source that is
not torn (the watches that will be listed exist and are not about to be dropped), and
`Matches` for one without a flaw, with a predicate for each kind of request:
`Creating` (the watches of the first addresses are made), `Calling` (every watch is
known, to be kept or dropped), `Listing` (one for each address), `Deleting`. Each
action has three lemmas, one for each of the last three parts. `ListedExist` was
false before this proof: it had no word of rows whose addresses share a watch
(`Tangled`), which lists of two addresses do not reach.

A module that extends `Bags`, as `SequencesExt` and `TLC` do, leaves tlapm unable to
finish steps that mention `Len` or `Range`. So `WebWatches` takes its few helpers from
`FiniteSetsExt`, and has `At` where others would have `SelectSeq`, which is defined
by recursion, and `ProcessingPipeline` has `Chosen`.

`ProcessingPipelineProofs` proves for any sources, rules, items and answers, lists of
rules and batches of any length, in any order:

| Theorem | Property |
|---|---|
| `RuleTypesHold` | `TypeOK` |
| `FiltersKeepTheirMeaning` | `FiltersMean` |
| `ClassificationKeepsItsMeaning` | `ClassificationMeans` |

It assumes that rules, batches and answers have the shapes of their declarations, and that
a batch lists an item once. The first part is about loops: a number that is not in order
has a first one (`First`), so what each turn keeps holds after every turn (`Holds`), and a
recursive function has the values that its equations say (`Loop`). The
induction theorems of the library take an operator as a parameter, which the provers
cannot instantiate; a family of sets, one for each turn, serves instead.
Then each loop has two lemmas, one for its equations and one for
what it means: `ChosenMembers`, `TagsMembers`, `FilteringMeans` (what the first `n` rules
say, though an exclusion ends the loop), and `ClassifiedMeans` (after `n` rules the result
is the highest and the union of what they found, and it is `matched` exactly when one
of the keyword rules matched, which is what a gated rule asks for). `Inv` carries this
through the batch: a result is what was found for the item at its place (`ResultsMean`),
what the LLM said was asked about an item that has a result (`AskedRightly`), so that
classifying the next item changes no earlier finding, and an alert is paired with
the result of its own item or, when the rules could not be loaded, with the
result of no finding (`AlertsMean`, `Stages`). The severity of a result is always one of the four:
the type that the first version of the model gave it, any word, was weaker than the
argument needs.

Only model-checked: liveness (`ScheduledIsTaken`, `PublishingEnds`, `NewIsRouted`,
`EveryItemArrives`, `EveryReplyAlerted`), which is out of the prover's reach.

## 7. Not modelled

* Clients of external services (publishing adapters, the requests and the parsing of
  the LLM client, the browser service): one call that succeeds, fails, or succeeds
  unheard, which is how the other modules have them. The browser service keeps
  nothing between calls.
* Keywords: single statements; the matches are part of what a delivery says.
* Login and tokens: they change no state.
* The filters of keywords in the standalone monitors, texts, titles, hashes of
  identifiers, patterns.
* The dashboard, generated storage code but for its queries, configuration,
  deployment and documentation, which have no state or control of their own that
  a model would check.
