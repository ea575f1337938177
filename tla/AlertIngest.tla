----------------------------- MODULE AlertIngest -----------------------------
(***************************************************************************)
(* Ingestion of alerts by the werd API, their triage, and the routing of   *)
(* new alerts to the notification rules of the project.                    *)
(*                                                                         *)
(* Ingest is one upsert by (project, source type, source id): an item that *)
(* is delivered again updates its row.  The webhook handler starts a       *)
(* goroutine that routes the alert if the upsert looks like an insertion;  *)
(* the source poller and the reply monitor do not look.                    *)
(***************************************************************************)
EXTENDS Naturals

CONSTANTS
    Items,         \* items of one project, by source type and source id
    Types,         \* source types
    TypeOf,        \* TypeOf[k]: the source type of item k
    TopRank,       \* severities are the ranks 0..TopRank (low..critical)
    Versions,      \* what else a delivery says: title, content, tags
    Statuses,      \* triage statuses
    Rules,         \* identifiers of notification rules
    Slots,         \* webhook requests, each with the goroutine it may start
    Instants,      \* readings of the database clock: bounds the writes
    StampsDiffer,  \* do two transactions never read the same instant?
    Faults,        \* the faults of an instance, among AllFaults
    None           \* no item, no instant, no version

\* "crash": the process dies; "db": a statement fails; "lost": an upsert is
\* committed and the request sees an error (its context was cancelled, say).
AllFaults == {"crash", "db", "lost"}

Severities == 0..TopRank

ASSUME TypesAssumption == TypeOf \in [Items -> Types] /\ "all" \notin Types
ASSUME StatusAssumption == "new" \in Statuses
ASSUME StampsAssumption == StampsDiffer \in BOOLEAN /\ TopRank \in Nat
ASSUME FaultsAssumption == Faults \subseteq AllFaults

VARIABLES
    row,     \* row[k]: the alert of item k, or NoRow
    rule,    \* rule[r]: a row of notification_rules, or none yet or no more
    slot,    \* slot[h]: where the request or its goroutine is
    taken,   \* the instants at which a transaction that wrote has started
    calls,   \* calls[k][r]: how often rule r has been called for item k
    since,   \* since[k]: rules that matched at some time since k's insertion
    loyal    \* loyal[k]: rules that matched at k's insertion, unchanged since

vars == <<row, rule, slot, taken, calls, since, loyal>>
seen == <<calls, since, loyal>>

NoRow == [via |-> "none", severity |-> 0, status |-> "new", version |-> None,
          created |-> None, updated |-> None]

RowState == [via : {"none", "webhook", "poller"}, severity : Severities,
             status : Statuses, version : Versions \cup {None},
             created : Instants \cup {None}, updated : Instants \cup {None}]

\* A destination is "http" (a webhook, or ntfy when WERD_NTFY_URL is set) or
\* "none" (email, which is not implemented, or ntfy when it is not set).
RuleRows == [life : {"kept"}, type : Types \cup {"all"}, min : Severities,
             destination : {"http", "none"}, enabled : BOOLEAN]

NoRule(life) == [life |-> life, type |-> "all", min |-> 0,
                 destination |-> "none", enabled |-> FALSE]

RuleState == RuleRows \cup {NoRule("unused"), NoRule("deleted")}

IdleSlot == [pc |-> "idle", item |-> None, severity |-> 0, pending |-> {}]

SlotState == [pc : {"idle", "rules", "calls"}, item : Items \cup {None},
              severity : Severities, pending : SUBSET Rules]

TypeOK ==
    /\ row \in [Items -> RowState]
    /\ rule \in [Rules -> RuleState]
    /\ slot \in [Slots -> SlotState]
    /\ taken \subseteq Instants
    /\ calls \in [Items -> [Rules -> Nat]]
    /\ since \in [Items -> SUBSET Rules]
    /\ loyal \in [Items -> SUBSET Rules]

Init ==
    /\ row = [k \in Items |-> NoRow]
    /\ rule = [r \in Rules |-> NoRule("unused")]
    /\ slot = [h \in Slots |-> IdleSlot]
    /\ taken = {}
    /\ calls = [k \in Items |-> [r \in Rules |-> 0]]
    /\ since = [k \in Items |-> {}]
    /\ loyal = [k \in Items |-> {}]

Known(k) == row[k].via # "none"

-----------------------------------------------------------------------------
(***************************************************************************)
(* Rules.                                                                  *)
(***************************************************************************)

\* Variant: the enabled flag is not looked at.
Applies_EvenDisabled(c, type, severity) ==
    c.life = "kept" /\ c.type \in {"all", type} /\ severity >= c.min

\* The conditions of RouteAlert: an enabled rule whose source type and
\* minimum severity fit.
Applies(c, type, severity) ==
    /\ c.life = "kept"
    /\ c.enabled
    /\ c.type \in {"all", type}
    /\ severity >= c.min

\* Destinations that RouteAlert calls.
Reaches(c) == c.destination = "http"

\* The rules among conf that an alert of item k with this severity calls.
Matching(conf, k, severity) ==
    {r \in Rules : Applies(conf[r], TypeOf[k], severity) /\ Reaches(conf[r])}

\* The same, as the documentation of rules describes it: what the history
\* variables record.
Meant(c, k, severity) ==
    /\ c.life = "kept" /\ c.enabled /\ c.destination = "http"
    /\ c.type = "all" \/ c.type = TypeOf[k]
    /\ c.min <= severity

\* The table changes by one statement; the history variables follow.
SetRule(r, c) ==
    /\ rule' = [rule EXCEPT ![r] = c]
    /\ since' = [k \in Items |->
                   IF Known(k) /\ Meant(c, k, row[k].severity)
                   THEN since[k] \cup {r} ELSE since[k]]
    /\ loyal' = [k \in Items |-> loyal[k] \ {r}]
    /\ UNCHANGED <<row, slot, taken, calls>>

\* CreateRule, under an identifier that was never used.
CreateRule(r, c) == rule[r].life = "unused" /\ SetRule(r, c)

\* UpdateRule: every field of the row is written.
UpdateRule(r, c) == rule[r].life = "kept" /\ SetRule(r, c)

\* Variant: the row is marked and its fields stay.
DeleteRule_KeepsFields(r) ==
    rule[r].life = "kept" /\ SetRule(r, [rule[r] EXCEPT !.life = "deleted"])

DeleteRule(r) == rule[r].life = "kept" /\ SetRule(r, NoRule("deleted"))

-----------------------------------------------------------------------------
(***************************************************************************)
(* Ingest.                                                                 *)
(***************************************************************************)

\* now() of a transaction is the instant at which it started, so later writes
\* may carry earlier instants.
Stamps == IF StampsDiffer THEN Instants \ taken ELSE Instants

\* Variant of the conflict clause: a delivery reopens the alert.
Upserted_Reopens(k, via, severity, version, t) ==
    IF Known(k)
    THEN [row[k] EXCEPT !.version = version, !.updated = t, !.status = "new"]
    ELSE [via |-> via, severity |-> severity, status |-> "new",
          version |-> version, created |-> t, updated |-> t]

\* UpsertAlert: an insertion, or an update of all but severity and status.
Upserted(k, via, severity, version, t) ==
    IF Known(k)
    THEN [row[k] EXCEPT !.version = version, !.updated = t]
    ELSE [via |-> via, severity |-> severity, status |-> "new",
          version |-> version, created |-> t, updated |-> t]

\* Variant: every delivery counts as new.
IsNew_Always(alert) == TRUE

\* How Ingest tells an insertion from an update.
IsNew(alert) == alert.created = alert.updated

Upsert(k, via, severity, version, t) ==
    /\ row' = [row EXCEPT ![k] = Upserted(k, via, severity, version, t)]
    /\ taken' = taken \cup {t}
    /\ IF Known(k)
         THEN UNCHANGED <<since, loyal>>
         ELSE LET meant == {r \in Rules : Meant(rule[r], k, severity)} IN
              /\ since' = [since EXCEPT ![k] = meant]
              /\ loyal' = [loyal EXCEPT ![k] = meant]
    /\ UNCHANGED <<rule, calls>>

\* IngestWebhook: upsert, and start to route if the alert is new.
Deliver(h, k, severity, version) ==
    /\ slot[h].pc = "idle"
    /\ \E t \in Stamps : Upsert(k, "webhook", severity, version, t)
    /\ slot' = IF IsNew(row'[k])
               THEN [slot EXCEPT ![h] = [pc |-> "rules", item |-> k,
                                         severity |-> row'[k].severity,
                                         pending |-> {}]]
               ELSE slot

\* The upsert is committed, and the request fails.
DeliverLost(k, severity, version) ==
    /\ "lost" \in Faults
    /\ \E t \in Stamps : Upsert(k, "webhook", severity, version, t)
    /\ UNCHANGED slot

\* The source poller or the reply monitor ingests the item.
PollerIngest(k, severity, version) ==
    /\ \E t \in Stamps : Upsert(k, "poller", severity, version, t)
    /\ UNCHANGED slot

\* UpdateStatus: a user triages the alert, to any status.
UpdateStatus(k, status) ==
    /\ Known(k)
    /\ \E t \in Stamps :
          /\ row' = [row EXCEPT ![k].status = status, ![k].updated = t]
          /\ taken' = taken \cup {t}
    /\ UNCHANGED <<rule, slot, seen>>

-----------------------------------------------------------------------------
(***************************************************************************)
(* RouteAlert, in its goroutine.                                           *)
(***************************************************************************)

\* Reads the rules, or logs the error and gives up.
ReadRules(h) ==
    /\ slot[h].pc = "rules"
    /\ \/ slot' = [slot EXCEPT
                     ![h].pc = "calls",
                     ![h].pending = Matching(rule, slot[h].item, slot[h].severity)]
       \/ "db" \in Faults /\ slot' = [slot EXCEPT ![h] = IdleSlot]
    /\ UNCHANGED <<row, rule, taken, seen>>

\* Variant: an error of a destination ends the loop.
AfterCall_StopsAtError(h, r, ok) == IF ok THEN slot[h].pending \ {r} ELSE {}

\* What is left to call; the error of a destination is only logged.
AfterCall(h, r, ok) == slot[h].pending \ {r}

\* Calls the destination of a rule, which answers or not.  The loop follows the
\* order of the list; here any order is possible.
Call(h) ==
    /\ slot[h].pc = "calls"
    /\ \E r \in slot[h].pending, ok \in BOOLEAN :
          /\ calls' = [calls EXCEPT ![slot[h].item][r] = @ + 1]
          /\ slot' = [slot EXCEPT ![h].pending = AfterCall(h, r, ok)]
    /\ UNCHANGED <<row, rule, taken, since, loyal>>

Routed(h) ==
    /\ slot[h].pc = "calls"
    /\ slot[h].pending = {}
    /\ slot' = [slot EXCEPT ![h] = IdleSlot]
    /\ UNCHANGED <<row, rule, taken, seen>>

Crash ==
    /\ "crash" \in Faults
    /\ slot' = [h \in Slots |-> IdleSlot]
    /\ UNCHANGED <<row, rule, taken, seen>>

-----------------------------------------------------------------------------

Delivery(k, severity, version) ==
    \/ \E h \in Slots : Deliver(h, k, severity, version)
    \/ DeliverLost(k, severity, version)
    \/ PollerIngest(k, severity, version)

Route(h) == ReadRules(h) \/ Call(h) \/ Routed(h)

Next ==
    \/ \E k \in Items, s \in Severities, v \in Versions : Delivery(k, s, v)
    \/ \E k \in Items, status \in Statuses : UpdateStatus(k, status)
    \/ \E r \in Rules, c \in RuleRows : CreateRule(r, c) \/ UpdateRule(r, c)
    \/ \E r \in Rules : DeleteRule(r)
    \/ \E h \in Slots : Route(h)
    \/ Crash

Spec == Init /\ [][Next]_vars

\* A goroutine is scheduled, the database answers, and a destination answers
\* or runs into the 10 s of the HTTP client.
Fairness == \A h \in Slots : WF_vars(Route(h))

FairSpec == Spec /\ Fairness

-----------------------------------------------------------------------------
(***************************************************************************)
(* Properties that hold under every fault.                                 *)
(***************************************************************************)

\* However often and from wherever an item is delivered, one at a time or
\* several at once, no rule is called for it twice.  (StampsDiffer.)
NotifiedOnce == \A k \in Items, r \in Rules : calls[k][r] <= 1

\* A rule is called only for an alert that it matched, as it then was, at
\* some time since the alert was inserted.
CalledAsMeant == \A k \in Items, r \in Rules : calls[k][r] > 0 => r \in since[k]

\* Triage survives redelivery: once an alert is known, nothing but a user's
\* UpdateStatus changes its status, and nothing its severity or creation.
TriageSurvives ==
    [][\A k \in Items : Known(k) =>
          /\ row'[k].severity = row[k].severity
          /\ row'[k].created = row[k].created
          /\ row'[k].status # row[k].status => UpdateStatus(k, row'[k].status)]_vars

(***************************************************************************)
(* Properties that need the faults to be absent.                           *)
(***************************************************************************)

Routing(h, k, r) ==
    /\ slot[h].item = k
    /\ slot[h].pc = "rules" \/ r \in slot[h].pending

\* A rule that matched an alert when the webhook inserted it, and has not been
\* touched since, has been called or is about to be.
NoRuleForgotten ==
    \A k \in Items : row[k].via = "webhook" =>
        \A r \in loyal[k] : calls[k][r] > 0 \/ \E h \in Slots : Routing(h, k, r)

\* It is called in the end, whatever other destinations do.
NewIsRouted ==
    \A k \in Items, r \in Rules :
        row[k].via = "webhook" /\ r \in loyal[k]
            ~> calls[k][r] > 0 \/ r \notin loyal[k]
=============================================================================
