------------------------- MODULE ProcessingPipeline -------------------------
(***************************************************************************)
(* The processing rules of the werd API: users change the rules of their   *)
(* projects and sources; the source poller loads those that apply to a     *)
(* source, filters a batch of items with them, classifies what is left,    *)
(* partly by calls to an LLM, and hands it to the ingestion of alerts.     *)
(*                                                                         *)
(* What a pattern or a list of keywords matches is a set of items.         *)
(***************************************************************************)
EXTENDS Naturals, Sequences, FiniteSets, Functions

CONSTANTS
    Sources,    \* monitor sources
    ProjectOf,  \* ProjectOf[s]: the project of source s
    Rules,      \* identifiers of processing rules
    Templates,  \* the rules that users write
    Items,      \* the items that polls return
    Batches,    \* lists of items that a poll may return
    Answers,    \* what the LLM may answer
    HasLLM,     \* an LLM is configured
    Faults,     \* {} or {"load"}: the rules cannot be loaded
    None        \* no rule, no source, no reason, no answer

Severities == {"low", "medium", "high", "critical"}

\* A rule as it is written: hits are the items that its keywords or its pattern
\* match, gated says that the LLM is for items that matched a keyword rule.  (One
\* with a malformed configuration, or an LLM rule without a prompt, does nothing.)
RuleState == [project : STRING, source : Sources \cup {None},
              phase : {"filter", "classify"}, type : {"keyword", "regex", "llm"},
              priority : Nat, enabled : BOOLEAN, action : STRING, hits : SUBSET Items,
              severity : STRING, tags : Seq(STRING), gated : BOOLEAN]

\* None is a call that failed; reasoned, whether the answer gives a reason.
AnswerState ==
    [relevant : BOOLEAN, severity : STRING, tags : Seq(STRING), reasoned : BOOLEAN]

ASSUME TemplatesAssumption == \A t \in Templates : t \in RuleState
ASSUME BatchesAssumption == \A b \in Batches : b \in Seq(Items) /\ IsInjective(b)
ASSUME AnswersAssumption == \A a \in Answers : a = None \/ a \in AnswerState
ASSUME LimitsAssumption == HasLLM \in BOOLEAN /\ Faults \subseteq {"load"}

VARIABLES
    rule,     \* rule[r]: the row of processing_rules, None when there is none
    sources,  \* the sources that exist
    pc,       \* where the processing of the current batch is
    source,   \* the source it is from
    batch,    \* the items of the current batch
    loaded,   \* the rules that were loaded for it, in their order
    passed,   \* the items that passed the filters
    results,  \* what is known of them, for as many as have been classified
    said,     \* the answers of the LLM, by item and rule
    alerts    \* what was handed to the ingestion of alerts

vars == <<rule, sources, pc, source, batch, loaded, passed, results, said, alerts>>
tables == <<rule, sources>>
work == <<pc, source, batch, loaded, passed, results, said, alerts>>

ResultState == [severity : Severities, tags : Seq(STRING), reason : {"keyword", "llm", None},
                matched : BOOLEAN]

TypeOK ==
    /\ rule \in [Rules -> Templates \cup {None}]
    /\ \A r \in Rules : rule[r] # None => rule[r].source \in sources \cup {None}
    /\ sources \subseteq Sources
    /\ pc \in {"idle", "classify", "ingest"}
    /\ source \in Sources \cup {None}
    /\ batch \in Batches \cup {<<>>}
    /\ loaded \in Seq(Templates)
    /\ passed \in Seq(Items)
    /\ Len(results) <= Len(passed)
    /\ \A n \in 1..Len(results) : results[n] \in ResultState
    /\ \A n \in 1..Len(alerts) : alerts[n].item \in Items /\ alerts[n].result \in ResultState
    /\ \A x \in said : x.item \in Items /\ x.rule \in 1..Len(loaded) /\ x.answer \in Answers

Init ==
    /\ rule = [r \in Rules |-> None]
    /\ sources = Sources
    /\ pc = "idle" /\ source = None
    /\ batch = <<>> /\ loaded = <<>> /\ passed = <<>>
    /\ results = <<>> /\ said = {} /\ alerts = <<>>

-----------------------------------------------------------------------------
(***************************************************************************)
(* Users change rules.                                                     *)
(***************************************************************************)

\* The source of a rule must exist; it may belong to another project.
Insertable(t) == t.source \in sources \cup {None}

CreateRule(r, t) ==
    /\ rule[r] = None
    /\ Insertable(t)
    /\ rule' = [rule EXCEPT ![r] = t]
    /\ UNCHANGED <<sources, work>>

UpdateRule(r, t) ==
    /\ rule[r] # None
    /\ t.project = rule[r].project
    /\ Insertable(t)
    /\ rule' = [rule EXCEPT ![r] = t]
    /\ UNCHANGED <<sources, work>>

DeleteRule(r) ==
    /\ rule[r] # None
    /\ rule' = [rule EXCEPT ![r] = None]
    /\ UNCHANGED <<sources, work>>

\* Variant: the rules of a source stay.
WithoutSource_Kept(s) == rule

\* The rules of a source go with it.
WithoutSource(s) == [r \in Rules |-> IF rule[r] # None /\ rule[r].source = s THEN None ELSE rule[r]]

DeleteSource(s) ==
    /\ s \in sources
    /\ sources' = sources \ {s}
    /\ rule' = WithoutSource(s)
    /\ UNCHANGED work

-----------------------------------------------------------------------------
(***************************************************************************)
(* The filters.                                                            *)
(***************************************************************************)

\* The loop that appends the members of a list that are in a set.
Chosen(list, set) ==
    LET upto[n \in 0..Len(list)] ==
          IF n = 0 THEN <<>>
          ELSE LET before == upto[n - 1] IN
               IF list[n] \in set THEN Append(before, list[n]) ELSE before IN
    upto[Len(list)]

OfPhase(list, phase) == Chosen(list, {t \in Templates : t.phase = phase})

\* An LLM rule among the filters matches nothing.
FilterHit(t, i) == t.type \in {"keyword", "regex"} /\ i \in t.hits

\* Variant: the first rule that matches decides.
AfterFilter_FirstWins(acc, t, i) ==
    IF acc.excluded \/ acc.included \/ ~FilterHit(t, i)
    THEN [acc EXCEPT !.include = @ \/ t.action # "exclude"]
    ELSE [include |-> TRUE, included |-> t.action # "exclude", excluded |-> t.action = "exclude"]

\* One rule of the loop in itemPassesFilters, which an exclusion ends.
AfterFilter(acc, t, i) ==
    CASE acc.excluded -> acc
      [] ~acc.excluded /\ t.action = "exclude" -> [acc EXCEPT !.excluded = FilterHit(t, i)]
      [] ~acc.excluded /\ t.action \in {"", "include"} ->
            [acc EXCEPT !.include = TRUE, !.included = @ \/ FilterHit(t, i)]
      [] OTHER -> acc

NoFilter == [include |-> FALSE, included |-> FALSE, excluded |-> FALSE]

\* What is known of an item after each of the rules.
Filtering(list, i) ==
    LET after[n \in 0..Len(list)] ==
          IF n = 0 THEN NoFilter ELSE AfterFilter(after[n - 1], list[n], i) IN
    after

ItemPasses(list, i) ==
    LET acc == Filtering(list, i)[Len(list)] IN
    ~acc.excluded /\ (acc.include => acc.included)

Filtered(list, items) == Chosen(items, {i \in Items : ItemPasses(list, i)})

-----------------------------------------------------------------------------
(***************************************************************************)
(* The classification.                                                     *)
(***************************************************************************)

\* Words that are no severity rank like the lowest.
Rank(severity) ==
    CASE severity = "medium" -> 1
      [] severity = "high" -> 2
      [] severity = "critical" -> 3
      [] OTHER -> 0

\* Variant: any other severity is taken.
Raised_Last(old, new) == IF new # "" THEN new ELSE old

Raised(old, new) == IF new # "" /\ Rank(new) > Rank(old) THEN new ELSE old

WithTags(old, new) ==
    LET upto[n \in 0..Len(new)] ==
          IF n = 0 THEN old
          ELSE LET tags == upto[n - 1] IN
               IF new[n] \in Range(tags) THEN tags ELSE Append(tags, new[n]) IN
    upto[Len(new)]

NoResult == [severity |-> "low", tags |-> <<>>, reason |-> None, matched |-> FALSE]

KeywordRule(result, t, i) ==
    IF i \notin t.hits THEN result
    ELSE [severity |-> Raised(result.severity, t.severity),
          tags |-> WithTags(result.tags, t.tags),
          reason |-> IF result.reason = None THEN "keyword" ELSE result.reason,
          matched |-> TRUE]

\* For a gated rule, a keyword rule before it must have matched.
CallsLLM(result, t) == HasLLM /\ (t.gated => result.matched)

\* A call that failed, or found the item not relevant, adds nothing.
LLMRule(result, t, answer) ==
    IF ~CallsLLM(result, t) \/ answer = None \/ (answer # None /\ ~answer.relevant)
    THEN result
    ELSE [result EXCEPT !.severity = Raised(@, answer.severity),
                        !.tags = WithTags(@, answer.tags),
                        !.reason = IF answer.reasoned THEN "llm" ELSE @]

\* One rule of the loop in applyClassify; one with a pattern does nothing.
AfterClassify(result, t, i, answer) ==
    CASE t.type = "keyword" -> KeywordRule(result, t, i)
      [] t.type = "llm" -> LLMRule(result, t, answer)
      [] OTHER -> result

\* The results for an item after each of the loaded rules.
Classified(i, answer) ==
    LET after[n \in 0..Len(loaded)] ==
          IF n = 0 THEN NoResult
          ELSE LET result == after[n - 1] IN
               IF loaded[n].phase # "classify" THEN result
               ELSE AfterClassify(result, loaded[n], i, answer[n]) IN
    after

-----------------------------------------------------------------------------
(***************************************************************************)
(* The poller.                                                             *)
(***************************************************************************)

AppliesTo(t, s) == t.enabled /\ t.project = ProjectOf[s] /\ t.source \in {s, None}

\* ORDER BY priority: rules of the same priority come in any order.
InOrder(ids) ==
    \A n \in 1..Len(ids) : n > 1 => rule[ids[n-1]].priority <= rule[ids[n]].priority

\* A poll of s returned the items: the rules are loaded and the filters applied.
Load(s, items, ids) ==
    /\ pc = "idle"
    /\ s \in sources
    /\ Range(ids) = {r \in Rules : rule[r] # None /\ AppliesTo(rule[r], s)}
    /\ InOrder(ids)
    /\ source' = s
    /\ batch' = items
    /\ loaded' = [n \in 1..Len(ids) |-> rule[ids[n]]]
    /\ passed' = Filtered(OfPhase(loaded', "filter"), items)
    /\ pc' = "classify"
    /\ UNCHANGED <<results, said, alerts, tables>>

\* The rules cannot be loaded: all items are ingested as they are.
LoadFails(s, items) ==
    /\ "load" \in Faults
    /\ pc = "idle"
    /\ s \in sources
    /\ source' = s
    /\ batch' = items
    /\ passed' = items
    /\ pc' = "ingest"
    /\ UNCHANGED <<loaded, results, said, alerts, tables>>

LLMRules == {k \in 1..Len(loaded) : loaded[k].phase = "classify" /\ loaded[k].type = "llm"}

\* The next item is classified, with an answer of the LLM for each of its rules.
Classify ==
    /\ pc = "classify"
    /\ Len(results) < Len(passed)
    /\ LET i == passed[Len(results) + 1] IN
       \E given \in [LLMRules -> Answers] :
          LET answer == [k \in 1..Len(loaded) |-> IF k \in LLMRules THEN given[k] ELSE None]
              after == Classified(i, answer) IN
          /\ results' = Append(results, after[Len(loaded)])
          /\ said' = said \cup
                {[item |-> i, rule |-> k, answer |-> given[k]] :
                    k \in {k \in LLMRules : CallsLLM(after[k - 1], loaded[k])}}
    /\ UNCHANGED <<pc, source, batch, loaded, passed, alerts, tables>>

ClassifyEnds ==
    /\ pc = "classify"
    /\ Len(results) = Len(passed)
    /\ pc' = "ingest"
    /\ UNCHANGED <<source, batch, loaded, passed, results, said, alerts, tables>>

\* Items and results are paired by position.
Ingest ==
    /\ pc = "ingest"
    /\ Len(alerts) < Len(passed)
    /\ LET n == Len(alerts) + 1 IN
       alerts' = Append(alerts, [item |-> passed[n],
                                 result |-> IF n <= Len(results) THEN results[n] ELSE NoResult])
    /\ UNCHANGED <<pc, source, batch, loaded, passed, results, said, tables>>

\* The next source.
Finish ==
    /\ pc = "ingest"
    /\ Len(alerts) = Len(passed)
    /\ pc' = "idle" /\ source' = None
    /\ batch' = <<>> /\ loaded' = <<>> /\ passed' = <<>>
    /\ results' = <<>> /\ said' = {} /\ alerts' = <<>>
    /\ UNCHANGED tables

Orders == {ids \in UNION {[1..n -> Rules] : n \in 0..Cardinality(Rules)} : IsInjective(ids)}

Next ==
    \/ \E r \in Rules : DeleteRule(r) \/ \E t \in Templates : CreateRule(r, t) \/ UpdateRule(r, t)
    \/ \E s \in Sources : DeleteSource(s)
    \/ \E items \in Batches, s \in Sources :
          LoadFails(s, items) \/ \E ids \in Orders : Load(s, items, ids)
    \/ Classify \/ ClassifyEnds \/ Ingest \/ Finish

Spec == Init /\ [][Next]_vars

-----------------------------------------------------------------------------
(***************************************************************************)
(* Properties.                                                             *)
(***************************************************************************)

Loaded(phase) == {t \in Range(loaded) : t.phase = phase}

\* What a set of filter rules means, whatever the order in which they come: no
\* exclude rule matches, and one include rule does if there is any.  (The comment
\* of applyFilters in service/processing.go asks for a matching include rule even
\* when all rules exclude.)
FiltersMean ==
    LET Excludes == {t \in Loaded("filter") : t.action = "exclude"}
        Includes == {t \in Loaded("filter") : t.action \in {"", "include"}}
        Wanted(i) == /\ \A t \in Excludes : ~FilterHit(t, i)
                     /\ Includes # {} => \E t \in Includes : FilterHit(t, i) IN
    passed = Chosen(batch, {i \in Items : Wanted(i)})

\* The keyword rules that match an item, and the answers that find it relevant.
Findings(i) ==
    {t \in Loaded("classify") : t.type = "keyword" /\ i \in t.hits}
        \cup {x.answer : x \in {x \in said : x.item = i /\ x.answer # None /\ x.answer.relevant}}

\* An alert has a severity that the ingestion accepts, and the highest that a
\* rule or the LLM found for this very item, whatever the order, words that are no
\* severity, and calls that fail: none is lowered, and no item goes by another's
\* result (applyClassify, and the pairing by position in service/source_poller.go).
HighestWins ==
    \A n \in 1..Len(alerts) :
        LET severity == alerts[n].result.severity
            found == Findings(alerts[n].item) IN
        /\ severity \in Severities
        /\ \A f \in found : Rank(f.severity) <= Rank(severity)
        /\ Rank(severity) = 0 \/ \E f \in found : f.severity = severity

\* An alert has every tag that was found for it, once.
TagsOnce ==
    \A n \in 1..Len(alerts) :
        LET tags == alerts[n].result.tags IN
        /\ IsInjective(tags)
        /\ Range(tags) = UNION {Range(f.tags) : f \in Findings(alerts[n].item)}

\* "Respect only_if_keywords" (service/processing.go): the LLM is asked only about
\* items that passed the filters and, by a gated rule, only about those that a
\* keyword rule in front of it matched.
LLMOnlyIfMatched ==
    \A x \in said :
        /\ x.item \in Range(passed)
        /\ loaded[x.rule].gated =>
              \E k \in 1..(x.rule - 1) :
                  loaded[k].phase = "classify" /\ loaded[k].type = "keyword" /\ x.item \in loaded[k].hits

\* What classification means, whatever the order of the rules.
ClassificationMeans == HighestWins /\ TagsOnce /\ LLMOnlyIfMatched
=============================================================================
