------------------------ MODULE MCProcessingPipeline ------------------------
(***************************************************************************)
(* Instances of ProcessingPipeline for TLC.                                *)
(***************************************************************************)
EXTENDS ProcessingPipeline, TLC

CONSTANTS s1, i1, i2

\* Behaviours are followed as long as the rules are those that were loaded: the
\* steps of a batch do not read the table.
MCAsLoaded ==
    loaded # <<>> =>
        Range(loaded) = {rule[r] : r \in {r \in Rules : rule[r] # None /\ AppliesTo(rule[r], source)}}

MCSymmetry == Permutations(Rules)

MCProjectOf == s1 :> "one"

Rule(project, of, phase, type, priority, hits) ==
    [project |-> project, source |-> of, phase |-> phase, type |-> type,
     priority |-> priority, enabled |-> TRUE, action |-> "", hits |-> hits,
     severity |-> "", tags |-> <<>>, gated |-> TRUE]

\* Three filters, of which one cannot match; keyword rules with and without a
\* severity; LLM rules with and without a gate; one rule of another project.
MCTemplates ==
    {Rule("one", None, "filter", "keyword", 0, {i1, i2}),
     [Rule("one", s1, "filter", "regex", 0, {i2}) EXCEPT !.action = "exclude"],
     Rule("one", None, "filter", "llm", 1, {}),
     [Rule("one", None, "classify", "keyword", 0, {i1}) EXCEPT
         !.severity = "high", !.tags = <<"a", "b">>],
     [Rule("one", s1, "classify", "keyword", 1, {i1, i2}) EXCEPT
         !.severity = "urgent", !.tags = <<"a">>],
     Rule("one", None, "classify", "llm", 1, {}),
     [Rule("one", None, "classify", "llm", 0, {}) EXCEPT !.gated = FALSE],
     [Rule("two", s1, "filter", "keyword", 0, {i1}) EXCEPT !.action = "exclude"]}

MCBatches == {<<i2, i1>>}

MCAnswers ==
    {None,
     [relevant |-> FALSE, severity |-> "critical", tags |-> <<"a">>, reasoned |-> TRUE],
     [relevant |-> TRUE, severity |-> "medium", tags |-> <<"b", "c">>, reasoned |-> TRUE]}
=============================================================================
