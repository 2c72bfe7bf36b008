--------------------------- MODULE PolicyGenerator ---------------------------
(***************************************************************************)
(* AdaptivePolicyGenerator.generate of hestia/policy/adaptive_generator.py: *)
(* the rules it derives from the records of the attack memory.  A record   *)
(* has the keywords of the prompt, the tool (Absent for a prompt), the     *)
(* risk score in hundredths and whether the request was blocked.  Rule ids *)
(* are fresh: the code draws a uuid, the model numbers the generation.     *)
(***************************************************************************)
EXTENDS Rules

CONSTANTS MinSamples,  \* records needed before anything is derived
          Repeated     \* words a prompt that has them contains more than once

ASSUME GeneratorAssumption ==
    MinSamples \in Nat \ {0} /\ Repeated \subseteq STRING

(* The tool name that records without a tool are counted under.            *)
UnknownTool == "unknown"

ToolUsed(record) ==
    IF record.tool_used = Absent THEN UnknownTool ELSE record.tool_used

NewRule(kind, n, type, conditions, action, priority) ==
    [id |-> <<kind, n>>, type |-> type, conditions |-> conditions,
     action |-> action, priority |-> priority, enabled |-> TRUE]

(* The ids that are drawn; no rule of anyone else has one.                 *)
GeneratedIds ==
    {"adaptive_kw", "adaptive_tool_block", "adaptive_tool_review"} \X Nat

(* _generate_keyword_rules: words that occur at least twice in the blocked *)
(* prompts taken together, and are blocked in at least 60% of the records  *)
(* that contain them.                                                      *)
RiskyWords(records) ==
    LET With(w, S) == {i \in S : w \in records[i].text}
        blocked == {i \in DOMAIN records : records[i].was_blocked}
    IN  {w \in UNION {records[i].text : i \in blocked} :
            /\ Cardinality(With(w, blocked)) >= 2 \/ w \in Repeated
            /\ 10 * Cardinality(With(w, blocked))
                 >= 6 * Cardinality(With(w, DOMAIN records))}

KeywordRules(records, n) ==
    IF RiskyWords(records) = {} THEN <<>>
    ELSE << NewRule("adaptive_kw", n, "block_keywords",
                    [keywords |-> RiskyWords(records)], "block", 5) >>

(* _generate_tool_rules: block a tool blocked in 85% of its records, put   *)
(* under review one blocked in 65% or of high risk in half of them.        *)
OfTool(records, t) == {i \in DOMAIN records : ToolUsed(records[i]) = t}

SampledTools(records) ==
    {t \in {ToolUsed(records[i]) : i \in DOMAIN records} :
        Cardinality(OfTool(records, t)) >= MinSamples}

BlockedAtLeast(records, t, percent) ==
    100 * Cardinality({i \in OfTool(records, t) : records[i].was_blocked})
      >= percent * Cardinality(OfTool(records, t))

HighRiskTool(records, t) ==
    2 * Cardinality({i \in OfTool(records, t) : records[i].risk_score >= 70})
      >= Cardinality(OfTool(records, t))

BlockTools(records) ==
    {t \in SampledTools(records) : BlockedAtLeast(records, t, 85)}

RestrictTools(records) ==
    {t \in SampledTools(records) \ BlockTools(records) :
        BlockedAtLeast(records, t, 65) \/ HighRiskTool(records, t)}

ToolRules(records, n) ==
    (IF BlockTools(records) = {} THEN <<>>
     ELSE << NewRule("adaptive_tool_block", n, "block_tools",
                     [tools |-> BlockTools(records)], "block", 8) >>)
    \o
    (IF RestrictTools(records) = {} THEN <<>>
     ELSE << NewRule("adaptive_tool_review", n, "block_tools",
                     [tools |-> RestrictTools(records)], "human_review", 3) >>)

GeneratedRules(records, n) ==
    IF Len(records) < MinSamples THEN <<>>
    ELSE KeywordRules(records, n) \o ToolRules(records, n)

==============================================================================
