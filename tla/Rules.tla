-------------------------------- MODULE Rules --------------------------------
(***************************************************************************)
(* The rule list of hestia/rules_engine.py and Rule.matches of             *)
(* hestia/models.py, as operators.  A rules engine is a record: `rules' is *)
(* the list in insertion order, `by_id' the dictionary that add_rule and   *)
(* remove_rule keep beside it.                                             *)
(*                                                                         *)
(* A request context is a record of the four keys the engine looks at.     *)
(* `text' is the set of keywords the prompt contains: substring search and *)
(* letter case are abstracted to membership.  Absent stands for a key the  *)
(* context does not have.                                                  *)
(***************************************************************************)
EXTENDS SequencesExt

CONSTANTS Absent,   \* a context key that is not there
          NoRule    \* RulesEngine.evaluate returning None

Actions == {"allow", "block", "degrade", "sandbox", "human_review",
            "honeypot", "terminate_session"}

RuleKinds == {"block_keywords", "block_tools", "allowlist", "custom"}

(* Rule.matches.  `conditions' is a record: [keywords |-> S], [tools |-> S] *)
(* or, for a custom rule, the accepted values of each context key.         *)
Matches(rule, ctx) ==
    \/ /\ rule.type = "block_keywords"
       /\ rule.conditions.keywords \cap ctx.text # {}
    \/ /\ rule.type = "block_tools"
       /\ ctx.tool_name \in rule.conditions.tools
    \/ /\ rule.type = "allowlist"
       /\ ctx.tool_name \notin rule.conditions.tools
    \/ /\ rule.type = "custom"
       /\ \A key \in DOMAIN rule.conditions : ctx[key] \in rule.conditions[key]

(* The rules RulesEngine.evaluate can stop at, and the one it stops at: the *)
(* sort on priority is stable, so among equals the oldest rule comes first. *)
Applicable(rules, ctx) ==
    {i \in DOMAIN rules : rules[i].enabled /\ Matches(rules[i], ctx)}

(* Fault: among equals the newest rule comes first.                        *)
PrecedesNewest(rules, i, j) ==
    \/ rules[i].priority > rules[j].priority
    \/ rules[i].priority = rules[j].priority /\ i >= j

Precedes(rules, i, j) ==
    \/ rules[i].priority > rules[j].priority
    \/ rules[i].priority = rules[j].priority /\ i <= j

Evaluate(rules, ctx) ==
    IF Applicable(rules, ctx) = {} THEN NoRule
    ELSE rules[CHOOSE i \in Applicable(rules, ctx) :
                 \A j \in Applicable(rules, ctx) : Precedes(rules, i, j)]

------------------------------------------------------------------------------
(* RulesEngine.__init__ with a list: the dictionary keeps the last rule of  *)
(* each id.                                                                 *)
LastOf(rules, id) == SelectLastInSeq(rules, LAMBDA r : r.id = id)

NewEngine(rules) ==
    [rules |-> rules,
     by_id |-> [id \in {rules[i].id : i \in DOMAIN rules} |->
                  rules[LastOf(rules, id)]]]

(* add_rule appends and overwrites the dictionary entry.                    *)
Added(engine, rule) ==
    [rules |-> Append(engine.rules, rule),
     by_id |-> [id \in DOMAIN engine.by_id \cup {rule.id} |->
                  IF id = rule.id THEN rule ELSE engine.by_id[id]]]

(* remove_rule pops the dictionary entry and removes from the list the      *)
(* first rule equal to it (list.remove compares the dataclass fields).      *)
Removed(engine, id) ==
    IF id \notin DOMAIN engine.by_id THEN engine
    ELSE [rules |-> RemoveFirst(engine.rules, engine.by_id[id]),
          by_id |-> Restrict(engine.by_id, DOMAIN engine.by_id \ {id})]

IdsOf(rules) == {rules[i].id : i \in DOMAIN rules}

(* PolicyApplier._apply_rules: existing_ids is computed once, before the    *)
(* loop, and not refreshed while the policy's rules are installed.          *)
Installed(engine, policyRules) ==
    LET existing == IdsOf(engine.rules)
        install(e, rule) ==
            Added(IF rule.id \in existing THEN Removed(e, rule.id) ELSE e, rule)
        after[n \in 0 .. Len(policyRules)] ==
            IF n = 0 THEN engine ELSE install(after[n - 1], policyRules[n])
    IN  after[Len(policyRules)]

==============================================================================
