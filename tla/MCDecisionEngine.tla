--------------------------- MODULE MCDecisionEngine ---------------------------
(* Small instances of DecisionEngine: prompts and tool calls that reach     *)
(* each check, and one rule of the operator.                                *)
EXTENDS DecisionEngine

Request(text, tool, category, environment) ==
    [text |-> text, tool_name |-> tool, tool_category |-> category,
     environment |-> environment]

Prompt(text) == Request(text, Absent, Absent, Absent)

(* Prompts of LOW and HIGH risk, at first allowed and blocked; a federated *)
(* match makes either critical.                                            *)
MCPrompts == {Prompt({}), Prompt({"exploit"})}

(* The prompt in between, which only a lowered threshold blocks.            *)
EveryLevel == MCPrompts \cup {Prompt({"script"})}

(* The tool that is learned about, and a critical one.                      *)
MCToolCalls == {Request({}, UnknownTool, "general", "development"),
                Request({}, "shell", "execute", "production")}

(* An allow rule of priority 3 for the tool that is learned about.          *)
MCOperatorRules ==
    << [id |-> <<"operator", 1>>, type |-> "custom",
        conditions |-> [tool_name |-> {UnknownTool}, environment |-> {"development"}],
        action |-> "allow", priority |-> 3, enabled |-> TRUE] >>

(* A false positive and a false negative.                                   *)
FalsePositive == {[decision |-> "block", expected |-> "allow"]}
BadFeedback == FalsePositive \cup {[decision |-> "allow", expected |-> "block"]}

NoGlobalRisk == {0}
SomeGlobalRisk == {0, 92}

==============================================================================
