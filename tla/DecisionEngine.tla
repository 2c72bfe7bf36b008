--------------------------- MODULE DecisionEngine ---------------------------
(***************************************************************************)
(* The decision engine of one tenant (hestia/decision_engine.py) with the  *)
(* feedback loops it drives: the attack memory it records into, the        *)
(* policies generated from that memory, and the self-healing that moves    *)
(* the block threshold.                                                    *)
(*                                                                         *)
(* evaluate_prompt and evaluate_tool_call contain no await, so each runs   *)
(* to its end on the event loop: one evaluation, with everything           *)
(* _record_decision does for it, is one step.  The other actors are the    *)
(* operator (who approves, rejects, suppresses), whoever labels outcomes   *)
(* through HealthMonitor.record_decision, and time.                        *)
(***************************************************************************)
EXTENDS Classifier, Healing, PolicyGenerator

CONSTANTS
    Prompts,             \* request contexts that evaluate_prompt is called with
    ToolCalls,           \* request contexts that evaluate_tool_call builds
    OperatorRules,       \* the rules the engine is constructed with
    Feedback,            \* labelled decisions reported from outside
    GlobalRisks,         \* highest avg_risk_score among federated matches, 0: none
    MLEnabled,           \* HESTIA_ML_MODEL_PATH names a model
    HealingEnabled,      \* HESTIA_HEALING_ENABLED
    AutoApply,           \* HESTIA_POLICY_AUTO_APPLY
    GenerationInterval,  \* HESTIA_POLICY_GEN_INTERVAL
    GenerationLimit,     \* records generate() looks at, 100 in the code
    HealInterval,        \* decisions between healing cycles, 10 in the code
    RollbackCooldown,    \* HESTIA_HEALING_COOLDOWN, in clock ticks
    AdjustCooldown,      \* HESTIA_HEALING_ADJUST_COOLDOWN, in clock ticks
    MaxDecisions         \* bound: recorded decisions

RequestContext ==
    [text : SUBSET STRING, tool_name : STRING \cup {Absent},
     tool_category : STRING \cup {Absent}, environment : STRING \cup {Absent}]

ASSUME EngineAssumption ==
    /\ Prompts \subseteq RequestContext
    /\ OperatorRules \in Seq(ToSet(OperatorRules))
    /\ \A rule \in ToSet(OperatorRules) :
          rule.priority \in Int /\ rule.id \notin GeneratedIds
    /\ ToolCalls \subseteq {c \in RequestContext : c.tool_name # Absent}
    /\ {MLEnabled, HealingEnabled, AutoApply} \subseteq BOOLEAN
    /\ GenerationInterval \in Nat \ {0}
    /\ GenerationLimit \in Nat \ {0}
    /\ HealInterval \in Nat \ {0}
    /\ RollbackCooldown \in Nat /\ AdjustCooldown \in Nat /\ MaxDecisions \in Nat
    /\ GlobalRisks \subseteq 0 .. 100
    /\ Feedback \subseteq Observation

VARIABLES
    engine,         \* rules_engine: the rule list and its dictionary
    pending,        \* policy_applier.pending_policies
    applied,        \* ids in policy_applier.applied_policies
    rejected,       \* history: ids of the policies rejected so far
    memory,         \* the newest GenerationLimit records of sl_memory
    window,         \* health_monitor._window
    threshold,      \* adaptive_thresholds._thresholds["block"]
    blockLevel,     \* _heal_block_threshold
    sinceRollback,  \* ticks since _last_rollback_time, up to RollbackCooldown
    sinceAdjust,    \* ticks since _last_adjustment_time, up to AdjustCooldown
    suppressed,     \* auto_rollback.suppressed
    rollbacks,      \* _healing_rollbacks
    adjustments,    \* _healing_adjustments
    decisionCount,  \* _decision_count
    verdict         \* the Decision returned last, with what it was about

policyVars == <<engine, pending, applied, rejected>>
healVars   == <<window, threshold, blockLevel, sinceRollback, sinceAdjust,
                rollbacks, adjustments>>
vars == <<policyVars, memory, healVars, suppressed, decisionCount, verdict>>

NoVerdict == [kind |-> "none", level |-> Low, tool |-> Absent,
              decision |-> "none", by |-> "none"]

Init ==
    /\ engine = NewEngine(OperatorRules)
    /\ pending = {} /\ applied = {} /\ rejected = {}
    /\ memory = <<>>
    /\ window = <<>>
    /\ threshold = InitialThreshold
    /\ blockLevel = High
    /\ sinceRollback = RollbackCooldown   \* both times start at the epoch
    /\ sinceAdjust = AdjustCooldown
    /\ suppressed = FALSE
    /\ rollbacks = 0 /\ adjustments = 0
    /\ decisionCount = 0
    /\ verdict = NoVerdict

------------------------------------------------------------------------------
(* The checks of an evaluation, in the order of the early returns.         *)

Later(a, b) == IF a > b THEN a ELSE b

(* The classifier's score, raised to the risk of a federated match, and    *)
(* the level that goes with it.                                            *)
RiskScore(request, globalRisk) == Later(Score(request.text), globalRisk)

RiskLevel(request, globalRisk) ==
    IF RiskScore(request, globalRisk) >= 90 THEN Critical
    ELSE IF RiskScore(request, globalRisk) >= 70 THEN High
    ELSE Classify(request.text)

Returned(decision, by) == [decision |-> decision, by |-> by]

(* Fault: the block level itself is let through.                           *)
PromptOutcomeStrict(p, globalRisk, mlThreat, riskyUser) ==
    LET rule == Evaluate(engine.rules, p)
    IN  IF rule # NoRule THEN Returned(rule.action, "rule")
        ELSE IF RiskLevel(p, globalRisk) > blockLevel THEN Returned("block", "risk")
        ELSE Returned("allow", "default")

PromptOutcome(p, globalRisk, mlThreat, riskyUser) ==
    LET rule == Evaluate(engine.rules, p)
    IN  IF rule # NoRule THEN Returned(rule.action, "rule")
        ELSE IF RiskLevel(p, globalRisk) >= blockLevel THEN Returned("block", "risk")
        ELSE IF mlThreat THEN Returned("block", "ml")
        ELSE IF riskyUser THEN Returned("human_review", "profile")
        ELSE Returned("allow", "default")

CriticalTool(c) ==
    \/ c.tool_category \in {"execute", "finance", "admin"}
    \/ c.tool_name \in {"shell", "credential_access", "admin_api"}

ToolOutcome(c, globalRisk, mlThreat) ==
    LET rule == Evaluate(engine.rules, c)
    IN  IF rule # NoRule THEN Returned(rule.action, "rule")
        ELSE IF mlThreat THEN Returned("block", "ml")
        ELSE IF globalRisk >= 70 THEN Returned("human_review", "global")
        ELSE IF CriticalTool(c) /\ c.environment = "production"
             THEN Returned("human_review", "critical")
        ELSE Returned("allow", "default")

------------------------------------------------------------------------------
(* _record_decision, reached only by the decisions that fall through every *)
(* check.  Its parts run in this order: health monitor, attack memory,     *)
(* policy generation, healing cycle.                                       *)

Remembered(record) == Pushed(memory, record, GenerationLimit)

Watched(record) ==
    Pushed(window, [decision |-> record.decision, expected |-> Unlabelled],
           WindowSize)

Proposal(record) ==
    IF (decisionCount + 1) % GenerationInterval = 0
    THEN GeneratedRules(Remembered(record), decisionCount + 1)
    ELSE <<>>

(* PolicyApplier.apply of a policy that has rules.                         *)
Proposed(record) ==
    IF Proposal(record) # <<>> /\ ~AutoApply
    THEN pending \cup {[id |-> decisionCount + 1, rules |-> Proposal(record)]}
    ELSE pending

HealingDue == HealingEnabled /\ (decisionCount + 1) % HealInterval = 0

(* AutoRollback.tick on the window that already holds the new decision.    *)
RollbackDue(w) ==
    /\ HealingDue
    /\ ~suppressed
    /\ EnoughLabels(w)
    /\ sinceRollback = RollbackCooldown
    /\ FPRate(w) > FPThreshold

(* AdaptiveThresholds.tick, after AutoRollback.                            *)
AdjustDue(w) ==
    /\ HealingDue
    /\ sinceAdjust = AdjustCooldown
    /\ EnoughLabels(w)
    /\ FPTooHigh(w) \/ FNTooHigh(w)

(* Fault: a policy that awaits approval is installed all the same.         *)
GeneratePolicyUnapproved(record) ==
    /\ engine' = Installed(engine, Proposal(record))
    /\ UNCHANGED applied

GeneratePolicy(record) ==
    IF Proposal(record) # <<>> /\ AutoApply
    THEN /\ engine' = Installed(engine, Proposal(record))
         /\ applied' = applied \cup {decisionCount + 1}
    ELSE UNCHANGED <<engine, applied>>

(* rollback_fn: every policy get_pending() lists, the one just proposed    *)
(* included, is passed to reject_pending.                                  *)
Rollback(record) ==
    IF RollbackDue(Watched(record))
    THEN LET listed == {p.id : p \in Proposed(record)}
         IN  /\ pending' = {p \in Proposed(record) : p.id \notin listed}
             /\ rejected' = rejected \cup listed
             /\ rollbacks' = rollbacks + 1
             /\ sinceRollback' = 0
    ELSE /\ pending' = Proposed(record)
         /\ UNCHANGED <<rejected, rollbacks, sinceRollback>>

Adjust(w) ==
    IF AdjustDue(w)
    THEN /\ threshold' = Adjusted(w, threshold)
         /\ blockLevel' = LevelOf(Adjusted(w, threshold))
         /\ adjustments' = adjustments + 1
         /\ sinceAdjust' = 0
    ELSE UNCHANGED <<threshold, blockLevel, adjustments, sinceAdjust>>

RecordDecision(record) ==
    /\ decisionCount < MaxDecisions
    /\ decisionCount' = decisionCount + 1
    /\ window' = IF HealingEnabled THEN Watched(record) ELSE window
    /\ memory' = Remembered(record)
    /\ GeneratePolicy(record)
    /\ Rollback(record)
    /\ Adjust(Watched(record))
    /\ UNCHANGED suppressed

RecordOf(text, tool, score, decision) ==
    [text |-> text, tool_used |-> tool, risk_score |-> score,
     decision |-> decision,
     was_blocked |-> decision \in {"block", "terminate_session"}]

------------------------------------------------------------------------------
(* One evaluation.  Only the final ALLOW reaches _record_decision; every   *)
(* early return leaves the engine as it was.                               *)
EarlyReturn == UNCHANGED <<policyVars, memory, healVars, suppressed, decisionCount>>

EvaluatePrompt(p, globalRisk, mlThreat, riskyUser) ==
    LET outcome == PromptOutcome(p, globalRisk, mlThreat, riskyUser)
    IN  /\ verdict' = [kind |-> "prompt", level |-> RiskLevel(p, globalRisk),
                       tool |-> Absent,
                       decision |-> outcome.decision, by |-> outcome.by]
        /\ \/ outcome.by # "default" /\ EarlyReturn
           \/ /\ outcome.by = "default"
              /\ RecordDecision(RecordOf(p.text, Absent, RiskScore(p, globalRisk),
                                         outcome.decision))

EvaluateToolCall(c, globalRisk, mlThreat) ==
    LET outcome == ToolOutcome(c, globalRisk, mlThreat)
    IN  /\ verdict' = [kind |-> "tool", level |-> Low, tool |-> c.tool_name,
                       decision |-> outcome.decision, by |-> outcome.by]
        /\ \/ outcome.by # "default" /\ EarlyReturn
           \/ /\ outcome.by = "default"
              /\ RecordDecision(RecordOf({}, c.tool_name, 10, outcome.decision))

------------------------------------------------------------------------------
(* Fault: the approved policy stays in the pending list.                   *)
ApproveKept(p) ==
    /\ engine' = Installed(engine, p.rules)
    /\ applied' = applied \cup {p.id}
    /\ UNCHANGED <<pending, rejected, memory, healVars, suppressed, decisionCount,
                   verdict>>

(* PolicyApplier.approve_pending and reject_pending.                       *)
Approve(p) ==
    /\ pending' = pending \ {p}
    /\ engine' = Installed(engine, p.rules)
    /\ applied' = applied \cup {p.id}
    /\ UNCHANGED <<rejected, memory, healVars, suppressed, decisionCount, verdict>>

Reject(p) ==
    /\ pending' = pending \ {p}
    /\ rejected' = rejected \cup {p.id}
    /\ UNCHANGED <<engine, applied, memory, healVars, suppressed, decisionCount,
                   verdict>>

(* HealthMonitor.record_decision with an expected outcome: the only way a  *)
(* label enters the window.                                                *)
Label(observation) ==
    /\ HealingEnabled
    /\ window' = Pushed(window, observation, WindowSize)
    /\ UNCHANGED <<policyVars, memory, threshold, blockLevel, sinceRollback,
                   sinceAdjust, rollbacks, adjustments, suppressed,
                   decisionCount, verdict>>

Suppress(b) ==
    /\ HealingEnabled /\ b # suppressed
    /\ suppressed' = b
    /\ UNCHANGED <<policyVars, memory, healVars, decisionCount, verdict>>

Aged(age, limit) == IF age < limit THEN age + 1 ELSE age

Elapse ==
    /\ sinceRollback < RollbackCooldown \/ sinceAdjust < AdjustCooldown
    /\ sinceRollback' = Aged(sinceRollback, RollbackCooldown)
    /\ sinceAdjust' = Aged(sinceAdjust, AdjustCooldown)
    /\ UNCHANGED <<policyVars, memory, window, threshold, blockLevel, rollbacks,
                   adjustments, suppressed, decisionCount, verdict>>

MLAnswers == IF MLEnabled THEN BOOLEAN ELSE {FALSE}

Next ==
    \/ \E p \in Prompts, g \in GlobalRisks, ml \in MLAnswers, risky \in BOOLEAN :
          EvaluatePrompt(p, g, ml, risky)
    \/ \E c \in ToolCalls, g \in GlobalRisks, ml \in MLAnswers :
          EvaluateToolCall(c, g, ml)
    \/ \E p \in pending : Approve(p)
    \/ \E p \in pending : Reject(p)
    \/ \E f \in Feedback : Label(f)
    \/ \E b \in BOOLEAN : Suppress(b)
    \/ Elapse

Spec == Init /\ [][Next]_vars

------------------------------------------------------------------------------
(* The shape of the state.                                                 *)
MemoryRecord ==
    [text : SUBSET STRING, tool_used : STRING \cup {Absent}, risk_score : 0 .. 100,
     decision : Actions, was_blocked : BOOLEAN]

TypeOK ==
    /\ \A p \in pending : p.id \in 1 .. decisionCount
    /\ applied \subseteq 1 .. decisionCount
    /\ rejected \subseteq 1 .. decisionCount
    /\ memory \in Seq(MemoryRecord) /\ Len(memory) <= GenerationLimit
    /\ window \in Seq(Observation) /\ Len(window) <= WindowSize
    /\ threshold \in MinThreshold .. MaxThreshold
    /\ blockLevel \in RiskLevels
    /\ sinceRollback \in 0 .. RollbackCooldown
    /\ sinceAdjust \in 0 .. AdjustCooldown
    /\ suppressed \in BOOLEAN
    /\ rollbacks \in Nat /\ adjustments \in Nat /\ decisionCount \in Nat

(* However far healing has moved the threshold, a prompt of CRITICAL risk  *)
(* that no rule decides is blocked: the clamps keep the block level at or  *)
(* below CRITICAL (evaluate_prompt with set_heal_thresholds).              *)
CriticalNeverPasses ==
    /\ verdict.kind = "prompt"
    /\ verdict.level = Critical
    /\ verdict.by # "rule"
    => verdict.decision = "block"

(* A policy is pending, applied or rejected, never two of these: one that  *)
(* a rollback discarded is never applied later, and none is applied twice  *)
(* (apply, approve_pending, reject_pending and rollback_fn together).      *)
PolicyAccounting ==
    LET waiting == {p.id : p \in pending}
    IN  /\ waiting \cap applied = {}
        /\ waiting \cap rejected = {}
        /\ applied \cap rejected = {}
        /\ \A p, q \in pending : p.id = q.id => p = q

(* The operator's rules stay in their places in the rule list, and what    *)
(* follows them are rules of applied policies, each there once: nothing    *)
(* pending or rejected is ever in force, and no policy displaces a rule of *)
(* the operator or is installed twice (_apply_rules, which removes and     *)
(* appends, under approvals, rejections and rollbacks in any order).       *)
OperatorFirstThenApplied ==
    /\ IsPrefix(OperatorRules, engine.rules)
    /\ \A i \in Len(OperatorRules) + 1 .. Len(engine.rules) :
          /\ engine.rules[i].id[2] \in applied
          /\ \A j \in Len(OperatorRules) + 1 .. Len(engine.rules) :
                engine.rules[i].id = engine.rules[j].id => i = j

(* A rule the operator gave priority 3 or more keeps deciding the requests *)
(* it decided at start, whatever policies have been applied since: the     *)
(* learned review rules rank below it or lose the tie to the older rule    *)
(* (RulesEngine.evaluate over the rules _apply_rules appends).             *)
OperatorRulesPrevail ==
    \A request \in Prompts \cup ToolCalls :
        LET rule == Evaluate(OperatorRules, request)
        IN  rule # NoRule /\ rule.priority >= 3
            => Evaluate(engine.rules, request) = rule

(* One adjustment moves the block level by at most one risk level, although *)
(* both corrections may apply and halves round to the even level.          *)
LevelMovesByOne ==
    [][Step < 100 => blockLevel' - blockLevel \in {-1, 0, 1}]_vars

(* What docs/v2.0.0-architecture.md says of the healing cycle: the engine  *)
(* records what it decides (line 202), and answers a high rate of false    *)
(* positives with lower thresholds to be less sensitive (line 212).  So    *)
(* when false positives are all that is reported, a prompt below HIGH,     *)
(* which the initial threshold lets pass, is not blocked for its risk; and *)
(* if one is, that decision is recorded for the loop to see.  The code     *)
(* does neither: it blocks more the lower the threshold is, and returns    *)
(* before _record_decision.                                                *)
OverblockedIsRecorded ==
    [][/\ verdict' # verdict
       /\ verdict'.by = "risk" /\ verdict'.level < High
       => decisionCount' = decisionCount + 1]_vars

==============================================================================
