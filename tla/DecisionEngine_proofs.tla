------------------------ MODULE DecisionEngine_proofs ------------------------
(***************************************************************************)
(* What DecisionEngine guarantees for every value of its constants: any    *)
(* prompts and tool calls, any rules of the operator, any window, rates,   *)
(* step and cooldowns.                                                     *)
(***************************************************************************)
EXTENDS DecisionEngine, FiniteSetTheorems, WellFoundedInduction, TLAPS

------------------------------------------------------------------------------
(* The arithmetic of healing.                                              *)

(* A clamped threshold is in the range of thresholds.                       *)
LEMMA ClampedInRange ==
    ASSUME NEW x \in Int
    PROVE  Clamped(x) \in MinThreshold .. MaxThreshold
BY DEF Clamped, MinThreshold, MaxThreshold

(* A threshold rounds to a risk level.                                      *)
LEMMA LevelOfInRange ==
    ASSUME NEW t \in Int
    PROVE  LevelOf(t) \in RiskLevels
<1>1. Rounded(t, 100) \in Int
  BY DEF Rounded
<1>2. QED
  BY <1>1 DEF LevelOf, RiskLevels, Low, Critical

(* An adjustment leaves the threshold in its range.                         *)
LEMMA AdjustedInRange ==
    ASSUME NEW w, NEW t \in MinThreshold .. MaxThreshold
    PROVE  Adjusted(w, t) \in MinThreshold .. MaxThreshold
<1>1. t \in Int /\ t - Step \in Int
  BY HealingAssumption DEF MinThreshold, MaxThreshold
<1>2. Lowered(w, t) \in MinThreshold .. MaxThreshold
  BY <1>1, ClampedInRange DEF Lowered
<1>3. Lowered(w, t) + Step \in Int
  BY <1>2, HealingAssumption DEF MinThreshold, MaxThreshold
<1>4. QED
  BY <1>2, <1>3, ClampedInRange DEF Adjusted

(* One adjustment moves the threshold by at most one step: the lowering    *)
(* and the raising cancel, whatever the clamps cut off in between.         *)
LEMMA AdjustedByAtMostStep ==
    ASSUME NEW w, NEW t \in MinThreshold .. MaxThreshold
    PROVE  /\ Adjusted(w, t) <= t + Step
           /\ t <= Adjusted(w, t) + Step
<1>1. Step \in Nat /\ t \in 100 .. 400
  BY HealingAssumption DEF MinThreshold, MaxThreshold
<1>2. /\ Lowered(w, t) \in Int
      /\ t - Step <= Lowered(w, t) /\ Lowered(w, t) <= t
      /\ Lowered(w, t) \in 100 .. 400
  BY <1>1 DEF Lowered, Clamped, MinThreshold, MaxThreshold
<1>3. CASE FNTooHigh(w)
  BY <1>1, <1>2, <1>3 DEF Adjusted, Clamped, MinThreshold, MaxThreshold
<1>4. CASE ~FNTooHigh(w)
  BY <1>1, <1>2, <1>4 DEF Adjusted
<1>5. QED
  BY <1>3, <1>4

(* Thresholds less than one level apart round to levels at most one apart: *)
(* half-to-even rounding jumps two levels only over a distance of 100.     *)
LEMMA LevelStep ==
    ASSUME NEW s \in 100 .. 400, NEW t \in 100 .. 400,
           s - t < 100, t - s < 100
    PROVE  LevelOf(s) - LevelOf(t) \in {-1, 0, 1}
<1>1. Rounded(s, 100) - Rounded(t, 100) \in {-1, 0, 1}
  BY DEF Rounded
<1>2. Rounded(s, 100) \in Int /\ Rounded(t, 100) \in Int
  BY DEF Rounded
<1>3. QED
  BY <1>1, <1>2 DEF LevelOf

(* A deque with maxlen keeps its bound and the type of its entries.        *)
LEMMA PushedType ==
    ASSUME NEW S, NEW s \in Seq(S), NEW e \in S, NEW limit \in Nat \ {0},
           Len(s) <= limit
    PROVE  /\ Pushed(s, e, limit) \in Seq(S)
           /\ Len(Pushed(s, e, limit)) <= limit
<1>1. CASE Len(s) < limit
  BY <1>1 DEF Pushed
<1>2. CASE ~(Len(s) < limit)
  <2>1. s # <<>>
    BY <1>2
  <2>2. Tail(s) \in Seq(S) /\ Len(Tail(s)) = Len(s) - 1
    BY <2>1
  <2>3. QED
    BY <1>2, <2>2 DEF Pushed
<1>3. QED
  BY <1>1, <1>2

------------------------------------------------------------------------------
(* Type correctness.                                                       *)

(* What reaches _record_decision is an ALLOW.                              *)
LEMMA PromptDefaultIsAllow ==
    ASSUME NEW p, NEW g, NEW ml, NEW risky,
           PromptOutcome(p, g, ml, risky).by = "default"
    PROVE  PromptOutcome(p, g, ml, risky).decision = "allow"
BY DEF PromptOutcome, Returned

(* The same of a tool call.                                                 *)
LEMMA ToolDefaultIsAllow ==
    ASSUME NEW c, NEW g, NEW ml, ToolOutcome(c, g, ml).by = "default"
    PROVE  ToolOutcome(c, g, ml).decision = "allow"
BY DEF ToolOutcome, Returned

(* A risk score is a percentage, also when a federated match raises it.     *)
LEMMA RiskScoreInRange ==
    ASSUME NEW p, NEW g \in GlobalRisks
    PROVE  RiskScore(p, g) \in 0 .. 100
<1>1. g \in 0 .. 100
  BY EngineAssumption
<1>2. Score(p.text) \in 0 .. 100
  BY DEF Score
<1>3. QED
  BY <1>1, <1>2 DEF RiskScore, Later

(* What an evaluation hands to _record_decision is a record of the type of  *)
(* the memory.                                                              *)
LEMMA RecordsOfAllows ==
    ASSUME NEW text \in SUBSET STRING, NEW tool \in STRING \cup {Absent},
           NEW score \in 0 .. 100
    PROVE  /\ RecordOf(text, tool, score, "allow") \in MemoryRecord
           /\ RecordOf(text, tool, score, "allow").decision \in Outcomes
BY DEF RecordOf, MemoryRecord, Actions, Outcomes

(* The next-state relation by cases: an evaluation leaves everything but   *)
(* the verdict alone, or records an ALLOW.                                 *)
LEMMA EvaluationCases ==
    ASSUME \/ \E p \in Prompts, g \in GlobalRisks, ml \in MLAnswers,
                 risky \in BOOLEAN : EvaluatePrompt(p, g, ml, risky)
           \/ \E c \in ToolCalls, g \in GlobalRisks, ml \in MLAnswers :
                 EvaluateToolCall(c, g, ml)
    PROVE  \/ EarlyReturn
           \/ \E text \in SUBSET STRING, tool \in STRING \cup {Absent},
                 score \in 0 .. 100 :
                 /\ tool # Absent => score = 10
                 /\ RecordDecision(RecordOf(text, tool, score, "allow"))
<1>1. ASSUME NEW p \in Prompts, NEW g \in GlobalRisks, NEW ml \in MLAnswers,
             NEW risky \in BOOLEAN, EvaluatePrompt(p, g, ml, risky)
      PROVE  \/ EarlyReturn
             \/ \E text \in SUBSET STRING, tool \in STRING \cup {Absent},
                   score \in 0 .. 100 :
                   /\ tool # Absent => score = 10
                   /\ RecordDecision(RecordOf(text, tool, score, "allow"))
  <2>1. p.text \in SUBSET STRING
    BY EngineAssumption DEF RequestContext
  <2>2. RiskScore(p, g) \in 0 .. 100
    BY RiskScoreInRange
  <2>3. \/ EarlyReturn
        \/ RecordDecision(RecordOf(p.text, Absent, RiskScore(p, g), "allow"))
    BY <1>1, PromptDefaultIsAllow DEF EvaluatePrompt
  <2>4. QED
    BY <2>1, <2>2, <2>3
<1>2. ASSUME NEW c \in ToolCalls, NEW g \in GlobalRisks, NEW ml \in MLAnswers,
             EvaluateToolCall(c, g, ml)
      PROVE  \/ EarlyReturn
             \/ \E text \in SUBSET STRING, tool \in STRING \cup {Absent},
                   score \in 0 .. 100 :
                   /\ tool # Absent => score = 10
                   /\ RecordDecision(RecordOf(text, tool, score, "allow"))
  <2>1. c.tool_name \in STRING
    BY EngineAssumption DEF RequestContext
  <2>2. \/ EarlyReturn
        \/ RecordDecision(RecordOf({}, c.tool_name, 10, "allow"))
    BY <1>2, ToolDefaultIsAllow DEF EvaluateToolCall
  <2>3. {} \in SUBSET STRING /\ 10 \in 0 .. 100
    OBVIOUS
  <2>4. QED
    BY <2>1, <2>2, <2>3
<1>3. QED
  BY <1>1, <1>2

(* _record_decision keeps the state well formed.                            *)
LEMMA RecordDecisionType ==
    ASSUME TypeOK,
           NEW text \in SUBSET STRING, NEW tool \in STRING \cup {Absent},
           NEW score \in 0 .. 100,
           RecordDecision(RecordOf(text, tool, score, "allow"))
    PROVE  TypeOK'
<1> DEFINE r == RecordOf(text, tool, score, "allow")
<1>1. r \in MemoryRecord /\ r.decision \in Outcomes
  BY RecordsOfAllows
<1> HIDE DEF r
<1>2. RecordDecision(r)
  BY DEF r
<1>3. /\ decisionCount \in Nat /\ decisionCount' = decisionCount + 1
      /\ 1 .. decisionCount \subseteq 1 .. decisionCount'
  BY <1>2 DEF RecordDecision, TypeOK
<1>4. \A p \in Proposed(r) : p.id \in 1 .. decisionCount'
  BY <1>3 DEF Proposed, TypeOK
<1>5. \A p \in pending' : p.id \in 1 .. decisionCount'
  BY <1>2, <1>4 DEF RecordDecision, Rollback
<1>6. applied' \subseteq 1 .. decisionCount'
  <2>1. applied' = applied \/ applied' = applied \cup {decisionCount'}
    BY <1>2, <1>3 DEF RecordDecision, GeneratePolicy
  <2>2. applied \subseteq 1 .. decisionCount
    BY DEF TypeOK
  <2>3. decisionCount' \in 1 .. decisionCount'
    BY <1>3
  <2>4. QED
    BY <1>3, <2>1, <2>2, <2>3
<1>7. rejected' \subseteq 1 .. decisionCount'
  <2>1. \/ rejected' = rejected
        \/ rejected' = rejected \cup {p.id : p \in Proposed(r)}
    BY <1>2 DEF RecordDecision, Rollback
  <2>2. rejected \subseteq 1 .. decisionCount
    BY DEF TypeOK
  <2>3. QED
    BY <1>3, <1>4, <2>1, <2>2, ZenonT(40)
<1>8. memory' \in Seq(MemoryRecord) /\ Len(memory') <= GenerationLimit
  BY <1>1, <1>2, PushedType, EngineAssumption
     DEF RecordDecision, Remembered, TypeOK
<1>9. Watched(r) \in Seq(Observation) /\ Len(Watched(r)) <= WindowSize
  <2>1. [decision |-> r.decision, expected |-> Unlabelled] \in Observation
    BY <1>1 DEF Observation
  <2>2. QED
    BY <2>1, PushedType, HealingAssumption DEF Watched, TypeOK
<1>10. window' \in Seq(Observation) /\ Len(window') <= WindowSize
  BY <1>2, <1>9 DEF RecordDecision, TypeOK
<1>11. /\ threshold' \in MinThreshold .. MaxThreshold
       /\ blockLevel' \in RiskLevels
       /\ sinceAdjust' \in 0 .. AdjustCooldown
       /\ adjustments' \in Nat
  <2>1. /\ Adjusted(Watched(r), threshold) \in MinThreshold .. MaxThreshold
        /\ Adjusted(Watched(r), threshold) \in Int
    <3>1. threshold \in MinThreshold .. MaxThreshold
      BY DEF TypeOK
    <3>2. Adjusted(Watched(r), threshold) \in MinThreshold .. MaxThreshold
      BY <3>1, AdjustedInRange, Zenon
    <3>3. QED
      BY <3>2 DEF MinThreshold, MaxThreshold
  <2>2. LevelOf(Adjusted(Watched(r), threshold)) \in RiskLevels
    BY <2>1, LevelOfInRange
  <2>3. /\ threshold \in MinThreshold .. MaxThreshold
        /\ blockLevel \in RiskLevels
        /\ sinceAdjust \in 0 .. AdjustCooldown
        /\ adjustments \in Nat
    BY DEF TypeOK
  <2>4. Adjust(Watched(r)) /\ AdjustCooldown \in Nat
    BY <1>2, EngineAssumption DEF RecordDecision
  <2>5. QED
    BY <2>1, <2>2, <2>3, <2>4 DEF Adjust
<1>12. sinceRollback' \in 0 .. RollbackCooldown /\ rollbacks' \in Nat
  <2>1. sinceRollback \in 0 .. RollbackCooldown /\ rollbacks \in Nat
    BY DEF TypeOK
  <2>2. Rollback(r) /\ RollbackCooldown \in Nat
    BY <1>2, EngineAssumption DEF RecordDecision
  <2>3. QED
    BY <2>1, <2>2 DEF Rollback
<1>13. suppressed' \in BOOLEAN
  BY <1>2 DEF RecordDecision, TypeOK
<1>14. QED
  BY SMTT(30), <1>3, <1>5, <1>6, <1>7, <1>8, <1>10, <1>11, <1>12, <1>13 DEF TypeOK

(* Every state of the engine has the shape TypeOK gives it.                *)
THEOREM TypeCorrect == Spec => []TypeOK
<1>1. Init => TypeOK
  <2>1. InitialThreshold \in MinThreshold .. MaxThreshold /\ High \in RiskLevels
    BY DEF InitialThreshold, MinThreshold, MaxThreshold, High, RiskLevels,
           Low, Critical
  <2>2. <<>> \in Seq(MemoryRecord) /\ <<>> \in Seq(Observation)
        /\ Len(<<>>) = 0
    OBVIOUS
  <2>3. /\ GenerationLimit \in Nat /\ WindowSize \in Nat
        /\ RollbackCooldown \in 0 .. RollbackCooldown
        /\ AdjustCooldown \in 0 .. AdjustCooldown
    BY EngineAssumption, HealingAssumption
  <2> SUFFICES ASSUME Init PROVE TypeOK
    OBVIOUS
  <2>4. /\ \A p \in pending : p.id \in 1 .. decisionCount
        /\ applied \subseteq 1 .. decisionCount
        /\ rejected \subseteq 1 .. decisionCount
        /\ suppressed \in BOOLEAN
        /\ rollbacks \in Nat /\ adjustments \in Nat /\ decisionCount \in Nat
    BY DEF Init
  <2>5. /\ memory \in Seq(MemoryRecord) /\ Len(memory) <= GenerationLimit
        /\ window \in Seq(Observation) /\ Len(window) <= WindowSize
    BY <2>2, <2>3 DEF Init
  <2>6. QED
    BY <2>1, <2>3, <2>4, <2>5 DEF Init, TypeOK
<1>2. TypeOK /\ [Next]_vars => TypeOK'
  <2> SUFFICES ASSUME TypeOK, [Next]_vars PROVE TypeOK'
    OBVIOUS
  <2>1. CASE \/ \E p \in Prompts, g \in GlobalRisks, ml \in MLAnswers,
                   risky \in BOOLEAN : EvaluatePrompt(p, g, ml, risky)
             \/ \E c \in ToolCalls, g \in GlobalRisks, ml \in MLAnswers :
                   EvaluateToolCall(c, g, ml)
    <3>1. CASE EarlyReturn
      BY <3>1 DEF EarlyReturn, policyVars, healVars, TypeOK
    <3>2. CASE ~EarlyReturn
      BY <2>1, <3>2, EvaluationCases, RecordDecisionType
    <3>3. QED
      BY <3>1, <3>2
  <2>2. ASSUME NEW p \in pending, Approve(p) PROVE TypeOK'
    BY <2>2 DEF Approve, healVars, TypeOK
  <2>3. ASSUME NEW p \in pending, Reject(p) PROVE TypeOK'
    BY <2>3 DEF Reject, healVars, TypeOK
  <2>4. ASSUME NEW f \in Feedback, Label(f) PROVE TypeOK'
    <3>1. window' \in Seq(Observation) /\ Len(window') <= WindowSize
      BY <2>4, PushedType, EngineAssumption, HealingAssumption DEF Label, TypeOK
    <3>2. QED
      BY <2>4, <3>1 DEF Label, policyVars, TypeOK
  <2>5. ASSUME NEW b \in BOOLEAN, Suppress(b) PROVE TypeOK'
    BY <2>5 DEF Suppress, policyVars, healVars, TypeOK
  <2>6. CASE Elapse
    BY <2>6, EngineAssumption DEF Elapse, Aged, policyVars, TypeOK
  <2>7. CASE UNCHANGED vars
    BY <2>7 DEF vars, policyVars, healVars, TypeOK
  <2>8. QED
    BY <2>1, <2>2, <2>3, <2>4, <2>5, <2>6, <2>7 DEF Next
<1>3. QED
  BY <1>1, <1>2, PTL DEF Spec

------------------------------------------------------------------------------
(* Self-healing.                                                           *)

(* Two thresholds within one step of each other are within one level.      *)
LEMMA LessThanOneLevel ==
    ASSUME NEW a \in Int, NEW b \in Int, NEW d \in Int,
           a <= b + d, b <= a + d, d < 100
    PROVE  a - b < 100 /\ b - a < 100
OBVIOUS

(* Only a recorded decision moves the threshold or the block level.        *)
LEMMA OnlyAdjustMovesLevel ==
    ASSUME [Next]_vars
    PROVE  \/ UNCHANGED <<threshold, blockLevel>>
           \/ \E w : Adjust(w)
<1>1. CASE \/ \E p \in Prompts, g \in GlobalRisks, ml \in MLAnswers,
                 risky \in BOOLEAN : EvaluatePrompt(p, g, ml, risky)
           \/ \E c \in ToolCalls, g \in GlobalRisks, ml \in MLAnswers :
                 EvaluateToolCall(c, g, ml)
  <2>1. CASE EarlyReturn
    BY <2>1 DEF EarlyReturn, healVars
  <2>2. ASSUME NEW r, RecordDecision(r) PROVE \E w : Adjust(w)
    BY <2>2 DEF RecordDecision
  <2>3. QED
    BY <1>1, <2>1, <2>2, EvaluationCases
<1>2. CASE ~( \/ \E p \in Prompts, g \in GlobalRisks, ml \in MLAnswers,
                    risky \in BOOLEAN : EvaluatePrompt(p, g, ml, risky)
              \/ \E c \in ToolCalls, g \in GlobalRisks, ml \in MLAnswers :
                    EvaluateToolCall(c, g, ml))
  BY <1>2 DEF Next, Approve, Reject, Label, Suppress, Elapse, vars, healVars
<1>3. QED
  BY <1>1, <1>2

(* The block level is the threshold of AdaptiveThresholds, rounded.         *)
LevelFollowsThreshold == blockLevel = LevelOf(threshold)

LEMMA LevelAgrees == Spec => []LevelFollowsThreshold
<1>1. Init => LevelFollowsThreshold
  BY DEF Init, LevelFollowsThreshold, LevelOf, Rounded,
         InitialThreshold, High
<1>2. LevelFollowsThreshold /\ [Next]_vars => LevelFollowsThreshold'
  BY OnlyAdjustMovesLevel DEF Adjust, LevelFollowsThreshold
<1>3. QED
  BY <1>1, <1>2, PTL DEF Spec

(* One adjustment moves the block level by at most one risk level when the *)
(* step is below one level.                                                *)
THEOREM LevelMovesByOneAlways == Spec => LevelMovesByOne
<1>1. /\ TypeOK /\ LevelFollowsThreshold /\ LevelFollowsThreshold'
      /\ [Next]_vars
      => [Step < 100 => blockLevel' - blockLevel \in {-1, 0, 1}]_vars
  <2> SUFFICES ASSUME TypeOK, LevelFollowsThreshold, LevelFollowsThreshold',
                      [Next]_vars, Step < 100
               PROVE  blockLevel' - blockLevel \in {-1, 0, 1}
    OBVIOUS
  <2>1. threshold \in MinThreshold .. MaxThreshold /\ blockLevel \in Int
    BY DEF TypeOK, RiskLevels, Low, Critical
  <2>2. CASE UNCHANGED blockLevel
    BY <2>1, <2>2
  <2>3. ASSUME NEW w, Adjust(w), blockLevel' # blockLevel
        PROVE  blockLevel' - blockLevel \in {-1, 0, 1}
    <3>1. threshold' = Adjusted(w, threshold)
      BY <2>3 DEF Adjust
    <3>2. /\ threshold' \in MinThreshold .. MaxThreshold
          /\ threshold' <= threshold + Step
          /\ threshold <= threshold' + Step
      BY <2>1, <3>1, AdjustedInRange, AdjustedByAtMostStep
    <3>3. threshold' - threshold < 100 /\ threshold - threshold' < 100
      <4>1. Step \in Int /\ threshold \in Int /\ threshold' \in Int
        BY <2>1, <3>2, HealingAssumption DEF MinThreshold, MaxThreshold
      <4>2. threshold' <= threshold + Step /\ threshold <= threshold' + Step
        BY <3>2
      <4>3. QED
        BY <4>1, <4>2, LessThanOneLevel
    <3>4. LevelOf(threshold') - LevelOf(threshold) \in {-1, 0, 1}
      BY <2>1, <3>2, <3>3, LevelStep DEF MinThreshold, MaxThreshold
    <3>5. QED
      BY <3>4 DEF LevelFollowsThreshold
  <2>4. QED
    BY <2>2, <2>3, OnlyAdjustMovesLevel
<1>2. QED
  BY <1>1, TypeCorrect, LevelAgrees, PTL DEF Spec, LevelMovesByOne

(* However far healing has moved the threshold, a prompt of CRITICAL risk  *)
(* that no rule decides is blocked.                                        *)
THEOREM CriticalBlocked == Spec => []CriticalNeverPasses
<1>1. Init => CriticalNeverPasses
  BY DEF Init, CriticalNeverPasses, NoVerdict
<1>2. TypeOK /\ CriticalNeverPasses /\ [Next]_vars => CriticalNeverPasses'
  <2> SUFFICES ASSUME TypeOK, CriticalNeverPasses, [Next]_vars
               PROVE  CriticalNeverPasses'
    OBVIOUS
  <2>1. ASSUME NEW p \in Prompts, NEW g \in GlobalRisks, NEW ml \in MLAnswers,
               NEW risky \in BOOLEAN, EvaluatePrompt(p, g, ml, risky)
        PROVE  CriticalNeverPasses'
    <3>1. Critical >= blockLevel
      BY DEF TypeOK, RiskLevels, Low, Critical
    <3>2. RiskLevel(p, g) = Critical /\ PromptOutcome(p, g, ml, risky).by # "rule"
          => PromptOutcome(p, g, ml, risky).decision = "block"
      BY <3>1 DEF PromptOutcome, Returned
    <3>3. QED
      BY <2>1, <3>2 DEF EvaluatePrompt, CriticalNeverPasses
  <2>2. ASSUME NEW c \in ToolCalls, NEW g \in GlobalRisks, NEW ml \in MLAnswers,
               EvaluateToolCall(c, g, ml)
        PROVE  CriticalNeverPasses'
    BY <2>2 DEF EvaluateToolCall, CriticalNeverPasses
  <2>3. CASE UNCHANGED verdict
    BY <2>3 DEF CriticalNeverPasses
  <2>4. QED
    BY <2>1, <2>2, <2>3 DEF Next, Approve, Reject, Label, Suppress, Elapse, vars
<1>3. QED
  BY <1>1, <1>2, TypeCorrect, PTL DEF Spec

------------------------------------------------------------------------------
(* Policies.                                                               *)

(* Recording a decision proposes at most one policy, under a fresh id, and *)
(* a rollback rejects everything that was waiting with it.                 *)
LEMMA RecordingPolicies ==
    ASSUME NEW r, RecordDecision(r)
    PROVE  /\ decisionCount' = decisionCount + 1
           /\ \/ Proposed(r) = pending
              \/ /\ Proposed(r) = pending
                            \cup {[id |-> decisionCount + 1, rules |-> Proposal(r)]}
                 /\ applied' = applied
           /\ applied' = applied \/ applied' = applied \cup {decisionCount + 1}
           /\ \/ pending' = Proposed(r) /\ rejected' = rejected
                 /\ rollbacks' = rollbacks
              \/ pending' = {} /\ rejected' = rejected \cup {p.id : p \in Proposed(r)}
<1>1. decisionCount' = decisionCount + 1
  BY DEF RecordDecision
<1>2. \/ Proposed(r) = pending
      \/ /\ Proposed(r) = pending
                    \cup {[id |-> decisionCount + 1, rules |-> Proposal(r)]}
         /\ applied' = applied
  BY DEF RecordDecision, GeneratePolicy, Proposed
<1>3. applied' = applied \/ applied' = applied \cup {decisionCount + 1}
  BY DEF RecordDecision, GeneratePolicy
<1>4. \/ pending' = Proposed(r) /\ rejected' = rejected /\ rollbacks' = rollbacks
      \/ pending' = {} /\ rejected' = rejected \cup {p.id : p \in Proposed(r)}
  BY DEF RecordDecision, Rollback
<1>5. QED
  BY <1>1, <1>2, <1>3, <1>4

(* A policy is pending, applied or rejected, never two of these, along     *)
(* every interleaving of evaluations, rollbacks, approvals and rejections. *)
THEOREM PoliciesAccounted == Spec => []PolicyAccounting
<1>1. Init => PolicyAccounting
  BY DEF Init, PolicyAccounting
<1>2. TypeOK /\ PolicyAccounting /\ [Next]_vars => PolicyAccounting'
  <2> SUFFICES ASSUME TypeOK, PolicyAccounting, [Next]_vars
               PROVE  PolicyAccounting'
    OBVIOUS
  <2>0. /\ decisionCount \in Nat
        /\ decisionCount + 1 \notin applied \cup rejected
        /\ \A p \in pending : p.id # decisionCount + 1
    <3>1. /\ decisionCount \in Nat
          /\ applied \subseteq 1 .. decisionCount
          /\ rejected \subseteq 1 .. decisionCount
          /\ \A p \in pending : p.id \in 1 .. decisionCount
      BY DEF TypeOK
    <3>2. decisionCount + 1 \notin 1 .. decisionCount
      BY <3>1
    <3>3. QED
      BY <3>1, <3>2
  <2>1. ASSUME NEW r, RecordDecision(r) PROVE PolicyAccounting'
    <3> DEFINE fresh == [id |-> decisionCount + 1, rules |-> Proposal(r)]
    <3>1. fresh.id = decisionCount + 1
      OBVIOUS
    <3> HIDE DEF fresh
    <3>2. \/ Proposed(r) = pending
          \/ Proposed(r) = pending \cup {fresh} /\ applied' = applied
      BY <2>1, RecordingPolicies DEF fresh
    <3>3. \A p, q \in Proposed(r) : p.id = q.id => p = q
      BY <2>0, <3>1, <3>2 DEF PolicyAccounting
    <3>4. \A p \in Proposed(r) : p.id \notin rejected /\ p.id \notin applied'
      BY <2>0, <2>1, <3>1, <3>2, RecordingPolicies DEF PolicyAccounting
    <3>5. applied' \cap rejected = {}
      BY <2>0, <2>1, RecordingPolicies DEF PolicyAccounting
    <3>6. CASE pending' = Proposed(r) /\ rejected' = rejected
      BY <3>3, <3>4, <3>5, <3>6 DEF PolicyAccounting
    <3>7. CASE pending' = {} /\ rejected' = rejected \cup {p.id : p \in Proposed(r)}
      BY <3>4, <3>5, <3>7 DEF PolicyAccounting
    <3>8. QED
      BY <2>1, <3>6, <3>7, RecordingPolicies
  <2>2. ASSUME NEW p \in pending, Approve(p) PROVE PolicyAccounting'
    BY <2>2 DEF Approve, PolicyAccounting
  <2>3. ASSUME NEW p \in pending, Reject(p) PROVE PolicyAccounting'
    BY <2>3 DEF Reject, PolicyAccounting
  <2>4. CASE UNCHANGED policyVars
    BY <2>4 DEF policyVars, PolicyAccounting
  <2>5. QED
    <3>1. CASE \/ \E p \in Prompts, g \in GlobalRisks, ml \in MLAnswers,
                     risky \in BOOLEAN : EvaluatePrompt(p, g, ml, risky)
               \/ \E c \in ToolCalls, g \in GlobalRisks, ml \in MLAnswers :
                     EvaluateToolCall(c, g, ml)
      BY <3>1, <2>1, <2>4, EvaluationCases DEF EarlyReturn
    <3>2. QED
      BY <3>1, <2>2, <2>3, <2>4 DEF Next, Label, Suppress, Elapse, vars
<1>3. QED
  BY <1>1, <1>2, TypeCorrect, PTL DEF Spec

------------------------------------------------------------------------------
(* What the feedback can teach.                                            *)

(* Records of allowed requests, where only a record without a tool can     *)
(* carry a high score.                                                     *)
AllowedRecord(record) ==
    /\ ~record.was_blocked
    /\ record.tool_used # Absent => record.risk_score < 70

(* What _record_decision keeps in the attack memory.                       *)
MemoryHoldsAllows == \A i \in DOMAIN memory : AllowedRecord(memory[i])

(* A pushed deque holds the new entry and older ones, nothing else.        *)
LEMMA PushedEntries ==
    ASSUME NEW S, NEW s \in Seq(S), NEW e \in S, NEW limit \in Nat \ {0},
           Len(s) <= limit, NEW i \in DOMAIN Pushed(s, e, limit)
    PROVE  \/ Pushed(s, e, limit)[i] = e
           \/ \E j \in DOMAIN s : Pushed(s, e, limit)[i] = s[j]
<1>1. CASE Len(s) < limit
  BY <1>1 DEF Pushed
<1>2. CASE ~(Len(s) < limit)
  <2>1. s # <<>>
    BY <1>2
  <2>2. /\ Tail(s) \in Seq(S) /\ Len(Tail(s)) = Len(s) - 1
        /\ \A j \in 1 .. Len(Tail(s)) : Tail(s)[j] = s[j + 1]
    BY <2>1
  <2>3. QED
    BY <1>2, <2>2 DEF Pushed
<1>3. QED
  BY <1>1, <1>2

(* From such records the generator derives nothing, or one review rule for *)
(* the name that records without a tool are counted under.                 *)
Review(n) == NewRule("adaptive_tool_review", n, "block_tools",
                     [tools |-> {UnknownTool}], "human_review", 3)

LEMMA AllowsTeachReview ==
    ASSUME NEW records \in Seq(MemoryRecord), NEW n,
           \A i \in DOMAIN records : AllowedRecord(records[i])
    PROVE  GeneratedRules(records, n) \in {<<>>, <<Review(n)>>}
<1>1. KeywordRules(records, n) = <<>>
  <2>1. {i \in DOMAIN records : records[i].was_blocked} = {}
    BY DEF AllowedRecord
  <2>2. RiskyWords(records) = {}
    BY <2>1 DEF RiskyWords
  <2>3. QED
    BY <2>2 DEF KeywordRules
<1>2. ASSUME NEW t PROVE Cardinality(OfTool(records, t)) \in Nat
  <2>1. IsFiniteSet(DOMAIN records)
    BY FS_Interval
  <2>2. IsFiniteSet(OfTool(records, t))
    BY <2>1, FS_Subset DEF OfTool
  <2>3. QED
    BY <2>2, FS_CardinalityType
<1>3. ASSUME NEW t \in SampledTools(records)
      PROVE  Cardinality(OfTool(records, t)) \in Nat \ {0}
  BY <1>2, GeneratorAssumption DEF SampledTools
<1>4. Cardinality({}) = 0
  BY FS_EmptySet
<1>5. ASSUME NEW t \in SampledTools(records), NEW percent \in Nat \ {0}
      PROVE  ~BlockedAtLeast(records, t, percent)
  <2>1. {i \in OfTool(records, t) : records[i].was_blocked} = {}
    BY DEF OfTool, AllowedRecord
  <2>2. Cardinality({i \in OfTool(records, t) : records[i].was_blocked}) = 0
    BY <1>4, <2>1
  <2>3. percent * Cardinality(OfTool(records, t)) \in Nat \ {0}
    BY <1>3
  <2>4. QED
    BY <2>2, <2>3 DEF BlockedAtLeast
<1>6. BlockTools(records) = {}
  BY <1>5 DEF BlockTools
<1>7. ASSUME NEW t \in RestrictTools(records) PROVE t = UnknownTool
  <2>1. t \in SampledTools(records) /\ HighRiskTool(records, t)
    BY <1>5 DEF RestrictTools
  <2>2. {i \in OfTool(records, t) : records[i].risk_score >= 70} # {}
    <3>1. SUFFICES ASSUME {i \in OfTool(records, t) :
                              records[i].risk_score >= 70} = {}
                   PROVE  FALSE
      OBVIOUS
    <3>2. Cardinality({i \in OfTool(records, t) : records[i].risk_score >= 70}) = 0
      BY <1>4, <3>1
    <3>3. QED
      BY <1>3, <2>1, <3>2 DEF HighRiskTool
  <2>3. PICK i \in DOMAIN records : /\ ToolUsed(records[i]) = t
                                    /\ records[i].risk_score >= 70
    BY <2>2 DEF OfTool
  <2>4. ~(records[i].risk_score < 70)
    <3>1. records[i] \in MemoryRecord
      BY <2>3
    <3>2. records[i].risk_score \in 0 .. 100
      BY <3>1 DEF MemoryRecord
    <3>3. \A x \in 0 .. 100 : x >= 70 => ~(x < 70)
      OBVIOUS
    <3>4. QED
      BY <2>3, <3>2, <3>3, Zenon
  <2>5. records[i].tool_used = Absent
    BY <2>3, <2>4 DEF AllowedRecord
  <2>6. QED
    BY <2>3, <2>5 DEF ToolUsed
<1>8. CASE RestrictTools(records) = {}
  <2>1. GeneratedRules(records, n) = <<>>
    BY <1>1, <1>6, <1>8 DEF GeneratedRules, ToolRules
  <2>2. QED
    BY <2>1
<1>9. CASE RestrictTools(records) # {}
  <2>1. RestrictTools(records) = {UnknownTool}
    BY <1>7, <1>9
  <2>2. GeneratedRules(records, n) \in {<<>>, <<>> \o (<<>> \o <<Review(n)>>)}
    BY <1>1, <1>6, <2>1 DEF GeneratedRules, ToolRules, Review
  <2>3. <<>> \o (<<>> \o <<Review(n)>>) = <<Review(n)>>
    OBVIOUS
  <2>4. QED
    BY <2>2, <2>3
<1>10. QED
  BY <1>8, <1>9

(* The memory never learns of a blocked request.                           *)
LEMMA MemoryOfAllows == Spec => []MemoryHoldsAllows
<1>1. Init => MemoryHoldsAllows
  BY DEF Init, MemoryHoldsAllows
<1>2. TypeOK /\ MemoryHoldsAllows /\ [Next]_vars => MemoryHoldsAllows'
  <2> SUFFICES ASSUME TypeOK, MemoryHoldsAllows, [Next]_vars
               PROVE  MemoryHoldsAllows'
    OBVIOUS
  <2>1. ASSUME NEW text \in SUBSET STRING, NEW tool \in STRING \cup {Absent},
               NEW score \in 0 .. 100, tool # Absent => score = 10,
               RecordDecision(RecordOf(text, tool, score, "allow"))
        PROVE  MemoryHoldsAllows'
    <3> DEFINE r == RecordOf(text, tool, score, "allow")
    <3>1. r \in MemoryRecord /\ AllowedRecord(r)
      <4>1. r \in MemoryRecord
        BY RecordsOfAllows
      <4>2. ~r.was_blocked /\ r.tool_used = tool /\ r.risk_score = score
        BY DEF RecordOf
      <4>3. QED
        BY <2>1, <4>1, <4>2 DEF AllowedRecord
    <3> HIDE DEF r
    <3>2. memory' = Pushed(memory, r, GenerationLimit)
      BY <2>1 DEF RecordDecision, Remembered, r
    <3>3. /\ memory \in Seq(MemoryRecord) /\ Len(memory) <= GenerationLimit
          /\ GenerationLimit \in Nat \ {0}
      BY EngineAssumption DEF TypeOK
    <3>4. ASSUME NEW i \in DOMAIN memory'
          PROVE  memory'[i] = r \/ \E j \in DOMAIN memory : memory'[i] = memory[j]
      BY <3>1, <3>2, <3>3, <3>4, PushedEntries
    <3>5. QED
      BY <3>1, <3>4 DEF MemoryHoldsAllows
  <2>2. CASE UNCHANGED memory
    BY <2>2 DEF MemoryHoldsAllows
  <2>3. CASE \/ \E p \in Prompts, g \in GlobalRisks, ml \in MLAnswers,
                   risky \in BOOLEAN : EvaluatePrompt(p, g, ml, risky)
             \/ \E c \in ToolCalls, g \in GlobalRisks, ml \in MLAnswers :
                   EvaluateToolCall(c, g, ml)
    BY <2>1, <2>2, <2>3, EvaluationCases DEF EarlyReturn
  <2>4. QED
    BY <2>2, <2>3 DEF Next, Approve, Reject, Label, Suppress, Elapse, vars
<1>3. QED
  BY <1>1, <1>2, TypeCorrect, PTL DEF Spec

------------------------------------------------------------------------------
(* The rule list.                                                          *)

(* The least of some numbers.                                              *)
Less == OpToRel(<, Nat)

LEMMA LeastExists ==
    ASSUME NEW T, T \subseteq Nat, T # {}
    PROVE  \E x \in T : \A y \in T : x <= y
<1>1. IsWellFoundedOn(Less, Nat)
  BY NatLessThanWellFounded DEF Less
<1>2. PICK x \in T : \A y \in T : ~ (<<y, x>> \in Less)
  BY <1>1, WFMin
<1>3. \A y \in T : ~ (<<y, x>> \in {ss \in Nat \X Nat : ss[1] < ss[2]})
  BY <1>2 DEF OpToRel, Less
<1>4. ASSUME NEW y \in T PROVE x <= y
  <2>1. <<y, x>> \in Nat \X Nat /\ <<y, x>>[1] = y /\ <<y, x>>[2] = x
    OBVIOUS
  <2>2. ~ (y < x)
    BY <1>3, <2>1
  <2> QED BY <2>1, <2>2
<1> QED BY <1>4

(* A policy of one rule whose id no rule of the engine has is appended.    *)
LEMMA InstalledOne ==
    ASSUME NEW e, NEW rule, rule.id \notin IdsOf(e.rules)
    PROVE  Installed(e, <<rule>>).rules = Append(e.rules, rule)
<1> DEFINE install(x, y) ==
             Added(IF y.id \in IdsOf(e.rules) THEN Removed(x, y.id) ELSE x, y)
           Computes(g) ==
             g = [n \in 0 .. Len(<<rule>>) |->
                    IF n = 0 THEN e ELSE install(g[n - 1], <<rule>>[n])]
           first == [n \in 0 .. Len(<<rule>>) |-> IF n = 0 THEN e ELSE install(e, rule)]
<1>1. 0 .. Len(<<rule>>) = {0, 1} /\ <<rule>>[1] = rule
  OBVIOUS
<1> HIDE DEF install
<1>2. Computes(first)
  BY <1>1
<1>3. Installed(e, <<rule>>) = (CHOOSE g : Computes(g))[Len(<<rule>>)]
  BY DEF Installed, install
<1>4. Computes(CHOOSE g : Computes(g))
  <2> HIDE DEF Computes
  <2> QED BY <1>2
<1>5. PICK g : g = CHOOSE f : Computes(f)
  OBVIOUS
<1>6. Computes(g) /\ Installed(e, <<rule>>) = g[1]
  BY <1>3, <1>4, <1>5
<1>7. g[0] = e /\ g[1] = install(g[0], rule)
  BY <1>1, <1>6
<1>8. install(e, rule) = Added(e, rule)
  BY DEF install
<1> QED BY <1>6, <1>7, <1>8 DEF Added

(* Among the rules that apply there is one that precedes the others.       *)
Prioritized(rules) ==
    Len(rules) \in Nat /\ DOMAIN rules = 1 .. Len(rules)
    /\ \A i \in DOMAIN rules : rules[i].priority \in Int

LEMMA FirstExists ==
    ASSUME NEW rules, Prioritized(rules), NEW T \in SUBSET (DOMAIN rules), T # {}
    PROVE  \E i \in T : \A j \in T : Precedes(rules, i, j)
<1> DEFINE First(n) == \E i \in T : i <= n /\ \A j \in T : j <= n => Precedes(rules, i, j)
           Some(n) == \E i \in T : i <= n
           Bad == {n \in Nat : Some(n) /\ ~ First(n)}
<1>1. \A i \in T : i \in Nat \ {0} /\ rules[i].priority \in Int
  BY DEF Prioritized
<1>2. ASSUME Bad # {} PROVE FALSE
  <2>1. PICK n \in Bad : \A k \in Bad : n <= k
    <3>1. Bad \subseteq Nat
      OBVIOUS
    <3> HIDE DEF Bad
    <3> QED BY <1>2, <3>1, LeastExists
  <2>2. n \in Nat /\ Some(n) /\ ~ First(n)
    BY <2>1
  <2>3. n # 0
    BY <1>1, <2>2
  <2>4. n - 1 \in Nat /\ n - 1 \notin Bad
    <3>1. n - 1 \in Nat /\ ~ (n <= n - 1)
      BY <2>2, <2>3
    <3> HIDE DEF Bad
    <3> QED BY <2>1, <3>1
  <2>5. CASE n \notin T
    <3>1. \A j \in T : j <= n <=> j <= n - 1
      BY <1>1, <2>2, <2>5
    <3> QED BY <2>2, <2>4, <3>1
  <2>6. CASE n \in T /\ ~ Some(n - 1)
    <3>1. \A j \in T : j <= n => j = n
      BY <1>1, <2>2, <2>6
    <3>2. Precedes(rules, n, n)
      BY <1>1, <2>6 DEF Precedes
    <3> QED BY <2>2, <2>6, <3>1, <3>2
  <2>7. CASE n \in T /\ Some(n - 1)
    <3>1. PICK i \in T : i <= n - 1 /\ \A j \in T : j <= n - 1 => Precedes(rules, i, j)
      BY <2>4, <2>7
    <3>2. \A j \in T : j <= n => j = n \/ j <= n - 1
      BY <1>1, <2>2
    <3>3. CASE rules[n].priority > rules[i].priority
      <4>1. \A j \in T : j <= n => Precedes(rules, n, j)
        BY <1>1, <2>7, <3>1, <3>2, <3>3 DEF Precedes
      <4> QED BY <2>2, <2>7, <4>1
    <3>4. CASE ~ (rules[n].priority > rules[i].priority)
      <4>1. Precedes(rules, i, n) /\ i <= n
        <5>1. i \in Nat /\ n \in Nat /\ i <= n - 1
              /\ rules[i].priority \in Int /\ rules[n].priority \in Int
          BY <1>1, <2>2, <2>7, <3>1
        <5>2. \/ rules[i].priority > rules[n].priority
              \/ rules[i].priority = rules[n].priority
          BY <3>4, <5>1
        <5>3. i <= n
          BY <5>1
        <5> QED BY <5>2, <5>3 DEF Precedes
      <4> QED BY <2>2, <3>1, <3>2, <4>1
    <3> QED BY <3>3, <3>4
  <2> QED BY <2>5, <2>6, <2>7
<1>3. Some(Len(rules)) /\ Len(rules) \in Nat /\ \A j \in T : j <= Len(rules)
  BY DEF Prioritized
<1>4. First(Len(rules))
  BY <1>2, <1>3
<1> QED BY <1>3, <1>4

(* It is the one the evaluation stops at.                                  *)
LEMMA EvaluateIs ==
    ASSUME NEW rules, Prioritized(rules), NEW ctx, NEW i \in Applicable(rules, ctx),
           \A j \in Applicable(rules, ctx) : Precedes(rules, i, j)
    PROVE  Evaluate(rules, ctx) = rules[i]
<1> DEFINE k == CHOOSE h \in Applicable(rules, ctx) :
                  \A j \in Applicable(rules, ctx) : Precedes(rules, h, j)
<1>1. k \in Applicable(rules, ctx) /\ \A j \in Applicable(rules, ctx) : Precedes(rules, k, j)
  OBVIOUS
<1>2. Evaluate(rules, ctx) = rules[k]
  BY DEF Evaluate
<1> HIDE DEF k
<1>3. /\ k \in Int /\ i \in Int /\ rules[k].priority \in Int /\ rules[i].priority \in Int
  BY <1>1 DEF Applicable, Prioritized
<1>4. Precedes(rules, k, i) /\ Precedes(rules, i, k)
  BY <1>1
<1>5. k = i
  BY <1>3, <1>4 DEF Precedes
<1> QED BY <1>2, <1>5

(* Policies waiting are one review rule each.  The list is the operator's  *)
(* rules, in their places, and after them the reviews that were applied.   *)
PendingReviews == \A p \in pending : p.rules = <<Review(p.id)>>

Learned == {Review(n) : n \in Nat}

Grown ==
    /\ engine.rules \in Seq(ToSet(OperatorRules) \cup Learned)
    /\ Len(OperatorRules) <= Len(engine.rules)
    /\ \A i \in 1 .. Len(OperatorRules) : engine.rules[i] = OperatorRules[i]
    /\ \A i \in Len(OperatorRules) + 1 .. Len(engine.rules) :
          \E n \in applied : engine.rules[i] = Review(n)
    /\ \A i, j \in Len(OperatorRules) + 1 .. Len(engine.rules) :
          engine.rules[i].id = engine.rules[j].id => i = j

LEMMA OperatorFacts ==
    /\ OperatorRules \in Seq(ToSet(OperatorRules)) /\ Prioritized(OperatorRules)
    /\ \A i \in DOMAIN OperatorRules : OperatorRules[i].id \notin GeneratedIds
<1>1. OperatorRules \in Seq(ToSet(OperatorRules))
  BY EngineAssumption
<1>2. \A i \in DOMAIN OperatorRules :
         OperatorRules[i].priority \in Int /\ OperatorRules[i].id \notin GeneratedIds
  BY EngineAssumption DEF ToSet
<1> QED BY <1>1, <1>2 DEF Prioritized

LEMMA ReviewIs ==
    ASSUME NEW n \in Nat
    PROVE  /\ Review(n).id = <<"adaptive_tool_review", n>> /\ Review(n).id[2] = n
           /\ Review(n).id \in GeneratedIds /\ Review(n).priority = 3
BY DEF Review, NewRule, GeneratedIds

(* A policy that has not been applied brings an id no rule has.            *)
LEMMA InstallGrows ==
    ASSUME Grown, applied \subseteq Nat, NEW n \in Nat, n \notin applied,
           engine' = Installed(engine, <<Review(n)>>), applied' = applied \cup {n}
    PROVE  Grown'
<1> DEFINE N == Len(OperatorRules)
           S == ToSet(OperatorRules) \cup Learned
<1>1. N \in Nat /\ Len(engine.rules) \in Nat /\ engine.rules \in Seq(S) /\ Review(n) \in S
  BY OperatorFacts DEF Grown, Prioritized, Learned
<1>2. Review(n).id \notin IdsOf(engine.rules)
  <2> SUFFICES ASSUME NEW i \in DOMAIN engine.rules PROVE engine.rules[i].id # Review(n).id
    BY DEF IdsOf
  <2>1. i \in 1 .. Len(engine.rules)
    BY <1>1
  <2>2. CASE i \in 1 .. N
    <3>1. engine.rules[i] = OperatorRules[i] /\ i \in DOMAIN OperatorRules
      BY <2>2, OperatorFacts DEF Grown, Prioritized
    <3> QED BY <3>1, OperatorFacts, ReviewIs
  <2>3. CASE i \notin 1 .. N
    <3>1. i \in N + 1 .. Len(engine.rules)
      BY <1>1, <2>1, <2>3
    <3>2. PICK m \in applied : engine.rules[i] = Review(m)
      BY <3>1 DEF Grown
    <3>3. Review(m).id[2] = m /\ Review(n).id[2] = n /\ m # n
      BY <3>2, ReviewIs
    <3> QED BY <3>2, <3>3
  <2> QED BY <2>2, <2>3
<1>3. engine'.rules = Append(engine.rules, Review(n))
  BY <1>2, InstalledOne
<1> DEFINE L == Len(engine.rules)
<1>4. /\ engine'.rules \in Seq(S) /\ Len(engine'.rules) = L + 1
      /\ engine'.rules[L + 1] = Review(n)
      /\ \A i \in 1 .. L : engine'.rules[i] = engine.rules[i]
  <2>1. PICK q \in Seq(S) : q = engine.rules
    BY <1>1, Zenon
  <2>2. PICK v \in S : v = Review(n)
    BY <1>1, Zenon
  <2> HIDE DEF S
  <2>3. /\ Append(q, v) \in Seq(S) /\ Len(Append(q, v)) = Len(q) + 1
        /\ Append(q, v)[Len(q) + 1] = v
        /\ \A i \in 1 .. Len(q) : Append(q, v)[i] = q[i]
    OBVIOUS
  <2>4. engine'.rules = Append(q, v)
    BY <1>3, <2>1, <2>2, Zenon
  <2> QED BY <2>1, <2>2, <2>3, <2>4, Zenon
<1>5. N <= L /\ \A i \in 1 .. N : i \in 1 .. L
  BY <1>1 DEF Grown
<1>6. \A i \in 1 .. N : engine'.rules[i] = OperatorRules[i]
  BY <1>4, <1>5 DEF Grown
<1>7. ASSUME NEW i \in N + 1 .. L + 1
      PROVE  \E m \in applied' : engine'.rules[i] = Review(m)
  <2>1. CASE i = L + 1
    BY <1>4, <2>1
  <2>2. CASE i # L + 1
    <3>1. i \in 1 .. L /\ i \in N + 1 .. L
      BY <1>1, <1>7, <2>2
    <3> QED BY <1>4, <3>1 DEF Grown
  <2> QED BY <2>1, <2>2
<1>8. N <= L + 1
  BY <1>1, <1>5
<1>9. ASSUME NEW i \in N + 1 .. L + 1, NEW j \in N + 1 .. L + 1,
             engine'.rules[i].id = engine'.rules[j].id
      PROVE  i = j
  <2>1. \A k \in N + 1 .. L + 1 : k # L + 1 =>
           /\ k \in 1 .. L /\ k \in N + 1 .. L /\ k \in DOMAIN engine.rules
           /\ engine'.rules[k] = engine.rules[k]
    BY <1>1, <1>4
  <2>2. \A k \in N + 1 .. L + 1 : k # L + 1 => engine'.rules[k].id # Review(n).id
    BY <1>2, <2>1 DEF IdsOf
  <2>3. engine'.rules[L + 1] = Review(n)
    BY <1>4
  <2>4. CASE i = L + 1 \/ j = L + 1
    BY <1>9, <2>2, <2>3, <2>4
  <2>5. CASE i # L + 1 /\ j # L + 1
    BY <1>9, <2>1, <2>5 DEF Grown
  <2> QED BY <2>4, <2>5
<1> QED BY <1>4, <1>6, <1>7, <1>8, <1>9 DEF Grown

LEMMA GrownInit == Init => PendingReviews /\ Grown
<1> SUFFICES ASSUME Init PROVE PendingReviews /\ Grown
  OBVIOUS
<1>1. engine.rules = OperatorRules /\ pending = {}
  BY DEF Init, NewEngine
<1>2. OperatorRules \in Seq(ToSet(OperatorRules) \cup Learned) /\ Len(OperatorRules) \in Nat
  BY OperatorFacts
<1> QED BY <1>1, <1>2 DEF PendingReviews, Grown

LEMMA GrownStep ==
    /\ TypeOK /\ PolicyAccounting /\ PendingReviews /\ Grown
    /\ TypeOK' /\ MemoryHoldsAllows' /\ [Next]_vars
    => PendingReviews' /\ Grown'
<1> SUFFICES ASSUME TypeOK, PolicyAccounting, PendingReviews, Grown,
                    TypeOK', MemoryHoldsAllows', [Next]_vars
             PROVE  PendingReviews' /\ Grown'
  OBVIOUS
<1>1. decisionCount \in Nat /\ applied \subseteq 1 .. decisionCount
      /\ \A p \in pending : p.id \in 1 .. decisionCount
  BY DEF TypeOK
<1>2. applied \subseteq Nat /\ \A p \in pending : p.id \in Nat
  BY <1>1
<1>3. ASSUME UNCHANGED <<engine, applied>> PROVE Grown'
  BY <1>3 DEF Grown
<1>4. ASSUME NEW r, RecordDecision(r) PROVE PendingReviews' /\ Grown'
  <2>1. Proposal(r) \in {<<>>, <<Review(decisionCount + 1)>>}
    <3>1. Remembered(r) = memory' /\ memory' \in Seq(MemoryRecord)
      BY <1>4 DEF RecordDecision, TypeOK
    <3> QED BY <3>1, AllowsTeachReview DEF Proposal, MemoryHoldsAllows
  <2>2. PendingReviews'
    <3>1. \A p \in Proposed(r) : p.rules = <<Review(p.id)>>
      BY <2>1 DEF Proposed, PendingReviews
    <3>2. pending' = Proposed(r) \/ pending' = {}
      BY <1>4, RecordingPolicies
    <3> QED BY <3>1, <3>2 DEF PendingReviews
  <2>3. GeneratePolicy(r)
    BY <1>4 DEF RecordDecision
  <2>4. CASE UNCHANGED <<engine, applied>>
    BY <1>3, <2>2, <2>4
  <2>5. CASE ~ UNCHANGED <<engine, applied>>
    <3>1. /\ Proposal(r) = <<Review(decisionCount + 1)>>
          /\ engine' = Installed(engine, Proposal(r))
          /\ applied' = applied \cup {decisionCount + 1}
      BY <2>1, <2>3, <2>5 DEF GeneratePolicy
    <3>2. decisionCount + 1 \in Nat /\ decisionCount + 1 \notin applied
      BY <1>1
    <3> QED BY <1>2, <2>2, <3>1, <3>2, InstallGrows
  <2> QED BY <2>4, <2>5
<1>5. ASSUME NEW p \in pending, Approve(p) PROVE PendingReviews' /\ Grown'
  <2>1. p.id \in Nat /\ p.id \notin applied /\ p.rules = <<Review(p.id)>>
    BY <1>2 DEF PolicyAccounting, PendingReviews
  <2>2. PendingReviews'
    BY <1>5 DEF Approve, PendingReviews
  <2> QED BY <1>2, <1>5, <2>1, <2>2, InstallGrows DEF Approve
<1>6. ASSUME NEW p \in pending, Reject(p) PROVE PendingReviews' /\ Grown'
  BY <1>3, <1>6 DEF Reject, PendingReviews
<1>7. CASE UNCHANGED policyVars
  BY <1>3, <1>7 DEF policyVars, PendingReviews
<1>8. CASE \/ \E p \in Prompts, g \in GlobalRisks, ml \in MLAnswers,
                 risky \in BOOLEAN : EvaluatePrompt(p, g, ml, risky)
           \/ \E c \in ToolCalls, g \in GlobalRisks, ml \in MLAnswers :
                 EvaluateToolCall(c, g, ml)
  BY <1>4, <1>7, <1>8, EvaluationCases DEF EarlyReturn
<1> QED BY <1>5, <1>6, <1>7, <1>8 DEF Next, Label, Suppress, Elapse, vars

LEMMA ListGrows == Spec => [](PendingReviews /\ Grown)
BY GrownInit, GrownStep, TypeCorrect, PoliciesAccounted, MemoryOfAllows, PTL DEF Spec

(* The rule list is the operator's rules, in their places, and after them  *)
(* rules of applied policies, each once: nothing that is pending or was    *)
(* rejected is in force (PolicyApplier).                                   *)
THEOREM OperatorFirst == Spec => []OperatorFirstThenApplied
<1>1. TypeOK /\ Grown => OperatorFirstThenApplied
  <2> SUFFICES ASSUME TypeOK, Grown PROVE OperatorFirstThenApplied
    OBVIOUS
  <2> DEFINE N == Len(OperatorRules)
             L == Len(engine.rules)
  <2>1. /\ N \in Nat /\ L \in Nat /\ N <= L
        /\ DOMAIN OperatorRules = 1 .. N /\ DOMAIN engine.rules = 1 .. L
    BY OperatorFacts DEF Grown, Prioritized
  <2>2. IsPrefix(OperatorRules, engine.rules)
    <3>1. OperatorRules \in Seq(ToSet(OperatorRules))
      BY OperatorFacts
    <3>2. \A i \in 1 .. N : engine.rules[i] = OperatorRules[i]
      BY DEF Grown
    <3>3. SubSeq(engine.rules, 1, N) = OperatorRules
      <4>1. SubSeq(engine.rules, 1, N) = [i \in 1 .. N |-> engine.rules[i]]
        BY <2>1 DEF Grown
      <4>2. OperatorRules = [i \in 1 .. N |-> OperatorRules[i]]
        BY <3>1
      <4> QED BY <3>2, <4>1, <4>2
    <3>4. SubSeq(OperatorRules, 1, N) = OperatorRules
      <4>1. SubSeq(OperatorRules, 1, N) = [i \in 1 .. N |-> OperatorRules[i]]
        BY <2>1, <3>1
      <4>2. OperatorRules = [i \in 1 .. N |-> OperatorRules[i]]
        BY <3>1
      <4> QED BY <4>1, <4>2
    <3> QED BY <2>1, <3>3, <3>4 DEF IsPrefix
  <2>3. ASSUME NEW i \in N + 1 .. L
        PROVE  engine.rules[i].id[2] \in applied
    <3>1. PICK n \in applied : engine.rules[i] = Review(n)
      BY <2>3 DEF Grown
    <3>2. n \in Nat
      BY DEF TypeOK
    <3> QED BY <3>1, <3>2, ReviewIs
  <2> QED BY <2>2, <2>3 DEF Grown, OperatorFirstThenApplied
<1> QED BY <1>1, TypeCorrect, ListGrows, PTL

(* A rule of the operator of priority 3 or more goes on deciding what it   *)
(* decided at start: what is learned ranks no higher and comes later       *)
(* (RulesEngine.evaluate over the rules _apply_rules appends).             *)
THEOREM OperatorPrevails == Spec => []OperatorRulesPrevail
<1>1. TypeOK /\ Grown => OperatorRulesPrevail
  <2> SUFFICES ASSUME TypeOK, Grown, NEW request \in Prompts \cup ToolCalls,
                      Evaluate(OperatorRules, request) # NoRule,
                      Evaluate(OperatorRules, request).priority >= 3
               PROVE  Evaluate(engine.rules, request) = Evaluate(OperatorRules, request)
    BY DEF OperatorRulesPrevail
  <2> DEFINE N == Len(OperatorRules)
             T == Applicable(OperatorRules, request)
             U == Applicable(engine.rules, request)
  <2>1. /\ N \in Nat /\ DOMAIN OperatorRules = 1 .. N
        /\ engine.rules \in Seq(ToSet(OperatorRules) \cup Learned)
        /\ Len(engine.rules) \in Nat /\ DOMAIN engine.rules = 1 .. Len(engine.rules)
    BY OperatorFacts DEF Grown, Prioritized
  <2>2. \A i \in 1 .. N : engine.rules[i] = OperatorRules[i] /\ i \in 1 .. Len(engine.rules)
    BY <2>1 DEF Grown
  <2>3. ASSUME NEW i \in 1 .. Len(engine.rules), i \notin 1 .. N
        PROVE  i > N /\ engine.rules[i].priority = 3
    <3>1. i \in N + 1 .. Len(engine.rules) /\ i > N
      BY <2>1, <2>3
    <3>2. PICK n \in applied : engine.rules[i] = Review(n)
      BY <3>1 DEF Grown
    <3>3. n \in Nat
      BY DEF TypeOK
    <3> QED BY <3>1, <3>2, <3>3, ReviewIs
  <2>4. Prioritized(engine.rules)
    <3>1. ASSUME NEW i \in 1 .. Len(engine.rules) PROVE engine.rules[i].priority \in Int
      BY <2>1, <2>2, <2>3, OperatorFacts DEF Prioritized
    <3> QED BY <2>1, <3>1 DEF Prioritized
  <2>5. T # {} /\ T \in SUBSET (DOMAIN OperatorRules)
    BY DEF Evaluate, Applicable
  <2>6. PICK i \in T : \A j \in T : Precedes(OperatorRules, i, j)
    BY <2>5, OperatorFacts, FirstExists
  <2>7. Evaluate(OperatorRules, request) = OperatorRules[i]
    BY <2>6, OperatorFacts, EvaluateIs
  <2>8. i \in 1 .. N /\ engine.rules[i] = OperatorRules[i] /\ i \in U
        /\ engine.rules[i].priority \in Int /\ engine.rules[i].priority >= 3
    <3>1. i \in 1 .. N
      BY <2>1, <2>5
    <3>2. i \in U
      BY <2>1, <2>2, <3>1 DEF Applicable
    <3>3. engine.rules[i].priority \in Int
      BY <2>1, <2>2, <2>4, <3>1 DEF Prioritized
    <3> QED BY <2>2, <2>7, <3>1, <3>2, <3>3
  <2>9. ASSUME NEW j \in U PROVE Precedes(engine.rules, i, j)
    <3>1. j \in 1 .. Len(engine.rules)
      BY <2>1 DEF Applicable
    <3>2. CASE j \in 1 .. N
      <4>1. engine.rules[j] = OperatorRules[j]
        BY <2>2, <3>2
      <4>2. j \in T
        BY <2>1, <3>2, <4>1 DEF Applicable
      <4> QED BY <2>6, <2>8, <4>1, <4>2 DEF Precedes
    <3>3. CASE j \notin 1 .. N
      <4>1. j > N /\ engine.rules[j].priority = 3
        BY <2>3, <3>1, <3>3
      <4>2. i <= j
        BY <2>1, <2>8, <3>1, <4>1
      <4> QED BY <2>8, <4>1, <4>2 DEF Precedes
    <3> QED BY <3>2, <3>3
  <2> QED BY <2>4, <2>7, <2>8, <2>9, EvaluateIs
<1> QED BY <1>1, TypeCorrect, ListGrows, PTL

==============================================================================
