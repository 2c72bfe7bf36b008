------------------------------- MODULE Healing -------------------------------
(***************************************************************************)
(* The arithmetic of hestia/healing: the sliding window of HealthMonitor,  *)
(* the rates AutoRollback and AdaptiveThresholds read from it, and the     *)
(* block threshold they move.                                              *)
(*                                                                         *)
(* Units: rates and targets are in ten-thousandths (the code rounds rates  *)
(* to four digits), thresholds in hundredths (the code rounds them to two).*)
(***************************************************************************)
EXTENDS Integers, Sequences, FiniteSets

CONSTANTS
    WindowSize,    \* HESTIA_HEALING_WINDOW
    MinDecisions,  \* HESTIA_HEALING_MIN_DECISIONS, labelled decisions needed
    FPThreshold,   \* HESTIA_HEALING_FP_THRESHOLD, rollback above this rate
    FPTarget,      \* HESTIA_HEALING_FP_TARGET
    FNTarget,      \* HESTIA_HEALING_FN_TARGET
    Step           \* HESTIA_HEALING_STEP, in hundredths (the default is 50)

ASSUME HealingAssumption ==
    /\ WindowSize \in Nat \ {0}
    /\ MinDecisions \in Nat
    /\ {FPThreshold, FPTarget, FNTarget} \subseteq Nat
    /\ Step \in Nat \ {0}

(* The bounds DecisionEngine gives AdaptiveThresholds, and its first value. *)
MinThreshold == 100
MaxThreshold == 400
InitialThreshold == 300

Outcomes == {"allow", "block", "human_review"}
Unlabelled == "none"
Observation == [decision : Outcomes, expected : {"allow", "block", Unlabelled}]

(* A deque with maxlen: the oldest entry makes room for the newest.        *)
Pushed(s, e, limit) ==
    IF Len(s) < limit THEN Append(s, e) ELSE Append(Tail(s), e)

Labelled(w) == {i \in DOMAIN w : w[i].expected # Unlabelled}

FalsePositives(w) ==
    {i \in DOMAIN w : w[i].decision = "block" /\ w[i].expected = "allow"}

FalseNegatives(w) ==
    {i \in DOMAIN w : w[i].decision = "allow" /\ w[i].expected = "block"}

(* Python's round of a / b: a half goes to the even neighbour.             *)
Rounded(a, b) ==
    LET whole == a \div b
        rest  == a % b
    IN  IF 2 * rest > b \/ (2 * rest = b /\ whole % 2 = 1)
        THEN whole + 1 ELSE whole

(* round(count / total, 4), 0.0 when nothing is labelled.                  *)
Rate(part, whole) ==
    IF whole = {} THEN 0
    ELSE Rounded(10000 * Cardinality(part), Cardinality(whole))

FPRate(w) == Rate(FalsePositives(w), Labelled(w))
FNRate(w) == Rate(FalseNegatives(w), Labelled(w))

EnoughLabels(w) == Cardinality(Labelled(w)) >= MinDecisions

FPTooHigh(w) == 2 * FPRate(w) > 3 * FPTarget
FNTooHigh(w) == 2 * FNRate(w) > 3 * FNTarget

(* Fault: only the lower bound is enforced.                                *)
ClampedBelow(x) == IF x < MinThreshold THEN MinThreshold ELSE x

(* _adjust_thresholds: one step, clamped.                                  *)
Clamped(x) ==
    IF x < MinThreshold THEN MinThreshold
    ELSE IF x > MaxThreshold THEN MaxThreshold
    ELSE x

(* Fault: the lowering takes two steps.                                    *)
LoweredTwice(w, t) == IF FPTooHigh(w) THEN Clamped(t - 2 * Step) ELSE t

(* AdaptiveThresholds.tick: both corrections may apply, the lowering first. *)
Lowered(w, t) == IF FPTooHigh(w) THEN Clamped(t - Step) ELSE t

Adjusted(w, t) ==
    IF FNTooHigh(w) THEN Clamped(Lowered(w, t) + Step) ELSE Lowered(w, t)

(* set_heal_thresholds: int(round(raw)) clamped to the four risk levels.   *)
LevelOf(t) ==
    LET r == Rounded(t, 100)
    IN  IF r < 1 THEN 1 ELSE IF r > 4 THEN 4 ELSE r

==============================================================================
