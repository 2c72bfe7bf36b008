------------------------------ MODULE Classifier ------------------------------
(***************************************************************************)
(* TextClassifier.classify of hestia/classifier.py over the set of its     *)
(* keywords that a prompt contains.  Risk levels are their position in     *)
(* _RISK_ORDER (decision_engine.py), scores are in hundredths.             *)
(***************************************************************************)
EXTENDS Integers

Low == 1
Medium == 2
High == 3
Critical == 4

RiskLevels == Low .. Critical

(* The keyword table of __init__.                                          *)
Keywords == [critical |-> {"delete all", "rm -rf", "drop table", "format disk",
                           "destroy database", "wipe", "purge all"},
             high     |-> {"bypass security", "disable firewall",
                           "escalate privileges", "exploit", "injection",
                           "credential theft", "backdoor"},
             medium   |-> {"script", "automation", "batch", "mass", "bulk"}]

AllKeywords == Keywords.critical \cup Keywords.high \cup Keywords.medium

(* The shorter lists that classify compares the triggered keywords with:   *)
(* only these decide the level.                                            *)
Deciding == [critical |-> {"rm -rf", "delete all", "drop table", "format disk"},
             high     |-> {"bypass security", "exploit", "injection"},
             medium   |-> {"script", "automation", "batch"}]

Classify(text) ==
    LET triggered == text \cap AllKeywords
    IN  IF triggered \cap Deciding.critical # {} THEN Critical
        ELSE IF triggered \cap Deciding.high # {} THEN High
        ELSE IF triggered \cap Deciding.medium # {} THEN Medium
        ELSE Low

Score(text) ==
    CASE Classify(text) = Critical -> 95
      [] Classify(text) = High     -> 75
      [] Classify(text) = Medium   -> 50
      [] OTHER                     -> 10

==============================================================================
