------------------------------- MODULE MCAlerts -------------------------------
(* Small instances of Alerts: two rules of one name, and one that divides   *)
(* by the number of events that are not blocks.                             *)
EXTENDS Alerts, TLC

Names == "any" :> "blocks" @@ "bad" :> "blocks" @@ "ratio" :> "ratio"
Contexts == (0 .. MaxEvents) \X (0 .. MaxEvents)
Conditions ==
    "any"   :> [x \in Contexts |-> IF x[1] + x[2] >= 1 THEN "true" ELSE "false"] @@
    "bad"   :> [x \in Contexts |-> IF x[1] >= 1 THEN "true" ELSE "false"] @@
    "ratio" :> [x \in Contexts |-> IF x[2] = 0 THEN "raises"
                                   ELSE IF x[1] >= x[2] THEN "true" ELSE "false"]
Cooldowns == "any" :> 2 @@ "bad" :> 1 @@ "ratio" :> 2
Levels == "any" :> 0 @@ "bad" :> 2 @@ "ratio" :> 1
Routes == "any" :> <<"pagerduty", "email">> @@ "bad" :> <<"email">>
          @@ "ratio" :> <<"email", "pagerduty">>
MinLevels == "email" :> 2 @@ "pagerduty" :> 0

==============================================================================
