----------------------------- MODULE MCGuard_open -----------------------------
(* The guards with a history of the ways in which an action of an agent was  *)
(* let through unevaluated, although its guard blocks on errors.             *)
EXTENDS MCGuard

VARIABLE opened

ThreePrompts == "c1" :> 3 @@ "c2" :> 1 @@ "c3" :> 1

openVars == <<vars, opened>>

(* What lets a request pass unevaluated, for a client that has a token.      *)
Causes(token) ==
    {cause \in {"unreachable", "early", "expired"} :
        \/ cause = "unreachable" /\ server # "up"
        \/ cause = "early" /\ server = "up" /\ now < token + offset
        \/ cause = "expired" /\ server = "up" /\ Expired(token)}

(* The calls that this step lets an action of theirs pass unevaluated.       *)
LetThrough ==
    {c \in Calls : /\ GuardOf[c] \in BlockOnError
                   /\ call[c].phase = "evaluating"
                   /\ call'[c].checked = call[c].checked
                   /\ call'[c].done > call[c].done
                   /\ call'[c].phase # "ignored"}

OpenInit == Init /\ opened = {}

OpenNext ==
    /\ Next
    /\ opened' = opened
          \cup UNION {Causes(call[c].token) : c \in LetThrough}
          \cup ({call'[c].phase : c \in Calls} \cap {"ignored"})

OpenSpec == OpenInit /\ [][OpenNext]_openVars

(* Every action of an agent is evaluated (callback.py:25, tool_guard.py:45   *)
(* of CrewAI, agent.py:4 of AutoGen), or blocked when that cannot be done    *)
(* (callback.py:40).  In one behaviour it is not while the server cannot be  *)
(* reached, while a new token is not yet valid, when a token has expired,    *)
(* and when a callback of LangChain raises.                                  *)
EveryActionEvaluated == opened # {"unreachable", "early", "expired", "ignored"}

===============================================================================
