-------------------------------- MODULE Guard ---------------------------------
(***************************************************************************)
(* The guards of LangChain, CrewAI and AutoGen (hestia/integrations): what *)
(* an agent is about to do is sent to the API first, through a client that *)
(* keeps the token of its API key.                                         *)
(*                                                                         *)
(* A call is one use of a guard: the wrapper of a tool, on_tool_start, the *)
(* guardrail of a task, on_llm_start with its prompts or on_messages with  *)
(* its messages.  Calls of one guard may run in several threads.           *)
(***************************************************************************)
EXTENDS Access

CONSTANTS
    Strict,        \* guards with strict = True
    BlockOnError,  \* guards with block_on_error = True
    Handlers,      \* guards that are callbacks of LangChain
    Items,         \* how many prompts, messages or tool inputs a call has
    Exempt         \* calls with nothing to evaluate: an excluded tool, a guard
                   \* that evaluates no tools or no prompts, an empty output

ASSUME GuardAssumption ==
    /\ Strict \subseteq Guards /\ BlockOnError \subseteq Guards
    /\ Handlers \subseteq Guards
    /\ Items \in [Calls -> Nat \ {0}]
    /\ Exempt \subseteq Calls

VARIABLES
    cached,  \* _token of the client of each guard
    call     \* each call: where it is, the token it sends, its items so far
             \* and those the API decided on

vars == <<accessVars, endedAt, cached, call>>

Init ==
    /\ InitAccess
    /\ cached = [g \in Guards |-> NoToken]
    /\ call = [c \in Calls |-> [phase |-> "next", token |-> NoToken,
                                done |-> 0, checked |-> 0]]

Client(c) == cached[GuardOf[c]]

------------------------------------------------------------------------------
(* The present item is over.                                               *)
Finished(c, phase, done, checked) ==
    [phase |-> phase, token |-> NoToken,
     done |-> done, checked |-> call[c].checked + checked]

(* Fault: one item more is awaited than there are.                         *)
PassedLate(c, checked) ==
    Finished(c, IF call[c].done = Items[c] THEN "ran" ELSE "next",
             call[c].done + 1, checked)

(* An item passes; after the last the agent goes on.                       *)
Passed(c, checked) ==
    Finished(c, IF call[c].done + 1 = Items[c] THEN "ran" ELSE "next",
             call[c].done + 1, checked)

(* HestiaSecurityError, or the guardrail's (False, message): the agent     *)
(* stops.  LangChain only logs what a callback raises that does not set    *)
(* raise_error, and goes on with what is left unevaluated.                 *)
Blocked(c, checked) ==
    IF GuardOf[c] \in Handlers THEN Finished(c, "ignored", Items[c], checked)
    ELSE Finished(c, "blocked", call[c].done, checked)

(* except Exception                                                        *)
OnError(c) ==
    IF GuardOf[c] \in BlockOnError THEN Blocked(c, 0) ELSE Passed(c, 0)

------------------------------------------------------------------------------
Skip(c) ==
    /\ c \in Exempt /\ call[c].phase = "next"
    /\ call' = [call EXCEPT ![c].phase = "ran"]
    /\ UNCHANGED <<accessVars, cached>>

(* _get_token, with a token in the cache or not.                           *)
Ask(c) ==
    /\ c \notin Exempt /\ call[c].phase = "next"
    /\ call' = [call EXCEPT
          ![c].phase = IF Client(c) = NoToken THEN "token" ELSE "evaluating",
          ![c].token = Client(c)]
    /\ UNCHANGED <<accessVars, cached>>

(* POST /v1/token: the server takes the request up.                        *)
TokenAsked(c) ==
    /\ call[c].phase = "token" /\ Look(c)
    /\ UNCHANGED <<cached, call>>

(* The answer comes, and the client keeps the token.                       *)
TokenReceived(c) ==
    /\ call[c].phase = "token"
    /\ server = "up" /\ exchange[c].phase = "created"
    /\ cached' = [cached EXCEPT ![GuardOf[c]] = exchange[c].token]
    /\ call' = [call EXCEPT ![c].phase = "evaluating", ![c].token = exchange[c].token]
    /\ exchange' = [exchange EXCEPT ![c] = Idle]
    /\ UNCHANGED <<now, offset, server, outages, active, revoking>>

(* Fault: a failure to get a token is answered like a failed evaluation.   *)
TokenRefusedOpen(c) ==
    /\ call[c].phase = "token" /\ exchange[c].phase \in {"none", "lost"}
    /\ server # "up" \/ KeyFor(c) \notin active
    /\ call' = [call EXCEPT ![c] = Passed(c, 0)]
    /\ UNCHANGED <<accessVars, cached>>

(* URLError: no connection, or status 401.  _get_token turns it into a     *)
(* ConnectionError.                                                        *)
TokenRefused(c) ==
    /\ call[c].phase = "token" /\ exchange[c].phase \in {"none", "lost"}
    /\ server # "up" \/ KeyFor(c) \notin active
    /\ call' = [call EXCEPT ![c] = OnError(c)]
    /\ UNCHANGED <<accessVars, cached>>

(* An error that is not a URLError: the answer does not come in time, the  *)
(* connection breaks after the request was sent, or the answer is not      *)
(* JSON.  It reaches the guard from either request.                        *)
Broken(c) ==
    /\ call[c].phase \in {"token", "evaluating"}
    /\ call' = [call EXCEPT ![c] = OnError(c)]
    /\ exchange' = [exchange EXCEPT ![c] = Abandoned(c)]
    /\ UNCHANGED <<now, offset, server, outages, active, revoking, cached>>

(* POST /v1/decision/evaluate or /v1/agent/tool-call/evaluate with a valid *)
(* token: the engine decides.                                              *)
Evaluated(c) ==
    /\ call[c].phase = "evaluating" /\ server = "up" /\ Valid(call[c].token)
    /\ \E allowed \in BOOLEAN :
          call' = [call EXCEPT ![c] =
              IF allowed \/ GuardOf[c] \notin Strict THEN Passed(c, 1)
              ELSE Blocked(c, 1)]
    /\ UNCHANGED <<accessVars, cached>>

(* URLError: no connection, or an error status, which is 401 for a token   *)
(* that is not valid, 422 for a request that does not fit and 500 for a    *)
(* failure of the API.  evaluate_prompt and evaluate_tool_call answer      *)
(* allowed = True.                                                         *)
Refused(c) ==
    /\ call[c].phase = "evaluating"
    /\ call' = [call EXCEPT ![c] = Passed(c, 0)]
    /\ UNCHANGED <<accessVars, cached>>

Next ==
    /\ \/ \E c \in Calls :
             \/ Skip(c) \/ Ask(c) \/ TokenAsked(c) \/ TokenReceived(c)
             \/ TokenRefused(c) \/ Broken(c) \/ Evaluated(c) \/ Refused(c)
       \/ /\ \/ \E c \in Calls : WriteUse(c) \/ CreateToken(c)
             \/ \E k \in Keys : Revoke(k) \/ WriteRevoked(k)
             \/ Outage \/ Recovery \/ Tick
          /\ UNCHANGED <<cached, call>>
    /\ NoteEnds

Spec == Init /\ [][Next]_vars

------------------------------------------------------------------------------
(* The shape of the state; no call passes more items than it has.          *)
TypeOK ==
    /\ now \in Times /\ offset \in Offsets /\ server \in {"up", "cut", "down"}
    /\ outages \in 0 .. MaxOutages
    /\ active \subseteq Keys
    /\ revoking \in [Keys -> SUBSET SUBSET Keys]
    /\ exchange \in [Calls -> [phase : {"none", "read", "lost", "valid", "created"},
                               list : SUBSET Keys, token : Tokens]]
    /\ endedAt \in [Keys -> Times \cup {Never}]
    /\ cached \in [Guards -> Tokens]
    /\ call \in [Calls -> [phase : {"next", "token", "evaluating",
                                    "ran", "ignored", "blocked"},
                           token : Tokens, done : Nat, checked : Nat]]
    /\ \A c \in Calls : call[c].done <= Items[c]

(* Under block_on_error nothing passes unchecked before the client has got *)
(* a token: what fails before that raises in _get_token.  What fails later *)
(* may not (Refused), and LangChain ignores what a callback raises.        *)
UncheckedNeedsToken ==
    \A c \in Calls :
        /\ GuardOf[c] \in BlockOnError \ Handlers
        /\ call[c].checked < call[c].done
        => Client(c) # NoToken

(* A key that was revoked, or lost with the storage, gives no access once  *)
(* the lifetime of the last token it bought is over, counted from its end  *)
(* and shifted by the offset of the server's clock.  It does give access   *)
(* until then (auth.py, validate_token).  A revocation is the end of a key *)
(* only when no operation is under way that read it before, see Ended.     *)
RevokedKeyExpires ==
    [][\A c \in Calls :
          call'[c].checked # call[c].checked
          => now < endedAt[KeyFor(c)] + Lifetime + offset]_vars

==============================================================================
