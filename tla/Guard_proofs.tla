----------------------------- MODULE Guard_proofs -----------------------------
(* What the guards let pass, for any guards, calls, keys and clocks.         *)
EXTENDS Guard, TLAPS

Phases == {"next", "token", "evaluating", "ran", "ignored", "blocked"}
CallState == [phase : Phases, token : Tokens, done : Nat, checked : Nat]

ExchangePhases == {"none", "read", "lost", "valid", "created"}
Exchange == [phase : ExchangePhases, list : SUBSET Keys, token : Tokens]

(* A call that is not over has items left.                                 *)
ItemsLeft ==
    \A c \in Calls : call[c].phase \in {"next", "token", "evaluating"}
                     => call[c].done < Items[c]

(* A token was created in the past, and before its key had ended.          *)
Bought(token, g) ==
    /\ token \in Times
    /\ token <= now /\ token <= endedAt[KeyOf[g]]

(* The same of the next state.                                             *)
BoughtNext(token, g) ==
    /\ token \in Times
    /\ token <= now' /\ token <= endedAt'[KeyOf[g]]

TokensBought ==
    /\ \A g \in Guards : cached[g] # NoToken => Bought(cached[g], g)
    /\ \A c \in Calls : exchange[c].phase = "created"
                        => Bought(exchange[c].token, GuardOf[c])
    /\ \A c \in Calls : call[c].phase = "evaluating"
                        => /\ Bought(call[c].token, GuardOf[c])
                           /\ Client(c) # NoToken

(* What has ended stays so.                                                *)
EndIsFinal == \A k \in Keys : endedAt[k] # Never => Ended(k)

(* Who found its key active has it in the list.                            *)
OwnListed ==
    \A c \in Calls : exchange[c].phase = "read" => KeyFor(c) \in exchange[c].list

IInv == TypeOK /\ ItemsLeft /\ TokensBought /\ UncheckedNeedsToken /\ EndIsFinal
        /\ OwnListed

USE AccessAssumption, GuardAssumption

------------------------------------------------------------------------------
(* The initial states satisfy the invariant.                               *)
LEMMA InitInv == Init => IInv
<1> SUFFICES ASSUME Init PROVE IInv
  OBVIOUS
<1>1. TypeOK
  BY DEF Init, InitAccess, Idle, TypeOK, Times, Never, Tokens, NoToken
<1>2. ItemsLeft /\ TokensBought /\ UncheckedNeedsToken /\ EndIsFinal /\ OwnListed
  BY DEF Init, InitAccess, Idle, ItemsLeft, TokensBought, UncheckedNeedsToken,
         EndIsFinal, OwnListed, NoToken
<1>3. QED
  BY <1>1, <1>2 DEF IInv

(* The types of the parts of the state.                                    *)
LEMMA Types ==
    ASSUME TypeOK
    PROVE  /\ now \in Times /\ now \in Nat /\ now < Never /\ Never \in Nat
           /\ offset \in Int /\ active \subseteq Keys
           /\ revoking \in [Keys -> SUBSET SUBSET Keys]
           /\ exchange \in [Calls -> Exchange]
           /\ endedAt \in [Keys -> Times \cup {Never}]
           /\ cached \in [Guards -> Tokens] /\ call \in [Calls -> CallState]
           /\ \A c \in Calls : GuardOf[c] \in Guards /\ KeyFor(c) \in Keys
           /\ \A c \in Calls : Items[c] \in Nat /\ call[c].done <= Items[c]
BY DEF TypeOK, Times, Never, Exchange, ExchangePhases, CallState, Phases, KeyFor

(* What an exchange can become.                                            *)
LEMMA ExchangeEdited ==
    ASSUME NEW x \in Exchange, NEW ph \in ExchangePhases, NEW l \in SUBSET Keys,
           NEW t \in Tokens
    PROVE  /\ [x EXCEPT !.phase = ph] \in Exchange
           /\ [x EXCEPT !.phase = ph].phase = ph
           /\ [x EXCEPT !.phase = ph].list = x.list
           /\ [x EXCEPT !.phase = ph, !.list = l] \in Exchange
           /\ [x EXCEPT !.phase = ph, !.list = l].phase = ph
           /\ [x EXCEPT !.phase = ph, !.list = l].list = l
           /\ [x EXCEPT !.phase = ph, !.token = t] \in Exchange
           /\ [x EXCEPT !.phase = ph, !.token = t].phase = ph
           /\ [x EXCEPT !.phase = ph, !.token = t].list = x.list
           /\ [x EXCEPT !.phase = ph, !.token = t].token = t
BY DEF Exchange

LEMMA IdleIs ==
    /\ Idle \in Exchange /\ Idle.phase = "none"
    /\ [Idle EXCEPT !.phase = "valid"] \in Exchange
    /\ [Idle EXCEPT !.phase = "valid"].phase = "valid"
BY DEF Idle, Exchange, ExchangePhases, Tokens

(* What a step has to do for the invariant to hold after it: a key that    *)
(* has ended stays so, a token is created for a call whose key was found   *)
(* active, kept by a client for whose call it was created, and sent by a   *)
(* call of that client; a call that is not over has items left, and none   *)
(* passes unchecked but where the invariant allows it.                     *)
LEMMA Noted ==
    ASSUME IInv, NoteEnds,
           now' \in Times, now <= now', offset' = offset,
           server' \in {"up", "cut", "down"}, outages' \in 0 .. MaxOutages,
           active' \subseteq Keys, revoking' \in [Keys -> SUBSET SUBSET Keys],
           exchange' \in [Calls -> Exchange], cached' \in [Guards -> Tokens],
           \A k \in Keys : Ended(k) => Ended(k)', OwnListed',
           call' \in [Calls -> CallState],
           \A c \in Calls : call'[c].done <= Items[c],
           \A c \in Calls :
              \/ call'[c] = call[c]
              \/ call'[c].phase \in {"ran", "ignored", "blocked"}
              \/ call'[c].phase \in {"next", "token"} /\ call'[c].done < Items[c]
              \/ /\ call'[c].phase = "evaluating" /\ call'[c].done < Items[c]
                 /\ call'[c].token # NoToken
                 /\ call'[c].token = cached'[GuardOf[c]],
           \A g \in Guards :
              \/ cached'[g] = cached[g]
              \/ \E c \in Calls : /\ exchange[c].phase = "created" /\ GuardOf[c] = g
                                  /\ cached'[g] = exchange[c].token,
           \A c \in Calls :
              exchange'[c].phase = "created"
              => \/ exchange'[c] = exchange[c]
                 \/ /\ exchange'[c].token = now
                    /\ exchange[c].phase = "valid",
           \A c \in Calls :
              /\ GuardOf[c] \in BlockOnError \ Handlers
              /\ call'[c].checked < call'[c].done
              => \/ call[c].checked < call[c].done
                 \/ Client(c) # NoToken
    PROVE  IInv'
<1>1. TypeOK
  BY DEF IInv
<1>2. /\ endedAt' \in [Keys -> Times \cup {Never}]
      /\ \A k \in Keys : \/ endedAt'[k] = endedAt[k]
                         \/ endedAt[k] = Never /\ endedAt'[k] = now /\ Ended(k)'
  <2>1. endedAt' = [k \in Keys |-> IF endedAt[k] = Never /\ Ended(k)' THEN now
                                   ELSE endedAt[k]]
    BY DEF NoteEnds
  <2>2. endedAt \in [Keys -> Times \cup {Never}] /\ now \in Times
    BY <1>1, Types
  <2>3. ASSUME NEW k \in Keys
        PROVE  /\ endedAt'[k] \in Times \cup {Never}
               /\ \/ endedAt'[k] = endedAt[k]
                  \/ endedAt[k] = Never /\ endedAt'[k] = now /\ Ended(k)'
    <3>1. CASE endedAt[k] = Never /\ Ended(k)'
      BY <2>1, <2>2, <3>1
    <3>2. CASE ~(endedAt[k] = Never /\ Ended(k)')
      BY <2>1, <2>2, <3>2
    <3>3. QED
      BY <3>1, <3>2
  <2>4. QED
    BY <2>1, <2>3
<1>3. TypeOK'
  BY <1>1, <1>2 DEF TypeOK, Exchange, ExchangePhases, CallState, Phases
<1>4. ItemsLeft'
  BY DEF IInv, ItemsLeft
<1>5. EndIsFinal'
  <2>1. \A k \in Keys : endedAt[k] # Never => Ended(k)
    BY DEF IInv, EndIsFinal
  <2>2. ASSUME NEW k \in Keys, endedAt'[k] # Never PROVE Ended(k)'
    BY <1>2, <2>1, <2>2
  <2>3. (\A k \in Keys : endedAt[k] # Never => Ended(k))'
    BY <2>2 DEF Never
  <2>4. QED
    BY <2>3 DEF EndIsFinal
<1>6. ASSUME NEW g \in Guards, NEW token, Bought(token, g) PROVE BoughtNext(token, g)
  <2>1. KeyOf[g] \in Keys
    OBVIOUS
  <2>2. /\ endedAt[KeyOf[g]] \in Nat /\ endedAt'[KeyOf[g]] \in Nat
        /\ token \in Nat /\ now \in Nat /\ now' \in Nat
    BY <1>1, <1>2, <1>6, <2>1, Types DEF Bought, Times
  <2>3. QED
    BY <1>2, <1>6, <2>1, <2>2 DEF Bought, BoughtNext
<1>7. \A g \in Guards : cached'[g] # NoToken => BoughtNext(cached'[g], g)
  <2>1. ASSUME NEW g \in Guards, cached'[g] # NoToken PROVE Bought(cached'[g], g)
    BY <2>1 DEF IInv, TokensBought
  <2>2. QED
    BY <1>6, <2>1
<1>8. ASSUME NEW c \in Calls, exchange'[c].phase = "created"
      PROVE  BoughtNext(exchange'[c].token, GuardOf[c])
  <2>1. CASE exchange'[c] = exchange[c]
    <3>1. Bought(exchange[c].token, GuardOf[c]) /\ GuardOf[c] \in Guards
      BY <1>1, <1>8, <2>1, Types DEF IInv, TokensBought
    <3>2. QED
      BY <1>6, <2>1, <3>1
  <2>2. CASE exchange'[c].token = now /\ exchange[c].phase = "valid"
    <3>1. KeyFor(c) \in Keys /\ InHand(KeyFor(c))
      BY <1>1, <2>2, Types DEF InHand
    <3>2. endedAt[KeyFor(c)] = Never
      BY <3>1 DEF IInv, EndIsFinal, Ended
    <3>3. Bought(now, GuardOf[c])
      BY <1>1, <3>2, Types DEF Bought, KeyFor
    <3>4. QED
      BY <1>1, <1>6, <2>2, <3>3, Types
  <2>3. QED
    BY <1>8, <2>1, <2>2
<1>9. ASSUME NEW c \in Calls, call'[c].phase = "evaluating"
      PROVE  BoughtNext(call'[c].token, GuardOf[c]) /\ cached'[GuardOf[c]] # NoToken
  <2>0. GuardOf[c] \in Guards /\ NoToken \notin Times
    BY <1>1, Types DEF Times, NoToken
  <2>1. CASE call'[c] = call[c]
    <3>1. Bought(call[c].token, GuardOf[c]) /\ cached[GuardOf[c]] # NoToken
      BY <1>9, <2>1 DEF IInv, TokensBought, Client
    <3>2. cached'[GuardOf[c]] # NoToken
      BY <2>0, <3>1 DEF IInv, TokensBought, Bought
    <3>3. QED
      BY <1>6, <2>0, <2>1, <3>1, <3>2
  <2>2. CASE call'[c].token = cached'[GuardOf[c]] /\ call'[c].token # NoToken
    BY <1>7, <2>0, <2>2
  <2>3. QED
    BY <1>9, <2>1, <2>2
<1>10. TokensBought'
  BY <1>7, <1>8, <1>9 DEF TokensBought, Bought, BoughtNext, Client
<1>11. UncheckedNeedsToken'
  <2>1. ASSUME NEW c \in Calls, GuardOf[c] \in BlockOnError \ Handlers,
               call'[c].checked < call'[c].done
        PROVE  cached'[GuardOf[c]] # NoToken
    <3>1. GuardOf[c] \in Guards /\ NoToken \notin Times
      BY <1>1, Types DEF Times, NoToken
    <3>2. cached[GuardOf[c]] # NoToken
      BY <2>1 DEF IInv, UncheckedNeedsToken, Client
    <3>3. QED
      BY <3>1, <3>2 DEF IInv, TokensBought, Bought
  <2>2. QED
    BY <2>1 DEF UncheckedNeedsToken, Client
<1>12. QED
  BY <1>3, <1>4, <1>5, <1>10, <1>11 DEF IInv

------------------------------------------------------------------------------
(* A key that has ended stays so if nothing that reads it or a list with   *)
(* it is under way after the step.                                         *)
LEMMA StaysEnded ==
    ASSUME NEW k \in Keys, k \notin active',
           \A c \in Calls : exchange'[c].phase \in {"read", "lost"}
                            => k \notin exchange'[c].list,
           \A c \in Calls : exchange'[c].phase = "valid" => KeyFor(c) # k,
           \A j \in Keys \ {k} : \A list \in revoking'[j] : k \notin list
    PROVE  Ended(k)'
BY DEF Ended, InHand, KeyFor

(* What it means to have ended.                                            *)
LEMMA EndedMeans ==
    ASSUME NEW k \in Keys, Ended(k)
    PROVE  /\ k \notin active
           /\ \A c \in Calls : exchange[c].phase \in {"read", "lost"}
                               => k \notin exchange[c].list
           /\ \A c \in Calls : exchange[c].phase = "valid" => KeyFor(c) # k
           /\ \A j \in Keys \ {k} : \A list \in revoking[j] : k \notin list
BY DEF Ended, InHand

(* A step that edits the exchange of one call and leaves active keys and   *)
(* revocations alone: what it leaves of the exchange brings no key back.   *)
LEMMA ExchangeSteps ==
    ASSUME TypeOK, OwnListed, NEW c \in Calls, NEW x \in Exchange,
           exchange' = [exchange EXCEPT ![c] = x],
           active' = active, revoking' = revoking,
           \/ x.phase \in {"none", "created"}
           \/ x.phase = "lost" /\ exchange[c].phase \in {"read", "lost"}
              /\ x.list = exchange[c].list
           \/ x.phase = "read" /\ KeyFor(c) \in active /\ x.list = Copy(KeyFor(c))
    PROVE  /\ exchange' \in [Calls -> Exchange]
           /\ OwnListed'
           /\ \A k \in Keys : Ended(k) => Ended(k)'
<1>1. /\ exchange' \in [Calls -> Exchange] /\ exchange'[c] = x
      /\ \A d \in Calls : d # c => exchange'[d] = exchange[d]
  BY Types
<1>2. OwnListed'
  BY <1>1 DEF OwnListed, Copy, KeyFor
<1>3. ASSUME NEW k \in Keys, Ended(k) PROVE Ended(k)'
  <2>1. x.phase = "read" => k \notin x.list
    BY <1>3, EndedMeans DEF Copy
  <2>2. \A d \in Calls : exchange'[d].phase \in {"read", "lost"}
                         => k \notin exchange'[d].list
    BY <1>1, <1>3, <2>1, EndedMeans
  <2>3. \A d \in Calls : exchange'[d].phase = "valid" => KeyFor(d) # k
    BY <1>1, <1>3, EndedMeans
  <2>4. QED
    BY <1>3, <2>2, <2>3, EndedMeans, StaysEnded
<1>4. QED
  BY <1>1, <1>2, <1>3

(* What the client gives up the server may go on with.                     *)
LEMMA AbandonedIs ==
    ASSUME TypeOK, NEW c \in Calls
    PROVE  /\ Abandoned(c) \in Exchange
           /\ \/ Abandoned(c).phase = "none"
              \/ /\ Abandoned(c).phase = "lost"
                 /\ exchange[c].phase \in {"read", "lost"}
                 /\ Abandoned(c).list = exchange[c].list
<1>1. exchange[c] \in Exchange
  BY Types
<1>2. CASE exchange[c].phase \in {"read", "lost"}
  <2>1. Abandoned(c) = [exchange[c] EXCEPT !.phase = "lost"]
    BY <1>2 DEF Abandoned
  <2>2. QED
    BY <1>1, <1>2, <2>1 DEF Exchange, ExchangePhases
<1>3. CASE exchange[c].phase \notin {"read", "lost"}
  BY <1>3, IdleIs DEF Abandoned
<1>4. QED
  BY <1>2, <1>3

(* What the end of an item makes of a call.                                *)
LEMMA PassedIs ==
    ASSUME NEW c \in Calls, NEW checked \in {0, 1}, call[c] \in CallState
    PROVE  /\ Passed(c, checked).checked = call[c].checked + checked
           /\ Passed(c, checked).done = call[c].done + 1
           /\ Passed(c, checked).phase =
                  IF call[c].done + 1 = Items[c] THEN "ran" ELSE "next"
           /\ Passed(c, checked) \in CallState
<1> DEFINE phase == IF call[c].done + 1 = Items[c] THEN "ran" ELSE "next"
<1>1. Passed(c, checked) = [phase |-> phase, token |-> NoToken,
                            done |-> call[c].done + 1,
                            checked |-> call[c].checked + checked]
  BY DEF Passed, Finished
<1>2. phase \in Phases /\ NoToken \in Tokens
      /\ call[c].done + 1 \in Nat /\ call[c].checked + checked \in Nat
  BY DEF Phases, Tokens, CallState
<1> HIDE DEF phase
<1>3. QED
  BY <1>1, <1>2 DEF CallState, phase

LEMMA BlockedIs ==
    ASSUME NEW c \in Calls, NEW checked \in {0, 1}, call[c] \in CallState
    PROVE  /\ Blocked(c, checked).checked = call[c].checked + checked
           /\ \/ /\ GuardOf[c] \in Handlers
                 /\ Blocked(c, checked).done = Items[c]
                 /\ Blocked(c, checked).phase = "ignored"
              \/ /\ GuardOf[c] \notin Handlers
                 /\ Blocked(c, checked).done = call[c].done
                 /\ Blocked(c, checked).phase = "blocked"
           /\ Blocked(c, checked) \in CallState
<1>1. /\ "blocked" \in Phases /\ "ignored" \in Phases /\ NoToken \in Tokens
      /\ call[c].done \in Nat /\ call[c].checked + checked \in Nat /\ Items[c] \in Nat
  BY DEF Phases, Tokens, CallState
<1>2. CASE GuardOf[c] \in Handlers
  <2>1. Blocked(c, checked) = [phase |-> "ignored", token |-> NoToken,
                               done |-> Items[c],
                               checked |-> call[c].checked + checked]
    BY <1>2 DEF Blocked, Finished
  <2>2. QED
    BY <1>1, <1>2, <2>1 DEF CallState
<1>3. CASE GuardOf[c] \notin Handlers
  <2>1. Blocked(c, checked) = [phase |-> "blocked", token |-> NoToken,
                               done |-> call[c].done,
                               checked |-> call[c].checked + checked]
    BY <1>3 DEF Blocked, Finished
  <2>2. QED
    BY <1>1, <1>3, <2>1 DEF CallState
<1>4. QED
  BY <1>2, <1>3

(* An item ends: it passes, or the call is blocked.  An item passes        *)
(* unchecked only if block_on_error is off or the client has a token.      *)
LEMMA ItemEnds ==
    ASSUME IInv, NoteEnds, NEW c \in Calls, NEW checked \in {0, 1},
           call[c].phase \in {"token", "evaluating"},
           UNCHANGED <<now, offset, server, outages, active, revoking, cached>>,
           \/ exchange' = exchange
           \/ exchange' = [exchange EXCEPT ![c] = Abandoned(c)],
           \/ /\ call' = [call EXCEPT ![c] = Passed(c, checked)]
              /\ \/ checked = 1
                 \/ GuardOf[c] \notin BlockOnError
                 \/ Client(c) # NoToken
           \/ call' = [call EXCEPT ![c] = Blocked(c, checked)]
    PROVE  IInv'
<1>0. TypeOK /\ OwnListed
  BY DEF IInv
<1>1. /\ call[c] \in CallState /\ call \in [Calls -> CallState]
      /\ call[c].done \in Nat /\ call[c].checked \in Nat
      /\ call[c].done < Items[c] /\ Items[c] \in Nat
      /\ \A d \in Calls : call[d].done <= Items[d]
  BY <1>0, Types DEF IInv, ItemsLeft, CallState
<1>2. /\ call' \in [Calls -> CallState]
      /\ \A d \in Calls : d # c => call'[d] = call[d]
      /\ call'[c].done <= Items[c]
      /\ \/ call'[c].phase \in {"ran", "ignored", "blocked"}
         \/ call'[c].phase = "next" /\ call'[c].done < Items[c]
      /\ (/\ GuardOf[c] \in BlockOnError \ Handlers
          /\ call'[c].checked < call'[c].done)
         => \/ call[c].checked < call[c].done
            \/ Client(c) # NoToken
  <2>1. CASE call' = [call EXCEPT ![c] = Blocked(c, checked)]
    <3>1. call'[c] = Blocked(c, checked) /\ call' \in [Calls -> CallState]
      BY <1>1, <2>1, BlockedIs
    <3>2. /\ \A d \in Calls : d # c => call'[d] = call[d]
          /\ call'[c].checked = call[c].checked + checked
          /\ \/ /\ GuardOf[c] \in Handlers
                /\ call'[c].done = Items[c] /\ call'[c].phase = "ignored"
             \/ call'[c].done = call[c].done /\ call'[c].phase = "blocked"
      BY <1>1, <2>1, <3>1, BlockedIs
    <3>3. QED
      BY <1>1, <3>1, <3>2
  <2>2. CASE /\ call' = [call EXCEPT ![c] = Passed(c, checked)]
             /\ \/ checked = 1
                \/ GuardOf[c] \notin BlockOnError
                \/ Client(c) # NoToken
    <3>1. call'[c] = Passed(c, checked) /\ call' \in [Calls -> CallState]
      BY <1>1, <2>2, PassedIs
    <3>2. /\ \A d \in Calls : d # c => call'[d] = call[d]
          /\ call'[c].checked = call[c].checked + checked
          /\ call'[c].done = call[c].done + 1
          /\ call'[c].phase = IF call[c].done + 1 = Items[c] THEN "ran" ELSE "next"
      BY <1>1, <2>2, <3>1, PassedIs
    <3>3. call[c].done + 1 < Items[c] \/ call[c].done + 1 = Items[c]
      BY <1>1
    <3>4. QED
      BY <1>1, <2>2, <3>1, <3>2, <3>3
  <2>3. QED
    BY <2>1, <2>2
<1>3. /\ exchange' \in [Calls -> Exchange] /\ OwnListed'
      /\ \A k \in Keys : Ended(k) => Ended(k)'
      /\ \A d \in Calls : exchange'[d].phase = "created" => exchange'[d] = exchange[d]
  <2>1. CASE exchange' = exchange
    BY <1>0, <2>1, Types DEF OwnListed, KeyFor, Ended, InHand
  <2>2. CASE exchange' = [exchange EXCEPT ![c] = Abandoned(c)]
    <3>1. /\ exchange' \in [Calls -> Exchange] /\ OwnListed'
          /\ \A k \in Keys : Ended(k) => Ended(k)'
      BY <1>0, <2>2, AbandonedIs, ExchangeSteps
    <3>2. ASSUME NEW d \in Calls, exchange'[d].phase = "created"
          PROVE  exchange'[d] = exchange[d]
      BY <1>0, <2>2, <3>2, AbandonedIs, Types
    <3>3. QED
      BY <3>1, <3>2
  <2>3. QED
    BY <2>1, <2>2
<1>4. now' \in Times /\ now <= now' /\ server' \in {"up", "cut", "down"}
      /\ outages' \in 0 .. MaxOutages /\ active' \subseteq Keys
      /\ revoking' \in [Keys -> SUBSET SUBSET Keys] /\ cached' \in [Guards -> Tokens]
  BY <1>0, Types DEF TypeOK
<1>5. QED
  BY <1>1, <1>2, <1>3, <1>4, Noted

(* A step of a call that is not the end of an item, or of the server or of *)
(* time: what is left alone keeps its type and its bounds.                 *)
LEMMA LeftAlone ==
    ASSUME IInv
    PROVE  /\ now \in Times /\ now <= now /\ server \in {"up", "cut", "down"}
           /\ outages \in 0 .. MaxOutages /\ active \subseteq Keys
           /\ revoking \in [Keys -> SUBSET SUBSET Keys]
           /\ exchange \in [Calls -> Exchange] /\ cached \in [Guards -> Tokens]
           /\ call \in [Calls -> CallState]
           /\ \A c \in Calls : call[c].done <= Items[c]
           /\ TypeOK /\ OwnListed
BY Types DEF IInv, TypeOK, Times

LEMMA SkipInv == ASSUME IInv, NoteEnds, NEW c \in Calls, Skip(c) PROVE IInv'
<1>1. /\ call' \in [Calls -> CallState] /\ call'[c].phase = "ran"
      /\ \A d \in Calls : /\ d # c => call'[d] = call[d]
                          /\ call'[d].done = call[d].done
                          /\ call'[d].checked = call[d].checked
  BY LeftAlone DEF Skip, CallState, Phases
<1>2. UNCHANGED <<accessVars, cached>>
  BY DEF Skip
<1>3. OwnListed' /\ \A k \in Keys : Ended(k) => Ended(k)'
  BY <1>2, LeftAlone DEF accessVars, OwnListed, KeyFor, Ended, InHand
<1>4. QED
  BY <1>1, <1>2, <1>3, LeftAlone, Noted DEF accessVars

LEMMA AskInv == ASSUME IInv, NoteEnds, NEW c \in Calls, Ask(c) PROVE IInv'
<1>0. GuardOf[c] \in Guards /\ Client(c) \in Tokens /\ call[c] \in CallState
      /\ call[c].done < Items[c]
  BY LeftAlone DEF IInv, ItemsLeft, Ask, Client
<1> DEFINE ph == IF Client(c) = NoToken THEN "token" ELSE "evaluating"
           r == [call[c] EXCEPT !.phase = ph, !.token = Client(c)]
<1>1. /\ call' = [call EXCEPT ![c] = r]
      /\ r \in CallState /\ r.done = call[c].done /\ r.checked = call[c].checked
      /\ r.phase = ph /\ r.token = Client(c)
  BY <1>0, LeftAlone DEF Ask, CallState, Phases
<1> HIDE DEF r
<1>2. /\ call' \in [Calls -> CallState] /\ call'[c] = r
      /\ \A d \in Calls : /\ d # c => call'[d] = call[d]
                          /\ call'[d].done = call[d].done
                          /\ call'[d].checked = call[d].checked
  BY <1>1, LeftAlone
<1>3. UNCHANGED <<accessVars, cached>>
  BY DEF Ask
<1>4. OwnListed' /\ \A k \in Keys : Ended(k) => Ended(k)'
  BY <1>3, LeftAlone DEF accessVars, OwnListed, KeyFor, Ended, InHand
<1>5. \/ call'[c].phase = "token" /\ call'[c].done < Items[c]
      \/ /\ call'[c].phase = "evaluating" /\ call'[c].done < Items[c]
         /\ call'[c].token # NoToken /\ call'[c].token = cached'[GuardOf[c]]
  BY <1>0, <1>1, <1>2, <1>3 DEF Client
<1>6. QED
  BY <1>2, <1>3, <1>4, <1>5, LeftAlone, Noted DEF accessVars

LEMMA ReceivedInv == ASSUME IInv, NoteEnds, NEW c \in Calls, TokenReceived(c) PROVE IInv'
<1>0. /\ GuardOf[c] \in Guards /\ call[c] \in CallState /\ call[c].done < Items[c]
      /\ exchange[c].token \in Tokens /\ exchange[c].token # NoToken
      /\ exchange[c].phase = "created"
  BY LeftAlone DEF IInv, ItemsLeft, TokenReceived, TokensBought, Bought, Times, Exchange,
                   NoToken
<1> DEFINE token == exchange[c].token
           r == [call[c] EXCEPT !.phase = "evaluating", !.token = token]
<1>1. /\ call' = [call EXCEPT ![c] = r]
      /\ r \in CallState /\ r.done = call[c].done /\ r.checked = call[c].checked
      /\ r.phase = "evaluating" /\ r.token = token
  BY <1>0, LeftAlone DEF TokenReceived, CallState, Phases
<1> HIDE DEF r
<1>2. /\ call' \in [Calls -> CallState] /\ call'[c] = r
      /\ \A d \in Calls : /\ d # c => call'[d] = call[d]
                          /\ call'[d].done = call[d].done
                          /\ call'[d].checked = call[d].checked
  BY <1>1, LeftAlone
<1>3. /\ cached' \in [Guards -> Tokens] /\ cached'[GuardOf[c]] = token
      /\ \A g \in Guards : g # GuardOf[c] => cached'[g] = cached[g]
  BY <1>0, LeftAlone DEF TokenReceived
<1>4. /\ exchange' = [exchange EXCEPT ![c] = Idle]
      /\ UNCHANGED <<now, offset, server, outages, active, revoking>>
  BY DEF TokenReceived
<1>5. /\ exchange' \in [Calls -> Exchange] /\ OwnListed'
      /\ \A k \in Keys : Ended(k) => Ended(k)'
  BY <1>4, IdleIs, LeftAlone, ExchangeSteps
<1>6. \A d \in Calls : exchange'[d].phase = "created" => exchange'[d] = exchange[d]
  BY <1>4, IdleIs, LeftAlone
<1>7. /\ call'[c].phase = "evaluating" /\ call'[c].done < Items[c]
      /\ call'[c].token # NoToken /\ call'[c].token = cached'[GuardOf[c]]
  BY <1>0, <1>1, <1>2, <1>3
<1>8. \A g \in Guards :
          \/ cached'[g] = cached[g]
          \/ \E d \in Calls : /\ exchange[d].phase = "created" /\ GuardOf[d] = g
                              /\ cached'[g] = exchange[d].token
  BY <1>0, <1>3
<1>9. \A d \in Calls :
          \/ call'[d] = call[d]
          \/ /\ call'[d].phase = "evaluating" /\ call'[d].done < Items[d]
             /\ call'[d].token # NoToken /\ call'[d].token = cached'[GuardOf[d]]
  BY <1>2, <1>7
<1> HIDE DEF token
<1>10. QED
  BY <1>2, <1>3, <1>4, <1>5, <1>6, <1>8, <1>9, LeftAlone, Noted

(* A step of the server, of a revocation or of the environment: the calls  *)
(* and the clients' tokens are left alone.                                 *)
LEMMA ServerStep ==
    ASSUME IInv, NoteEnds, UNCHANGED <<cached, call, offset>>,
           now' \in Times, now <= now',
           server' \in {"up", "cut", "down"}, outages' \in 0 .. MaxOutages,
           active' \subseteq Keys, revoking' \in [Keys -> SUBSET SUBSET Keys],
           exchange' \in [Calls -> Exchange], OwnListed',
           \A k \in Keys : Ended(k) => Ended(k)',
           \A c \in Calls :
              exchange'[c].phase = "created"
              => \/ exchange'[c] = exchange[c]
                 \/ exchange'[c].token = now /\ exchange[c].phase = "valid"
    PROVE  IInv'
BY LeftAlone, Noted

LEMMA LookInv ==
    ASSUME IInv, NoteEnds, NEW c \in Calls, Look(c), UNCHANGED <<cached, call>>
    PROVE  IInv'
<1> DEFINE x == [exchange[c] EXCEPT !.phase = "read", !.list = Copy(KeyFor(c))]
<1>1. Copy(KeyFor(c)) \in SUBSET Keys /\ KeyFor(c) \in active
  BY LeftAlone DEF Copy, Look, KeyFor
<1>2. /\ exchange' = [exchange EXCEPT ![c] = x] /\ x \in Exchange
      /\ x.phase = "read" /\ x.list = Copy(KeyFor(c))
      /\ UNCHANGED <<now, offset, server, outages, active, revoking>>
  <2>1. /\ exchange[c] \in Exchange /\ exchange \in [Calls -> Exchange]
        /\ "read" \in ExchangePhases
    BY LeftAlone DEF ExchangePhases
  <2>2. x \in Exchange /\ x.phase = "read" /\ x.list = Copy(KeyFor(c))
    BY <1>1, <2>1, ExchangeEdited DEF Exchange
  <2>3. exchange' = [exchange EXCEPT ![c] = x]
    BY <2>1 DEF Look, Exchange
  <2>4. QED
    BY <2>2, <2>3 DEF Look
<1> HIDE DEF x
<1>3. /\ exchange' \in [Calls -> Exchange] /\ OwnListed'
      /\ \A k \in Keys : Ended(k) => Ended(k)'
  BY <1>1, <1>2, LeftAlone, ExchangeSteps
<1>4. \A d \in Calls : exchange'[d].phase = "created" => exchange'[d] = exchange[d]
  BY <1>2, LeftAlone
<1>5. QED
  BY <1>2, <1>3, <1>4, LeftAlone, ServerStep

LEMMA CreateInv ==
    ASSUME IInv, NoteEnds, NEW c \in Calls, CreateToken(c), UNCHANGED <<cached, call>>
    PROVE  IInv'
<1> DEFINE x == [exchange[c] EXCEPT !.phase = "created", !.token = now]
<1>1. /\ exchange' = [exchange EXCEPT ![c] = x] /\ x \in Exchange
      /\ x.phase = "created" /\ x.token = now /\ exchange[c].phase = "valid"
      /\ UNCHANGED <<now, offset, server, outages, active, revoking>>
  <2>1. /\ exchange[c] \in Exchange /\ exchange \in [Calls -> Exchange]
        /\ "created" \in ExchangePhases /\ now \in Tokens
    BY LeftAlone DEF ExchangePhases, Tokens
  <2>2. x \in Exchange /\ x.phase = "created" /\ x.token = now
    BY <2>1, ExchangeEdited DEF Exchange
  <2>3. exchange' = [exchange EXCEPT ![c] = x]
    BY <2>1 DEF CreateToken, Exchange
  <2>4. QED
    BY <2>2, <2>3 DEF CreateToken
<1> HIDE DEF x
<1>2. /\ exchange' \in [Calls -> Exchange] /\ OwnListed'
      /\ \A k \in Keys : Ended(k) => Ended(k)'
  BY <1>1, LeftAlone, ExchangeSteps
<1>3. \A d \in Calls :
          exchange'[d].phase = "created"
          => \/ exchange'[d] = exchange[d]
             \/ exchange'[d].token = now /\ exchange[d].phase = "valid"
  BY <1>1, LeftAlone
<1>4. QED
  BY <1>1, <1>2, <1>3, LeftAlone, ServerStep

LEMMA WriteUseInv ==
    ASSUME IInv, NoteEnds, NEW c \in Calls, WriteUse(c), UNCHANGED <<cached, call>>
    PROVE  IInv'
<1> DEFINE x == IF exchange[c].phase = "read" THEN [Idle EXCEPT !.phase = "valid"]
                ELSE Idle
<1>1. /\ exchange' = [exchange EXCEPT ![c] = x] /\ x \in Exchange
      /\ x.phase \in {"valid", "none"}
      /\ x.phase = "valid" => exchange[c].phase = "read"
      /\ exchange[c].phase \in {"read", "lost"}
      /\ active' = Written(exchange[c].list, {})
      /\ UNCHANGED <<now, offset, server, outages, revoking>>
  BY IdleIs DEF WriteUse
<1> HIDE DEF x
<1>2. /\ exchange' \in [Calls -> Exchange] /\ exchange'[c] = x
      /\ \A d \in Calls : d # c => exchange'[d] = exchange[d]
      /\ exchange[c].list \subseteq Keys
  BY <1>1, LeftAlone DEF Exchange
<1>3. OwnListed'
  BY <1>1, <1>2, LeftAlone DEF OwnListed, KeyFor
<1>4. active' \subseteq Keys
  BY <1>1, <1>2, LeftAlone DEF Written
<1>5. ASSUME NEW k \in Keys, Ended(k) PROVE Ended(k)'
  <2>1. k \notin exchange[c].list /\ k \notin active
    BY <1>1, <1>5, EndedMeans
  <2>2. k \notin active'
    BY <1>1, <2>1 DEF Written
  <2>3. exchange'[c].phase = "valid" => KeyFor(c) # k
    BY <1>1, <1>2, <2>1, LeftAlone DEF OwnListed
  <2>4. \A d \in Calls : exchange'[d].phase = "valid" => KeyFor(d) # k
    BY <1>2, <1>5, <2>3, EndedMeans
  <2>5. \A d \in Calls : exchange'[d].phase \in {"read", "lost"}
                         => k \notin exchange'[d].list
    BY <1>1, <1>2, <1>5, EndedMeans
  <2>6. \A j \in Keys \ {k} : \A list \in revoking'[j] : k \notin list
    BY <1>1, <1>5, EndedMeans
  <2>7. QED
    BY <2>2, <2>4, <2>5, <2>6, StaysEnded
<1>6. \A d \in Calls : exchange'[d].phase = "created" => exchange'[d] = exchange[d]
  BY <1>1, <1>2
<1>7. QED
  BY <1>1, <1>2, <1>3, <1>4, <1>5, <1>6, LeftAlone, ServerStep

LEMMA RevokeInv ==
    ASSUME IInv, NoteEnds, NEW key \in Keys, Revoke(key) \/ WriteRevoked(key),
           UNCHANGED <<cached, call>>
    PROVE  IInv'
<1>1. /\ UNCHANGED <<now, offset, server, outages, exchange>>
      /\ OwnListed'
  BY LeftAlone DEF Revoke, WriteRevoked, OwnListed, KeyFor
<1>2. CASE Revoke(key)
  <2>1. /\ revoking' = [revoking EXCEPT ![key] = {Copy(key)}] /\ active' = active
        /\ key \in active /\ Copy(key) \subseteq Keys
    BY <1>2, LeftAlone DEF Revoke, Copy
  <2>2. revoking' \in [Keys -> SUBSET SUBSET Keys]
    BY <2>1, LeftAlone
  <2>3. ASSUME NEW k \in Keys, Ended(k) PROVE Ended(k)'
    <3>1. k # key /\ k \notin Copy(key) /\ k \notin active
      BY <2>1, <2>3, EndedMeans DEF Copy
    <3>2. \A j \in Keys \ {k} : \A list \in revoking'[j] : k \notin list
      BY <2>1, <2>3, <3>1, LeftAlone, EndedMeans
    <3>3. QED
      BY <1>1, <2>1, <2>3, <3>1, <3>2, EndedMeans, StaysEnded
  <2>4. QED
    BY <1>1, <2>1, <2>2, <2>3, LeftAlone, ServerStep
<1>3. CASE WriteRevoked(key)
  <2>1. PICK list \in revoking[key] :
          /\ active' = Written(list, {key})
          /\ revoking' = [revoking EXCEPT ![key] = {}]
    BY <1>3 DEF WriteRevoked
  <2>2. list \subseteq Keys /\ active' \subseteq Keys
        /\ revoking' \in [Keys -> SUBSET SUBSET Keys]
    BY <2>1, LeftAlone DEF Written
  <2>3. ASSUME NEW k \in Keys, Ended(k) PROVE Ended(k)'
    <3>1. k \notin active /\ (k # key => k \notin list)
      BY <2>3, EndedMeans
    <3>2. k \notin active'
      BY <2>1, <3>1 DEF Written
    <3>3. \A j \in Keys \ {k} : \A l \in revoking'[j] : k \notin l
      BY <2>1, <2>3, LeftAlone, EndedMeans
    <3>4. QED
      BY <1>1, <2>3, <3>2, <3>3, EndedMeans, StaysEnded
  <2>4. QED
    BY <1>1, <2>2, <2>3, LeftAlone, ServerStep
<1>4. QED
  BY <1>2, <1>3

LEMMA EnvironmentInv ==
    ASSUME IInv, NoteEnds, Outage \/ Recovery \/ Tick, UNCHANGED <<cached, call>>
    PROVE  IInv'
<1>1. CASE Outage
  <2>1. /\ outages' \in 0 .. MaxOutages /\ server' \in {"up", "cut", "down"}
        /\ UNCHANGED <<now, offset, active, revoking>>
        /\ exchange' = exchange \/ exchange' = [c \in Calls |-> Idle]
    BY <1>1, LeftAlone DEF Outage
  <2>2. /\ exchange' \in [Calls -> Exchange]
        /\ \A c \in Calls : exchange'[c] = exchange[c] \/ exchange'[c].phase = "none"
    BY <2>1, LeftAlone, IdleIs
  <2>3. OwnListed'
    BY <2>2, LeftAlone DEF OwnListed, KeyFor
  <2>4. ASSUME NEW k \in Keys, Ended(k) PROVE Ended(k)'
    BY <2>1, <2>2, <2>4, EndedMeans, StaysEnded
  <2>5. QED
    BY <2>1, <2>2, <2>3, <2>4, LeftAlone, ServerStep
<1>2. CASE Recovery
  <2>1. /\ active' \subseteq active /\ server' = "up"
        /\ UNCHANGED <<now, offset, outages, revoking, exchange>>
    BY <1>2 DEF Recovery
  <2>2. OwnListed'
    BY <2>1, LeftAlone DEF OwnListed, KeyFor
  <2>3. ASSUME NEW k \in Keys, Ended(k) PROVE Ended(k)'
    BY <2>1, <2>3, EndedMeans, StaysEnded
  <2>4. QED
    BY <2>1, <2>2, <2>3, LeftAlone, ServerStep
<1>3. CASE Tick
  <2>1. /\ now' \in Times /\ now <= now'
        /\ UNCHANGED <<offset, server, outages, active, revoking, exchange>>
    BY <1>3, LeftAlone DEF Tick, Times
  <2>2. OwnListed' /\ \A k \in Keys : Ended(k) => Ended(k)'
    BY <2>1, LeftAlone DEF OwnListed, KeyFor, Ended, InHand
  <2>3. QED
    BY <2>1, <2>2, LeftAlone, ServerStep
<1>4. QED
  BY <1>1, <1>2, <1>3

------------------------------------------------------------------------------
(* Every step preserves the invariant.                                     *)
LEMMA StepInv == IInv /\ [Next]_vars => IInv'
<1> SUFFICES ASSUME IInv, [Next]_vars PROVE IInv'
  OBVIOUS
<1>1. ASSUME NoteEnds, NEW c \in Calls,
             Skip(c) \/ Ask(c) \/ TokenAsked(c) \/ TokenReceived(c)
      PROVE  IInv'
  BY <1>1, SkipInv, AskInv, LookInv, ReceivedInv DEF TokenAsked
<1>2. ASSUME NoteEnds, NEW c \in Calls, TokenRefused(c) \/ Broken(c) PROVE IInv'
  <2>1. CASE GuardOf[c] \in BlockOnError
    BY <1>2, <2>1, ItemEnds DEF TokenRefused, Broken, OnError, accessVars
  <2>2. CASE GuardOf[c] \notin BlockOnError
    BY <1>2, <2>2, ItemEnds DEF TokenRefused, Broken, OnError, accessVars
  <2>3. QED
    BY <2>1, <2>2
<1>3. ASSUME NoteEnds, NEW c \in Calls, Evaluated(c) PROVE IInv'
  <2>1. PICK allowed \in BOOLEAN :
          call' = [call EXCEPT ![c] =
              IF allowed \/ GuardOf[c] \notin Strict THEN Passed(c, 1)
              ELSE Blocked(c, 1)]
    BY <1>3 DEF Evaluated
  <2>2. \/ call' = [call EXCEPT ![c] = Passed(c, 1)]
        \/ call' = [call EXCEPT ![c] = Blocked(c, 1)]
    BY <2>1
  <2>3. QED
    BY <1>3, <2>2, ItemEnds DEF Evaluated, accessVars
<1>4. ASSUME NoteEnds, NEW c \in Calls, Refused(c) PROVE IInv'
  <2>1. Client(c) # NoToken
    BY <1>4 DEF Refused, IInv, TokensBought
  <2>2. QED
    BY <1>4, <2>1, ItemEnds DEF Refused, accessVars
<1>5. ASSUME NoteEnds, UNCHANGED <<cached, call>>,
             \/ \E c \in Calls : WriteUse(c) \/ CreateToken(c)
             \/ \E k \in Keys : Revoke(k) \/ WriteRevoked(k)
             \/ Outage \/ Recovery \/ Tick
      PROVE  IInv'
  BY <1>5, WriteUseInv, CreateInv, RevokeInv, EnvironmentInv
<1>6. CASE UNCHANGED vars
  BY <1>6 DEF vars, accessVars, IInv, TypeOK, ItemsLeft, TokensBought, Bought, Client,
              UncheckedNeedsToken, EndIsFinal, Ended, InHand, OwnListed, KeyFor
<1>7. QED
  BY <1>1, <1>2, <1>3, <1>4, <1>5, <1>6 DEF Next

(* The invariant holds in every state.                                     *)
LEMMA Invariance == Spec => []IInv
  BY InitInv, StepInv, PTL DEF Spec

------------------------------------------------------------------------------
(* The state is well formed, and no call passes more items than it has.    *)
THEOREM TypeCorrect == Spec => []TypeOK
<1>1. IInv => TypeOK
  BY DEF IInv
<1>2. QED
  BY Invariance, <1>1, PTL

(* Under block_on_error nothing passes unchecked before the client has a   *)
(* token, but for callbacks of LangChain.                                  *)
THEOREM UncheckedOnlyWithToken == Spec => []UncheckedNeedsToken
<1>1. IInv => UncheckedNeedsToken
  BY DEF IInv
<1>2. QED
  BY Invariance, <1>1, PTL

(* Only an evaluation by the API counts an item as checked.                *)
LEMMA CheckedByEvaluation ==
    ASSUME IInv, [Next]_vars, NEW c \in Calls, call'[c].checked # call[c].checked
    PROVE  Evaluated(c)
<1>0. call \in [Calls -> CallState]
  BY LeftAlone
<1>1. ASSUME NEW d \in Calls, Skip(d) \/ Ask(d) \/ TokenReceived(d) PROVE FALSE
  BY <1>0, <1>1, SMTT(30) DEF CallState, Skip, Ask, TokenReceived
<1>2. ASSUME NEW d \in Calls, TokenRefused(d) \/ Broken(d) \/ Refused(d) PROVE FALSE
  <2>1. call[d] \in CallState /\ call[d].checked + 0 = call[d].checked
    BY <1>0 DEF CallState
  <2>2. \/ call' = [call EXCEPT ![d] = Passed(d, 0)]
        \/ call' = [call EXCEPT ![d] = Blocked(d, 0)]
    BY <1>2 DEF TokenRefused, Broken, Refused, OnError
  <2>3. call'[d].checked = call[d].checked
    BY <1>0, <2>1, <2>2, PassedIs, BlockedIs
  <2>4. QED
    BY <1>0, <2>2, <2>3
<1>3. ASSUME NEW d \in Calls, Evaluated(d) PROVE Evaluated(c)
  BY <1>0, <1>3 DEF Evaluated
<1>4. CASE UNCHANGED call
  BY <1>4
<1>5. ASSUME NEW d \in Calls, TokenAsked(d) PROVE FALSE
  BY <1>5 DEF TokenAsked
<1>6. QED
  BY <1>1, <1>2, <1>3, <1>4, <1>5 DEF Next, vars

(* A key that has ended gives no access after the lifetime of a token: the *)
(* token of an evaluation was created before the end of its key.           *)
THEOREM RevocationTakesEffect == Spec => RevokedKeyExpires
<1>1. ASSUME IInv, [Next]_vars, NEW c \in Calls, call'[c].checked # call[c].checked
      PROVE  now < endedAt[KeyFor(c)] + Lifetime + offset
  <2>1. Evaluated(c)
    BY <1>1, CheckedByEvaluation
  <2>2. /\ Bought(call[c].token, GuardOf[c])
        /\ ~Expired(call[c].token)
    BY <1>1, <2>1 DEF Evaluated, Valid, IInv, TokensBought
  <2>3. /\ now \in Int /\ offset \in Int /\ call[c].token \in Int
        /\ endedAt[KeyFor(c)] \in Int
    BY <1>1, <2>2, LeftAlone, Types DEF Bought, Times, Never
  <2>4. QED
    BY <2>2, <2>3 DEF Bought, Expired, KeyFor
<1>2. IInv /\ [Next]_vars
      => [\A c \in Calls :
             call'[c].checked # call[c].checked
             => now < endedAt[KeyFor(c)] + Lifetime + offset]_vars
  BY <1>1
<1>3. QED
  BY Invariance, <1>2, PTL DEF Spec, RevokedKeyExpires

==============================================================================
