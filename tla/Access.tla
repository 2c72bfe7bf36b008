-------------------------------- MODULE Access --------------------------------
(***************************************************************************)
(* Who may ask the API (hestia/auth.py, hestia/api.py): API keys, kept in  *)
(* the storage, are exchanged for signed tokens, which are valid by what   *)
(* is written in them.                                                     *)
(*                                                                         *)
(* An exchange takes several steps: validate_api_key reads the key and     *)
(* writes when it was used, create_token follows, the client hears of it   *)
(* later.  On the JSON files what is read and written is the whole list of *)
(* keys, so a copy that is written late makes a revoked key active again.  *)
(*                                                                         *)
(* create_token writes the local time into claims that are read as UTC:    *)
(* offset is what the server's clock shows ahead of UTC.                   *)
(***************************************************************************)
EXTENDS Integers

CONSTANTS
    Keys,        \* API keys, created before the behaviour begins
    Guards,      \* guards, each with a client of its own
    KeyOf,       \* the API key of each guard
    Calls,       \* uses of the guards
    GuardOf,
    Lifetime,    \* token_expiry_hours: 24 hours in the code
    Offsets,     \* offsets of the local time from UTC
    Postgres,    \* the keys are in PostgreSQL: they survive a start of the
                 \* server and are written one by one; else in a JSON file
    MaxTime,     \* bound: the time
    MaxOutages   \* bound: outages

Times == 0 .. MaxTime
Never == MaxTime + 1

ASSUME AccessAssumption ==
    /\ KeyOf \in [Guards -> Keys]
    /\ GuardOf \in [Calls -> Guards]
    /\ Lifetime \in Nat \ {0}
    /\ Offsets \subseteq Int
    /\ Postgres \in BOOLEAN
    /\ MaxTime \in Nat /\ MaxOutages \in Nat

VARIABLES
    now,
    offset,
    server,    \* "up", "cut" off from its clients, or "down"
    outages,
    active,    \* the keys whose record says is_active
    revoking,  \* for each key, the list a revocation of it has read, if any
    exchange,  \* what the server does about the token a call asked for
    endedAt    \* history: when each key had ended for good, see Ended

accessVars == <<now, offset, server, outages, active, revoking, exchange>>

(* A token is told from others by the time of its creation.                *)
NoToken == -1
Tokens == Times \cup {NoToken}

Idle == [phase |-> "none", list |-> {}, token |-> NoToken]

InitAccess ==
    /\ now = 0
    /\ offset \in Offsets
    /\ server = "up" /\ outages = 0
    /\ active = Keys
    /\ revoking = [k \in Keys |-> {}]
    /\ exchange = [c \in Calls |-> Idle]
    /\ endedAt = [k \in Keys |-> Never]

------------------------------------------------------------------------------
Expired(token) == now >= token + offset + Lifetime

(* validate_token: iat is not in the future, exp is.                       *)
Valid(token) == token + offset <= now /\ ~Expired(token)

KeyFor(c) == KeyOf[GuardOf[c]]

(* What an operation on the record of a key reads of the active keys.      *)
Copy(k) == IF Postgres THEN {k} ELSE active

(* What writing a copy of the list, less some keys, leaves active.         *)
Written(list, revoked) == (IF Postgres THEN active ELSE list) \ revoked

(* Some operation under way will make key active, or a token of it.        *)
InHand(key) ==
    \/ \E c \in Calls : /\ exchange[c].phase \in {"read", "lost"}
                        /\ key \in exchange[c].list
    \/ \E c \in Calls : exchange[c].phase = "valid" /\ KeyFor(c) = key
    \/ \E k \in Keys \ {key} : \E list \in revoking[k] : key \in list

(* A key has ended when it is not active and nothing under way revives it. *)
Ended(key) == key \notin active /\ ~InHand(key)

NoteEnds ==
    endedAt' = [k \in Keys |-> IF endedAt[k] = Never /\ Ended(k)' THEN now
                               ELSE endedAt[k]]

------------------------------------------------------------------------------
(* Fault: validate_api_key does not look at is_active.                     *)
LookAtAll(c) ==
    /\ server = "up" /\ exchange[c].phase = "none"
    /\ exchange' = [exchange EXCEPT ![c].phase = "read",
                                    ![c].list = Copy(KeyFor(c))]
    /\ UNCHANGED <<now, offset, server, outages, active, revoking>>

(* validate_api_key finds the key active.                                  *)
Look(c) ==
    /\ server = "up" /\ exchange[c].phase = "none"
    /\ KeyFor(c) \in active
    /\ exchange' = [exchange EXCEPT ![c].phase = "read",
                                    ![c].list = Copy(KeyFor(c))]
    /\ UNCHANGED <<now, offset, server, outages, active, revoking>>

(* It writes last_used, whether or not the client still waits.             *)
WriteUse(c) ==
    /\ server # "down" /\ exchange[c].phase \in {"read", "lost"}
    /\ active' = Written(exchange[c].list, {})
    /\ exchange' = [exchange EXCEPT
          ![c] = IF exchange[c].phase = "read" THEN [Idle EXCEPT !.phase = "valid"]
                 ELSE Idle]
    /\ UNCHANGED <<now, offset, server, outages, revoking>>

CreateToken(c) ==
    /\ server # "down" /\ exchange[c].phase = "valid"
    /\ exchange' = [exchange EXCEPT ![c].phase = "created", ![c].token = now]
    /\ UNCHANGED <<now, offset, server, outages, active, revoking>>

(* An exchange whose client has gone: the list is still written.           *)
Abandoned(c) ==
    IF exchange[c].phase \in {"read", "lost"}
    THEN [exchange[c] EXCEPT !.phase = "lost"]
    ELSE Idle

(* revoke_api_key, of an active key, by a program with the storage at hand *)
(* (the API has no route for it): it reads, then writes.                   *)
Revoke(k) ==
    /\ k \in active /\ revoking[k] = {}
    /\ revoking' = [revoking EXCEPT ![k] = {Copy(k)}]
    /\ UNCHANGED <<now, offset, server, outages, active, exchange>>

WriteRevoked(k) ==
    \E list \in revoking[k] :
        /\ active' = Written(list, {k})
        /\ revoking' = [revoking EXCEPT ![k] = {}]
        /\ UNCHANGED <<now, offset, server, outages, exchange>>

------------------------------------------------------------------------------
(* The network fails, or the server stops with all it was doing.           *)
Outage ==
    /\ server = "up" /\ outages < MaxOutages
    /\ outages' = outages + 1
    /\ \/ server' = "cut" /\ UNCHANGED exchange
       \/ server' = "down" /\ exchange' = [c \in Calls |-> Idle]
    /\ UNCHANGED <<now, offset, active, revoking>>

(* The server is reachable again.  If it was down it runs startup_event,   *)
(* which initializes the storage: the JSON files lose their keys.  The     *)
(* signing secret comes from the environment, so old tokens stay valid.    *)
Recovery ==
    /\ server # "up" /\ server' = "up"
    /\ active' = IF server = "down" /\ ~Postgres THEN {} ELSE active
    /\ UNCHANGED <<now, offset, outages, revoking, exchange>>

Tick ==
    /\ now < MaxTime
    /\ now' = now + 1
    /\ UNCHANGED <<offset, server, outages, active, revoking, exchange>>

==============================================================================
