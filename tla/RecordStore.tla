----------------------------- MODULE RecordStore -----------------------------
(***************************************************************************)
(* What StorageBackend (hestia/storage_base.py) promises of one kind of    *)
(* record: a table from ids to values, on which the operations take effect *)
(* one at a time.  A store may be damaged, and then promises nothing; it   *)
(* may lose an operation that has not answered.                            *)
(***************************************************************************)
EXTENDS StorageBackend, Integers, FiniteSets

CONSTANTS Operations,  \* the calls: records of a kind, an id and a value
          LogKept      \* the least number of entries a full log keeps

VARIABLES table,       \* the records
          answer,      \* what each call returned
          intact       \* the store has not been damaged

vars == <<table, answer, intact>>

Answers == {"none", "true", "false", "error", "lost"}

Empty == [id \in {} |-> "none"]

With(op) == [id \in DOMAIN table \cup {op.id} |->
               IF id = op.id THEN op.value ELSE table[id]]

Without(ids) == [id \in DOMAIN table \ ids |-> table[id]]

Present(op) == op.id \in DOMAIN table

Repeated(kind) ==
    \E o, q \in Operations : o # q /\ o.kind = kind /\ q.kind = kind /\ o.id = q.id

(* A log may forget entries, but keeps LogKept of them, which are those of *)
(* as many ids unless the callers repeat ids.                              *)
Logged(op) ==
    \E gone \in SUBSET DOMAIN table :
        /\ \/ gone = {} \/ Repeated(op.kind)
           \/ Cardinality(DOMAIN table \ gone) + 1 >= LogKept
        /\ table' = [id \in (DOMAIN table \ gone) \cup {op.id} |->
                       IF id = op.id THEN op.value ELSE table[id]]

(* The effect of a call, with its answer.  A record created with an id     *)
(* that is there already is not found.                                     *)
Effect(op, reply) ==
    \/ /\ op.kind \in Creating
       /\ table' = IF Present(op) THEN table ELSE With(op)
       /\ reply = "true"
    \/ /\ op.kind = "create_tenant"
       /\ IF Present(op) THEN table' = table /\ reply = "error"
          ELSE table' = With(op) /\ reply = "true"
    \/ /\ op.kind \in Logging
       /\ Logged(op) /\ reply = "true"
    \/ /\ op.kind \in Updating
       /\ IF Present(op) THEN table' = With(op) /\ reply = "true"
          ELSE table' = table /\ reply = "false"
    \/ /\ op.kind = "revoke_api_key"
       /\ IF Present(op) THEN table' = With([op EXCEPT !.value = "revoked"]) /\ reply = "true"
          ELSE table' = table /\ reply = "false"
    \/ /\ op.kind = "validate_api_key"
       /\ table' = table
       /\ reply = IF Present(op) /\ table[op.id] # "revoked" THEN "true" ELSE "false"
    \/ /\ op.kind = "delete_webhook"
       /\ table' = Without({op.id})
       /\ reply = IF Present(op) THEN "true" ELSE "false"
    \/ (* A deleted webhook may be found, and even restored.  *)
       /\ op.kind \in {"update_webhook", "delete_webhook"} /\ ~Present(op)
       /\ table' = IF Restores(op) THEN With(op) ELSE table
       /\ reply = "true"
    \/ /\ op.kind = "update_daily_stats"
       /\ table' = With(op) /\ reply = "true"
    \/ /\ op.kind \in Reading
       /\ table' = table
       /\ reply = IF Present(op) THEN "true" ELSE "false"

Do(op) ==
    /\ intact = TRUE /\ intact' = TRUE
    /\ answer[op] = "none"
    /\ \E reply \in Answers : /\ answer' = [answer EXCEPT ![op] = reply]
                              /\ Effect(op, reply)

Lose ==
    /\ intact = TRUE /\ intact' = TRUE
    /\ table' = table
    /\ answer' \in [Operations -> Answers]
    /\ \A op \in Operations : \/ answer'[op] = answer[op]
                              \/ answer[op] = "none" /\ answer'[op] = "lost"

Damage ==
    /\ intact' = FALSE
    /\ table' = Empty
    /\ answer' \in [Operations -> Answers]

Init == table = Empty /\ answer = [op \in Operations |-> "none"] /\ intact = TRUE

Next == (\E op \in Operations : Do(op)) \/ Lose \/ Damage

Spec == Init /\ [][Next]_vars

==============================================================================
