-------------------------- MODULE MCStorage_threads --------------------------
(* Two threads of one process, which is started again, and what becomes of  *)
(* the webhooks that they create.                                           *)
EXTENDS Storage, TLC

VARIABLE losses  \* history: how webhooks were lost whose creation was answered

OneProcess == "a1" :> "p1" @@ "a2" :> "p1"

Webhooks ==
    {[kind |-> "create_webhook", id |-> id, value |-> "new"] : id \in {"w1", "w2", "w3"}}

Missing == {op \in Operations : answer[op] = "true" /\ Found(file, op.id) = {}}

(* When all threads are done after the first start a webhook may be missing *)
(* (a race), or a start may make one missing that was there.                *)
Losing ==
    LET raced == starts' = 1 /\ Busy' = {} /\ Missing' # {}
        wiped == starts' # starts /\ Busy = {} /\ Missing' \ Missing # {}
    IN  losses' = losses \cup (IF raced THEN {"race"} ELSE {})
                         \cup (IF wiped THEN {"start"} ELSE {})

ThreadsSpec == Init /\ losses = {} /\ [][Next /\ Losing]_<<vars, losses>>

(* storage.py:4: "thread-safe operations"; storage_base.py:22: initialize   *)
(* creates tables "if needed".  What was created stays, for nothing deletes *)
(* or trims here: threads may lose it, or else a start may, but the code is *)
(* not at odds with both sentences.                                         *)
CreatedStays == losses # {"race", "start"}

==============================================================================
