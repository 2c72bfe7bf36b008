------------------------------ MODULE TaskLedger ------------------------------
(***************************************************************************)
(* What the task queue of hestia/queue.py promises, without saying how: a  *)
(* task enters the queue at most once, is taken at most once, never comes  *)
(* back, and is not lost while it waits in the queue.  Nothing is promised *)
(* about a task once it is taken: delivery is at most once.                *)
(***************************************************************************)
CONSTANTS Tasks

VARIABLES status   \* where each task is

Statuses == {"new", "queued", "taken", "over"}

Init == status = [t \in Tasks |-> "new"]

(* The queue now holds the task.                                           *)
Accept(t) ==
    /\ status[t] = "new"
    /\ status' = [status EXCEPT ![t] = "queued"]

(* An executor takes the task out of the queue, or from its caller.        *)
Take(t) ==
    /\ status[t] \in {"new", "queued"}
    /\ status' = [status EXCEPT ![t] = "taken"]

(* Tasks that are finished, refused, or lost with the process that had     *)
(* them.                                                                   *)
End(S) ==
    /\ \A t \in S : status[t] \in {"new", "taken"}
    /\ status' = [t \in Tasks |-> IF t \in S THEN "over" ELSE status[t]]

Next ==
    \/ \E t \in Tasks : Accept(t) \/ Take(t)
    \/ \E S \in SUBSET Tasks : End(S)

Spec == Init /\ [][Next]_status

==============================================================================
