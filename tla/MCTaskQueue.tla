----------------------------- MODULE MCTaskQueue -----------------------------
(* A small instance of TaskQueue: a webhook, and a task that a caller named *)
(* after a queue, so that it does reach a polled key.                       *)
EXTENDS TaskQueue

MCTasks == {"hook", "own"}
OneTask == {"hook"}

MCTypeOf == [t \in Tasks |-> IF t = "hook" THEN "webhook_delivery" ELSE "webhooks"]

MCPriorityOf == [t \in Tasks |-> 10]

==============================================================================
