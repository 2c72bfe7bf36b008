------------------------------ MODULE TaskQueue ------------------------------
(***************************************************************************)
(* The task queue (hestia/queue.py, the queue_* functions of webhooks.py,  *)
(* hestia/worker.py): the coroutines of the API process that enqueue       *)
(* through one shared RedisQueue, Redis itself, and the workers that poll  *)
(* it.  Every await is a boundary between steps.                           *)
(*                                                                         *)
(* A worker runs in a process of its own or, when poll_loop is started as  *)
(* a background task of the API, shares that process's queue (get_queue)   *)
(* and dies with it.  The connection of a worker of its own process is not *)
(* modelled: it awaits its calls one after the other, so a call succeeds   *)
(* if Redis is up and is skipped if not, whatever it found before.         *)
(***************************************************************************)
EXTENDS Integers, Sequences

CONSTANTS
    Tasks,       \* tasks that are enqueued, each by a coroutine of its own
    TypeOf,      \* task_type of each task
    PriorityOf,  \* priority.value of each task: the score in Redis
    Workers,
    Embedded,    \* those that run in the API process
    MaxOutages,  \* bound: outages of Redis
    MaxCrashes   \* bound: crashes of the API process and of workers

NoTask == "none"   \* what a worker holds that holds no task

ASSUME QueueAssumption ==
    /\ NoTask \notin Tasks
    /\ TypeOf \in [Tasks -> STRING]
    /\ PriorityOf \in [Tasks -> {1, 5, 10}]
    /\ Embedded \subseteq Workers
    /\ MaxOutages \in Nat /\ MaxCrashes \in Nat

VARIABLES
    backend,      \* what get_queue() built: "redis" or "null"
    call,         \* where the coroutine of each task is in enqueue()
    answer,       \* what enqueue() returned for each task
    client,       \* RedisQueue._redis of the API process is set
    initialized,  \* RedisQueue._initialized of the API process
    redisUp,
    store,        \* the sorted set under each key of Redis
    written,      \* history: tasks that Redis ever stored
    worker,       \* each worker's place in poll_once, and the task it holds
    tries,        \* attempts of the handler at each task
    reached,      \* times each task took effect: POSTs received, rows stored
    outages, crashes

apiVars == <<backend, call, answer, client, initialized>>
redisVars == <<redisUp, store, written>>
handlerVars == <<tries, reached>>
faultVars == <<outages, crashes>>
vars == <<apiVars, redisVars, worker, handlerVars, faultVars>>

(* The task types with a handler (configure_queue, Worker.__init__) and the *)
(* queue names: QUEUE_CONFIG is looked up by the task type.                 *)
Handled == {"webhook_delivery", "audit_log", "event_persist"}
QueueNames == {"webhooks", "events", "audit"}
Keys == QueueNames \cup {"default"}

KeyOf(t) == IF TypeOf[t] \in QueueNames THEN TypeOf[t] ELSE "default"

(* The order in which poll_once visits the queues.                         *)
Polled == <<"webhooks", "events", "audit">>

(* Fault: one attempt too many.                                            *)
MaxTriesOneMore(t) == IF TypeOf[t] = "webhook_delivery" THEN 4 ELSE 2

(* A webhook is posted up to three times, a row is written once.           *)
MaxTries(t) == IF TypeOf[t] = "webhook_delivery" THEN 3 ELSE 1

AtStart == [phase |-> "polling", at |-> 1, task |-> NoTask, running |-> TRUE]
Crashed == [phase |-> "down", at |-> 1, task |-> NoTask, running |-> TRUE]

Init ==
    /\ backend \in {"redis", "null"}
    /\ call = [t \in Tasks |-> "idle"]
    /\ answer = [t \in Tasks |-> "none"]
    /\ client = FALSE /\ initialized = FALSE
    /\ redisUp = TRUE
    /\ store = [k \in Keys |-> {}]
    /\ written = {}
    /\ worker = [w \in Workers |-> AtStart]
    /\ tries = [t \in Tasks |-> 0]
    /\ reached = [t \in Tasks |-> 0]
    /\ outages = 0 /\ crashes = 0

------------------------------------------------------------------------------
(* enqueue() in the API process.                                           *)

Goto(t, phase) == call' = [call EXCEPT ![t] = phase]

Return(t, result) ==
    /\ Goto(t, "done")
    /\ answer' = [answer EXCEPT ![t] = result]

(* Fault: the test of the client is missing.                               *)
AfterEnsureUnguarded(t, connected) == Goto(t, "writing") /\ UNCHANGED answer

(* Fault: without a client the call connects again instead of giving up.   *)
AfterEnsureRetrying(t, connected) ==
    Goto(t, IF connected THEN "writing" ELSE "pinging") /\ UNCHANGED answer

(* What follows _ensure_redis, without an await in between: write to Redis *)
(* or hand the task to a NullQueue of its own, which has no handlers.      *)
AfterEnsure(t, connected) ==
    IF connected THEN Goto(t, "writing") /\ UNCHANGED answer
    ELSE Return(t, "false")

(* A call on the RedisQueue: already initialized, it takes the client as   *)
(* it is; otherwise it makes a new one and pings.                          *)
EnqueueRedis(t) ==
    /\ backend = "redis" /\ call[t] = "idle"
    /\ IF initialized THEN AfterEnsure(t, client) /\ UNCHANGED client
       ELSE client' = TRUE /\ Goto(t, "pinging") /\ UNCHANGED answer
    /\ UNCHANGED <<backend, initialized, redisVars, worker, handlerVars, faultVars>>

(* A call on the configured NullQueue runs the handler inline.             *)
EnqueueInline(t) ==
    /\ backend = "null" /\ call[t] = "idle"
    /\ IF TypeOf[t] \in Handled THEN Goto(t, "handling") /\ UNCHANGED answer
       ELSE Return(t, "false")
    /\ UNCHANGED <<backend, client, initialized, redisVars, worker, handlerVars,
                   faultVars>>

(* Redis answers the ping, or refuses the connection; the coroutine gets   *)
(* to know of it in a later step.                                          *)
Pinged(t) ==
    /\ call[t] = "pinging"
    /\ Goto(t, IF redisUp THEN "pinged" ELSE "refused")
    /\ UNCHANGED <<backend, answer, client, initialized, redisVars, worker,
                   handlerVars, faultVars>>

PingSucceeded(t) ==
    /\ call[t] = "pinged"
    /\ initialized' = TRUE
    /\ AfterEnsure(t, client)
    /\ UNCHANGED <<backend, client, redisVars, worker, handlerVars, faultVars>>

(* The except branch forgets the client, whoever set it since.             *)
PingFailed(t) ==
    /\ call[t] = "refused"
    /\ initialized' = FALSE /\ client' = FALSE
    /\ AfterEnsure(t, FALSE)
    /\ UNCHANGED <<backend, redisVars, worker, handlerVars, faultVars>>

(* zadd at Redis.                                                          *)
Write(t) ==
    /\ call[t] = "writing"
    /\ redisUp
    /\ store' = [store EXCEPT ![KeyOf(t)] = @ \cup {t}]
    /\ written' = written \cup {t}
    /\ Goto(t, "written")
    /\ UNCHANGED <<backend, answer, client, initialized, redisUp, worker,
                   handlerVars, faultVars>>

Written(t) ==
    /\ call[t] = "written"
    /\ Return(t, "true")
    /\ UNCHANGED <<backend, client, initialized, redisVars, worker, handlerVars,
                   faultVars>>

(* zadd raises, because Redis is down or because its reply got lost: there *)
(* is no fallback at this point.                                           *)
WriteFailed(t) ==
    /\ call[t] \in {"writing", "written"}
    /\ ~redisUp
    /\ Return(t, "false")
    /\ UNCHANGED <<backend, client, initialized, redisVars, worker, handlerVars,
                   faultVars>>

------------------------------------------------------------------------------
(* Workers.                                                                *)

(* Fault: the round never starts over.                                     *)
OnwardOnce(w) == [worker[w] EXCEPT !.phase = "polling", !.task = NoTask,
                                   !.at = IF @ = Len(Polled) THEN @ ELSE @ + 1]

(* On to the next queue of the round.                                      *)
Onward(w) == [worker[w] EXCEPT !.phase = "polling", !.task = NoTask,
                               !.at = IF @ = Len(Polled) THEN 1 ELSE @ + 1]

(* The loop tests _running between rounds, not between queues.             *)
Polls(w) ==
    /\ worker[w].phase = "polling"
    /\ worker[w].running \/ worker[w].at # 1

(* dequeue() on the queue of the API process: _ensure_redis as in enqueue, *)
(* and without a client there is nothing to return.                        *)
AfterEnsureOf(w, connected) ==
    worker' = [worker EXCEPT ![w] =
                  IF connected THEN [@ EXCEPT !.phase = "popping"] ELSE Onward(w)]

DequeueShared(w) ==
    /\ w \in Embedded /\ backend = "redis" /\ Polls(w)
    /\ IF initialized THEN AfterEnsureOf(w, client) /\ UNCHANGED client
       ELSE client' = TRUE /\ worker' = [worker EXCEPT ![w].phase = "pinging"]
    /\ UNCHANGED <<backend, call, answer, initialized, redisVars, handlerVars,
                   faultVars>>

WorkerPinged(w) ==
    /\ worker[w].phase = "pinging"
    /\ worker' = [worker EXCEPT ![w].phase = IF redisUp THEN "pinged" ELSE "refused"]
    /\ UNCHANGED <<apiVars, redisVars, handlerVars, faultVars>>

WorkerPingSucceeded(w) ==
    /\ worker[w].phase = "pinged"
    /\ initialized' = TRUE
    /\ AfterEnsureOf(w, client)
    /\ UNCHANGED <<backend, call, answer, client, redisVars, handlerVars, faultVars>>

WorkerPingFailed(w) ==
    /\ worker[w].phase = "refused"
    /\ initialized' = FALSE /\ client' = FALSE
    /\ AfterEnsureOf(w, FALSE)
    /\ UNCHANGED <<backend, call, answer, redisVars, handlerVars, faultVars>>

(* bzpopmin removes an entry of the lowest score, or times out.            *)
Lowest(S) == {t \in S : \A u \in S : PriorityOf[t] <= PriorityOf[u]}

QueueAt(w) == store[Polled[worker[w].at]]

AtPop(w) == IF w \in Embedded /\ backend = "redis" THEN worker[w].phase = "popping"
            ELSE Polls(w)

(* Fault: the entry is read, not removed.                                  *)
PopReading(w, t) ==
    /\ AtPop(w)
    /\ backend = "redis" /\ redisUp
    /\ t \in Lowest(QueueAt(w))
    /\ worker' = [worker EXCEPT ![w].phase = "sizing", ![w].task = t]
    /\ UNCHANGED <<apiVars, redisVars, handlerVars, faultVars>>

Pop(w, t) ==
    /\ AtPop(w)
    /\ backend = "redis" /\ redisUp
    /\ t \in Lowest(QueueAt(w))
    /\ store' = [store EXCEPT ![Polled[worker[w].at]] = @ \ {t}]
    /\ worker' = [worker EXCEPT ![w].phase = "sizing", ![w].task = t]
    /\ UNCHANGED <<apiVars, redisUp, written, handlerVars, faultVars>>

(* Nothing to pop, no Redis, or a NullQueue, which has no dequeue.         *)
PollNothing(w) ==
    /\ AtPop(w)
    /\ backend = "null" \/ ~redisUp \/ QueueAt(w) = {}
    /\ worker' = [worker EXCEPT ![w] = Onward(w)]
    /\ UNCHANGED <<apiVars, redisVars, handlerVars, faultVars>>

(* dequeue asks for the queue's size before it returns the task it popped: *)
(* if that raises, for want of Redis or of the client another coroutine    *)
(* forgot, the task is gone.  A task without a handler is dropped.         *)
SizeKnown(w) == redisUp /\ (w \in Embedded => client)

Sized(w) ==
    /\ worker[w].phase = "sizing"
    /\ worker' = [worker EXCEPT ![w] =
                     IF SizeKnown(w) /\ TypeOf[worker[w].task] \in Handled
                     THEN [@ EXCEPT !.phase = "handling"]
                     ELSE Onward(w)]
    /\ UNCHANGED <<apiVars, redisVars, handlerVars, faultVars>>

------------------------------------------------------------------------------
(* A handler at work, inline or in a worker.                               *)

Inline(t) == call[t] = "handling"
InWorker(w, t) == worker[w].phase = "handling" /\ worker[w].task = t

(* The handler returned: so does the coroutine, and a worker goes on to    *)
(* its next queue whatever the result was.                                 *)
HandlerReturns(t, result) ==
    /\ IF Inline(t) THEN Return(t, result) ELSE UNCHANGED <<call, answer>>
    /\ worker' = [w \in Workers |-> IF InWorker(w, t) THEN Onward(w) ELSE worker[w]]

(* Fault: the last attempt counts as delivered.                            *)
AttemptOptimistic(t, effective, confirmed) ==
    /\ Inline(t) \/ \E w \in Workers : InWorker(w, t)
    /\ confirmed => effective
    /\ tries' = [tries EXCEPT ![t] = @ + 1]
    /\ reached' = [reached EXCEPT ![t] = IF effective THEN @ + 1 ELSE @]
    /\ IF confirmed \/ tries'[t] = MaxTries(t) THEN HandlerReturns(t, "true")
       ELSE UNCHANGED <<call, answer, worker>>
    /\ UNCHANGED <<backend, client, initialized, redisVars, faultVars>>

(* One attempt: it may take effect, and it may be confirmed (status 200, or *)
(* the storage call returns).  An effect without confirmation is a timeout, *)
(* or another status from a receiver that did accept.                       *)
Attempt(t, effective, confirmed) ==
    /\ Inline(t) \/ \E w \in Workers : InWorker(w, t)
    /\ confirmed => effective
    /\ tries' = [tries EXCEPT ![t] = @ + 1]
    /\ reached' = [reached EXCEPT ![t] = IF effective THEN @ + 1 ELSE @]
    /\ IF confirmed THEN HandlerReturns(t, "true")
       ELSE IF tries'[t] = MaxTries(t) THEN HandlerReturns(t, "false")
       ELSE UNCHANGED <<call, answer, worker>>
    /\ UNCHANGED <<backend, client, initialized, redisVars, faultVars>>

------------------------------------------------------------------------------
(* Crashes, outages, and stopping a worker.                                *)

InFlight(t) == call[t] \notin {"idle", "done", "gone"}

(* The API process dies with its coroutines and the workers in it, and     *)
(* starts again.                                                           *)
ApiCrash ==
    /\ crashes < MaxCrashes
    /\ \/ \E t \in Tasks : InFlight(t)
       \/ \E w \in Embedded : worker[w].phase # "down"
    /\ crashes' = crashes + 1
    /\ call' = [t \in Tasks |-> IF InFlight(t) THEN "gone" ELSE call[t]]
    /\ client' = FALSE /\ initialized' = FALSE
    /\ worker' = [w \in Workers |-> IF w \in Embedded THEN Crashed ELSE worker[w]]
    /\ UNCHANGED <<backend, answer, redisVars, handlerVars, outages>>

WorkerCrash(w) ==
    /\ crashes < MaxCrashes
    /\ w \notin Embedded /\ worker[w].phase # "down"
    /\ crashes' = crashes + 1
    /\ worker' = [worker EXCEPT ![w] = Crashed]
    /\ UNCHANGED <<apiVars, redisVars, handlerVars, outages>>

WorkerRestart(w) ==
    /\ worker[w].phase = "down"
    /\ worker' = [worker EXCEPT ![w] = AtStart]
    /\ UNCHANGED <<apiVars, redisVars, handlerVars, faultVars>>

(* Worker.stop: the round that is under way still visits its last queues.  *)
(* (stop also closes the HTTP client under a delivery, but no task of a    *)
(* worker ever gets that far; and the connections of the queue, which the  *)
(* next call on it opens again.)                                           *)
Stop(w) ==
    /\ worker[w].phase # "down" /\ worker[w].running
    /\ worker' = [worker EXCEPT ![w].running = FALSE]
    /\ UNCHANGED <<apiVars, redisVars, handlerVars, faultVars>>

Outage ==
    /\ backend = "redis" /\ redisUp /\ outages < MaxOutages
    /\ redisUp' = FALSE /\ outages' = outages + 1
    /\ UNCHANGED <<apiVars, store, written, worker, handlerVars, crashes>>

Recovery ==
    /\ ~redisUp
    /\ redisUp' = TRUE
    /\ UNCHANGED <<apiVars, store, written, worker, handlerVars, faultVars>>

------------------------------------------------------------------------------
Enqueue(t) == EnqueueRedis(t) \/ EnqueueInline(t)

Resume(t) ==
    \/ Pinged(t)
    \/ PingSucceeded(t)
    \/ PingFailed(t)
    \/ Write(t)
    \/ Written(t)
    \/ WriteFailed(t)

Handle(t) == \E effective, confirmed \in BOOLEAN : Attempt(t, effective, confirmed)

Poll(w) ==
    \/ DequeueShared(w)
    \/ WorkerPinged(w)
    \/ WorkerPingSucceeded(w)
    \/ WorkerPingFailed(w)
    \/ \E t \in Tasks : Pop(w, t)
    \/ PollNothing(w)
    \/ Sized(w)

Next ==
    \/ \E t \in Tasks : Enqueue(t) \/ Resume(t) \/ Handle(t)
    \/ \E w \in Workers : Poll(w) \/ WorkerCrash(w) \/ WorkerRestart(w) \/ Stop(w)
    \/ ApiCrash
    \/ Outage
    \/ Recovery

(* The event loops run every coroutine that is ready (and TCP gives up on  *)
(* a silent Redis), a crashed worker is restarted, an outage ends.  Nobody *)
(* has to call enqueue, crash, or stop a worker.                           *)
Fairness ==
    /\ \A t \in Tasks : WF_vars(Resume(t)) /\ WF_vars(Handle(t))
    /\ \A w \in Workers : WF_vars(Poll(w)) /\ WF_vars(WorkerRestart(w))
    /\ WF_vars(Recovery)

Spec == Init /\ [][Next]_vars /\ Fairness

------------------------------------------------------------------------------
(* The shape of the state.                                                 *)
TypeOK ==
    /\ backend \in {"redis", "null"}
    /\ call \in [Tasks -> {"idle", "pinging", "pinged", "refused", "writing",
                           "written", "handling", "done", "gone"}]
    /\ answer \in [Tasks -> {"none", "true", "false"}]
    /\ client \in BOOLEAN /\ initialized \in BOOLEAN /\ redisUp \in BOOLEAN
    /\ store \in [Keys -> SUBSET Tasks]
    /\ written \subseteq Tasks
    /\ worker \in [Workers -> [phase : {"polling", "pinging", "pinged", "refused",
                                        "popping", "sizing", "handling", "down"},
                               at : 1 .. 3, task : Tasks \cup {NoTask},
                               running : BOOLEAN]]
    /\ tries \in [Tasks -> 0 .. 3] /\ reached \in [Tasks -> 0 .. 3]
    /\ outages \in 0 .. MaxOutages /\ crashes \in 0 .. MaxCrashes

(* enqueue() does not answer True for nothing: Redis has stored the task,  *)
(* or the handler has delivered it, also when replies get lost and         *)
(* attempts time out.                                                      *)
AnswerIsTrue ==
    \A t \in Tasks : answer[t] = "true" => t \in written \/ reached[t] > 0

(* The API's queue believes to be connected and has no client.             *)
Poisoned == initialized /\ ~client

(* Once that has happened, every enqueue that finds it so answers False,   *)
(* and a worker of the same process never gets as far as Redis; only a     *)
(* restart of the process ends it, or a ping that was already under way    *)
(* and fails: Redis coming back does not help (_ensure_redis tests         *)
(* _initialized, enqueue and dequeue test _redis).                         *)
PoisonIsFatal ==
    [][Poisoned =>
          /\ \/ Poisoned' \/ crashes' > crashes
             \/ \E t \in Tasks : call[t] = "refused" /\ call'[t] = "done"
             \/ \E w \in Embedded : /\ worker[w].phase = "refused"
                                    /\ worker'[w].phase = "polling"
          /\ \A t \in Tasks : call[t] = "idle" /\ call'[t] # "idle"
                              => answer'[t] = "false"
          /\ \A w \in Embedded : worker[w].phase = "polling"
                                 => worker'[w].phase \in {"polling", "down"}]_vars

(* Where each task is, for the promise of the queue.                       *)
StatusOf(t) ==
    IF Inline(t) \/ \E w \in Workers : worker[w].task = t THEN "taken"
    ELSE IF \E k \in Keys : t \in store[k] THEN "queued"
    ELSE IF t \in written \/ call[t] \in {"done", "gone"} THEN "over"
    ELSE "new"

Ledger == INSTANCE TaskLedger WITH status <- [t \in Tasks |-> StatusOf(t)]

(* The queue delivers at most once: across outages, lost replies, crashes  *)
(* and several workers, no task is queued twice, taken twice, or lost while *)
(* it waits in Redis.                                                      *)
ImplementsLedger == Ledger!Spec

(* Every call of enqueue returns, unless its process dies: again and again *)
(* none is under way.                                                      *)
CallsReturn == []<>(\A t \in Tasks : ~InFlight(t))

(* Whatever is under a key that workers poll is popped, however outages    *)
(* and crashes fall, unless every worker is stopped or cut off by the      *)
(* poisoned queue it shares with the API.                                  *)
CutOff(w) == ~worker[w].running \/ (w \in Embedded /\ Poisoned)

PolledQueuesDrain ==
    []<>(\/ \A k \in QueueNames : store[k] = {}
         \/ \A w \in Workers : CutOff(w))

(* What hestia/worker.py says of itself ("Processes tasks from Redis       *)
(* queues: webhook delivery, audit logging, event persistence"): a task of *)
(* such a type that Redis has stored is some day attempted.                *)
StoredIsProcessed ==
    \A t \in Tasks : t \in written /\ TypeOf[t] \in Handled
                     ~> tries[t] > 0 \/ \A w \in Workers : ~worker[w].running

==============================================================================
