--------------------------- MODULE TaskQueue_proofs ---------------------------
(***************************************************************************)
(* The safety of the task queue for any tasks, types, priorities and       *)
(* workers, and any number of outages and crashes: IInv is inductive, and  *)
(* with it every step of TaskQueue is a step of TaskLedger or a stutter.   *)
(***************************************************************************)
EXTENDS TaskQueue, TLAPS

(* The coroutine has not handed its task to Redis (yet).                   *)
Unwritten == {"idle", "pinging", "pinged", "refused", "writing", "handling"}

(* A stored task is under the key of its type, and was written by its call *)
(* alone; nothing that was written is ever handled.                        *)
StoreInv ==
    /\ \A k \in Keys : \A t \in store[k] : t \in written /\ KeyOf(t) = k
    /\ \A t \in written : call[t] \notin Unwritten
    /\ \A t \in Tasks : call[t] = "written" => t \in written
    /\ \A t \in written : tries[t] = 0

(* A worker holds a task while it is at work on it; the task is then in no *)
(* queue and in no other worker's hands, and its type names a queue.       *)
WorkerInv ==
    /\ \A w \in Workers : worker[w].phase # "handling"
    /\ \A w \in Workers : worker[w].task # NoTask <=> worker[w].phase = "sizing"
    /\ \A w \in Workers : worker[w].task # NoTask =>
          /\ worker[w].task \in written
          /\ TypeOf[worker[w].task] \in QueueNames
          /\ \A k \in Keys : worker[w].task \notin store[k]
    /\ \A v, w \in Workers : worker[v].task = worker[w].task /\ v # w
          => worker[v].task = NoTask

(* A handler at work has attempts left, and no effect without an attempt.  *)
HandlerInv ==
    /\ \A t \in Tasks : Inline(t) => tries[t] < MaxTries(t)
    /\ \A t \in Tasks : call[t] \in {"idle", "pinging", "pinged", "refused",
                                     "writing"} => tries[t] = 0
    /\ \A t \in Tasks : reached[t] <= tries[t]

IInv == TypeOK /\ StoreInv /\ WorkerInv /\ HandlerInv /\ AnswerIsTrue

------------------------------------------------------------------------------
(* Steps of the coroutines in enqueue.                                     *)

(* A call begins on the RedisQueue.                                        *)
LEMMA EnqueueRedisKeeps ==
    ASSUME IInv, NEW t \in Tasks, EnqueueRedis(t)
    PROVE  IInv'
<1> USE QueueAssumption DEF IInv, TypeOK
<1>1. TypeOK'
  BY DEF EnqueueRedis, AfterEnsure, Return, Goto, apiVars, redisVars,
         handlerVars, faultVars
<1>2. StoreInv'
  BY DEF EnqueueRedis, AfterEnsure, Return, Goto, StoreInv, Unwritten, apiVars,
         redisVars, handlerVars
<1>3. WorkerInv'
  BY DEF EnqueueRedis, AfterEnsure, Return, Goto, WorkerInv, StoreInv, apiVars,
         redisVars
<1>4. HandlerInv'
  BY DEF EnqueueRedis, AfterEnsure, Return, Goto, HandlerInv, Inline, MaxTries,
         apiVars, handlerVars
<1>5. AnswerIsTrue'
  BY DEF EnqueueRedis, AfterEnsure, Return, Goto, AnswerIsTrue, StoreInv,
         apiVars, redisVars, handlerVars
<1>6. QED
  BY <1>1, <1>2, <1>3, <1>4, <1>5

(* A call begins on the NullQueue.                                         *)
LEMMA EnqueueInlineKeeps ==
    ASSUME IInv, NEW t \in Tasks, EnqueueInline(t)
    PROVE  IInv'
<1> USE QueueAssumption DEF IInv, TypeOK
<1>1. TypeOK'
  BY DEF EnqueueInline, Return, Goto, apiVars, redisVars, handlerVars,
         faultVars
<1>2. StoreInv'
  BY DEF EnqueueInline, Return, Goto, StoreInv, Unwritten, apiVars, redisVars,
         handlerVars
<1>3. WorkerInv'
  BY DEF EnqueueInline, Return, Goto, WorkerInv, StoreInv, apiVars, redisVars
<1>4. HandlerInv'
  BY DEF EnqueueInline, Return, Goto, HandlerInv, Inline, MaxTries, apiVars,
         handlerVars
<1>5. AnswerIsTrue'
  BY DEF EnqueueInline, Return, Goto, AnswerIsTrue, StoreInv, apiVars,
         redisVars, handlerVars
<1>6. QED
  BY <1>1, <1>2, <1>3, <1>4, <1>5

(* A ping is answered.                                                     *)
LEMMA PingedKeeps ==
    ASSUME IInv, NEW t \in Tasks, Pinged(t)
    PROVE  IInv'
<1> USE QueueAssumption DEF IInv, TypeOK
<1>1. TypeOK'
  BY DEF Pinged, Goto, apiVars, redisVars, handlerVars, faultVars
<1>2. StoreInv'
  BY DEF Pinged, Goto, StoreInv, Unwritten, apiVars, redisVars, handlerVars
<1>3. WorkerInv'
  BY DEF Pinged, Goto, WorkerInv, StoreInv, apiVars, redisVars
<1>4. HandlerInv'
  BY DEF Pinged, Goto, HandlerInv, Inline, MaxTries, apiVars, handlerVars
<1>5. AnswerIsTrue'
  BY DEF Pinged, Goto, AnswerIsTrue, StoreInv, apiVars, redisVars, handlerVars
<1>6. QED
  BY <1>1, <1>2, <1>3, <1>4, <1>5

(* The coroutine learns that its ping succeeded.                           *)
LEMMA PingSucceededKeeps ==
    ASSUME IInv, NEW t \in Tasks, PingSucceeded(t)
    PROVE  IInv'
<1> USE QueueAssumption DEF IInv, TypeOK
<1>1. TypeOK'
  BY DEF PingSucceeded, AfterEnsure, Return, Goto, apiVars, redisVars,
         handlerVars, faultVars
<1>2. StoreInv'
  BY DEF PingSucceeded, AfterEnsure, Return, Goto, StoreInv, Unwritten,
         apiVars, redisVars, handlerVars
<1>3. WorkerInv'
  BY DEF PingSucceeded, AfterEnsure, Return, Goto, WorkerInv, StoreInv,
         apiVars, redisVars
<1>4. HandlerInv'
  BY DEF PingSucceeded, AfterEnsure, Return, Goto, HandlerInv, Inline,
         MaxTries, apiVars, handlerVars
<1>5. AnswerIsTrue'
  BY DEF PingSucceeded, AfterEnsure, Return, Goto, AnswerIsTrue, StoreInv,
         apiVars, redisVars, handlerVars
<1>6. QED
  BY <1>1, <1>2, <1>3, <1>4, <1>5

(* The coroutine learns that its ping failed.                              *)
LEMMA PingFailedKeeps ==
    ASSUME IInv, NEW t \in Tasks, PingFailed(t)
    PROVE  IInv'
<1> USE QueueAssumption DEF IInv, TypeOK
<1>1. TypeOK'
  BY DEF PingFailed, AfterEnsure, Return, Goto, apiVars, redisVars,
         handlerVars, faultVars
<1>2. StoreInv'
  BY DEF PingFailed, AfterEnsure, Return, Goto, StoreInv, Unwritten, apiVars,
         redisVars, handlerVars
<1>3. WorkerInv'
  BY DEF PingFailed, AfterEnsure, Return, Goto, WorkerInv, StoreInv, apiVars,
         redisVars
<1>4. HandlerInv'
  BY DEF PingFailed, AfterEnsure, Return, Goto, HandlerInv, Inline, MaxTries,
         apiVars, handlerVars
<1>5. AnswerIsTrue'
  BY DEF PingFailed, AfterEnsure, Return, Goto, AnswerIsTrue, StoreInv,
         apiVars, redisVars, handlerVars
<1>6. QED
  BY <1>1, <1>2, <1>3, <1>4, <1>5

(* Redis stores a task: nobody holds it, since it was not written before.  *)
LEMMA WriteKeeps ==
    ASSUME IInv, NEW t \in Tasks, Write(t)
    PROVE  IInv'
<1> USE QueueAssumption DEF IInv, TypeOK
<1>a. t \notin written /\ KeyOf(t) \in Keys
  BY DEF Write, StoreInv, Unwritten, KeyOf, Keys, QueueNames
<1>1. TypeOK'
  BY <1>a
     DEF Write, Goto, apiVars, redisVars, handlerVars, faultVars
<1>2. StoreInv'
  <2>1. \A k \in Keys : \A u \in store'[k] : u \in written' /\ KeyOf(u) = k
    BY DEF Write, StoreInv
  <2>2. \A u \in written' : call'[u] \notin Unwritten
    BY DEF Write, Goto, StoreInv, Unwritten
  <2>3. \A u \in Tasks : call'[u] = "written" => u \in written'
    BY DEF Write, Goto, StoreInv
  <2>4. \A u \in written' : tries'[u] = 0
    BY DEF Write, StoreInv, HandlerInv, handlerVars
  <2>5. QED
    BY <2>1, <2>2, <2>3, <2>4 DEF StoreInv, KeyOf
<1>3. WorkerInv'
  BY <1>a
     DEF Write, Goto, WorkerInv, StoreInv, apiVars, redisVars
<1>4. HandlerInv'
  BY <1>a
     DEF Write, Goto, HandlerInv, Inline, MaxTries, apiVars, handlerVars
<1>5. AnswerIsTrue'
  BY <1>a
     DEF Write, Goto, AnswerIsTrue, StoreInv, apiVars, redisVars, handlerVars
<1>6. QED
  BY <1>1, <1>2, <1>3, <1>4, <1>5

(* The reply of Redis arrives: the task was written.                       *)
LEMMA WrittenKeeps ==
    ASSUME IInv, NEW t \in Tasks, Written(t)
    PROVE  IInv'
<1> USE QueueAssumption DEF IInv, TypeOK
<1>1. TypeOK'
  BY DEF Written, Return, Goto, apiVars, redisVars, handlerVars, faultVars
<1>2. StoreInv'
  BY DEF Written, Return, Goto, StoreInv, Unwritten, apiVars, redisVars,
         handlerVars
<1>3. WorkerInv'
  BY DEF Written, Return, Goto, WorkerInv, StoreInv, apiVars, redisVars
<1>4. HandlerInv'
  BY DEF Written, Return, Goto, HandlerInv, Inline, MaxTries, apiVars,
         handlerVars
<1>5. AnswerIsTrue'
  BY DEF Written, Return, Goto, AnswerIsTrue, StoreInv, apiVars, redisVars,
         handlerVars
<1>6. QED
  BY <1>1, <1>2, <1>3, <1>4, <1>5

(* The write fails, or its reply is lost.                                  *)
LEMMA WriteFailedKeeps ==
    ASSUME IInv, NEW t \in Tasks, WriteFailed(t)
    PROVE  IInv'
<1> USE QueueAssumption DEF IInv, TypeOK
<1>1. TypeOK'
  BY DEF WriteFailed, Return, Goto, apiVars, redisVars, handlerVars, faultVars
<1>2. StoreInv'
  BY DEF WriteFailed, Return, Goto, StoreInv, Unwritten, apiVars, redisVars,
         handlerVars
<1>3. WorkerInv'
  BY DEF WriteFailed, Return, Goto, WorkerInv, StoreInv, apiVars, redisVars
<1>4. HandlerInv'
  BY DEF WriteFailed, Return, Goto, HandlerInv, Inline, MaxTries, apiVars,
         handlerVars
<1>5. AnswerIsTrue'
  BY DEF WriteFailed, Return, Goto, AnswerIsTrue, StoreInv, apiVars, redisVars,
         handlerVars
<1>6. QED
  BY <1>1, <1>2, <1>3, <1>4, <1>5

------------------------------------------------------------------------------
(* Steps of workers.                                                       *)

WorkerState == [phase : {"polling", "pinging", "pinged", "refused", "popping",
                         "sizing", "handling", "down"},
                at : 1 .. 3, task : Tasks \cup {NoTask}, running : BOOLEAN]

(* Going on to the next queue, a worker holds nothing.                     *)
LEMMA OnwardState ==
    ASSUME TypeOK, NEW w \in Workers
    PROVE  /\ Onward(w) \in WorkerState
           /\ Onward(w).phase = "polling" /\ Onward(w).task = NoTask
<1>1. worker[w] \in WorkerState
  BY DEF TypeOK, WorkerState
<1>2. Len(Polled) = 3
  BY DEF Polled
<1>3. PICK at \in 1 .. 3 :
         Onward(w) = [worker[w] EXCEPT !.phase = "polling", !.task = NoTask,
                                       !.at = at]
  <2>1. worker[w].at \in 1 .. 3
    BY <1>1 DEF WorkerState
  <2>2. (IF worker[w].at = 3 THEN 1 ELSE worker[w].at + 1) \in 1 .. 3
    BY <2>1
  <2>3. QED
    BY <1>2, <2>2 DEF Onward
<1>4. QED
  BY <1>1, <1>3 DEF WorkerState

(* A worker of the API process looks for a connection.                     *)
Connect(w) ==
    \/ DequeueShared(w) \/ WorkerPinged(w)
    \/ WorkerPingSucceeded(w) \/ WorkerPingFailed(w)

(* Looking for a connection, a worker holds nothing and touches no task.   *)
LEMMA ConnectMoves ==
    ASSUME IInv, NEW w \in Workers, Connect(w)
    PROVE  /\ UNCHANGED <<backend, call, answer, redisVars, handlerVars, faultVars>>
           /\ client' \in BOOLEAN /\ initialized' \in BOOLEAN
           /\ worker[w].task = NoTask
           /\ \E s \in WorkerState : /\ worker' = [worker EXCEPT ![w] = s]
                                     /\ s.task = NoTask
                                     /\ s.phase \notin {"handling", "sizing"}
<1>1. worker[w] \in WorkerState /\ client \in BOOLEAN /\ initialized \in BOOLEAN
  BY DEF IInv, TypeOK, WorkerState
<1>2. worker[w].task = NoTask
  BY DEF Connect, DequeueShared, Polls, WorkerPinged, WorkerPingSucceeded,
         WorkerPingFailed, IInv, WorkerInv
<1>3. /\ Onward(w) \in WorkerState
      /\ Onward(w).phase = "polling" /\ Onward(w).task = NoTask
  BY OnwardState DEF IInv
<1>4. ASSUME NEW phase \in {"pinging", "pinged", "refused", "popping"}
      PROVE  [worker[w] EXCEPT !.phase = phase] \in WorkerState
  BY <1>1 DEF WorkerState
<1>5. /\ UNCHANGED <<backend, call, answer, redisVars, handlerVars, faultVars>>
      /\ client' \in BOOLEAN /\ initialized' \in BOOLEAN
  BY <1>1 DEF Connect, DequeueShared, WorkerPinged, WorkerPingSucceeded,
              WorkerPingFailed, apiVars
<1>6. \/ worker' = [worker EXCEPT ![w] = Onward(w)]
      \/ \E phase \in {"pinging", "pinged", "refused", "popping"} :
            worker' = [worker EXCEPT ![w] = [worker[w] EXCEPT !.phase = phase]]
  BY DEF Connect, DequeueShared, WorkerPinged, WorkerPingSucceeded,
         WorkerPingFailed, AfterEnsureOf
<1>7. QED
  BY <1>1, <1>2, <1>3, <1>4, <1>5, <1>6 DEF WorkerState

(* A worker looks for a connection.                                        *)
LEMMA ConnectKeeps ==
    ASSUME IInv, NEW w \in Workers, Connect(w)
    PROVE  IInv'
<1> USE QueueAssumption DEF IInv, TypeOK
<1>a. PICK s \in WorkerState : /\ worker' = [worker EXCEPT ![w] = s]
                               /\ s.task = NoTask
                               /\ s.phase \notin {"handling", "sizing"}
  BY ConnectMoves
<1>b. /\ UNCHANGED <<backend, call, answer, redisVars, handlerVars, faultVars>>
      /\ client' \in BOOLEAN /\ initialized' \in BOOLEAN
  BY ConnectMoves
<1>1. TypeOK'
  BY <1>a, <1>b DEF WorkerState, redisVars, handlerVars, faultVars
<1>2. StoreInv'
  BY <1>b DEF StoreInv, Unwritten, redisVars, handlerVars
<1>3. WorkerInv'
  BY <1>a, <1>b DEF WorkerInv, WorkerState, redisVars
<1>4. HandlerInv'
  BY <1>b DEF HandlerInv, Inline, MaxTries, handlerVars
<1>5. AnswerIsTrue'
  BY <1>b DEF AnswerIsTrue, redisVars, handlerVars
<1>6. QED
  BY <1>1, <1>2, <1>3, <1>4, <1>5

(* A worker takes a task: it was in that queue alone, and no worker holds  *)
(* what a queue holds.                                                     *)
LEMMA PopKeeps ==
    ASSUME IInv, NEW w \in Workers, NEW t \in Tasks, Pop(w, t)
    PROVE  IInv'
<1> USE QueueAssumption DEF IInv, TypeOK
<1>a. /\ Polled[worker[w].at] \in QueueNames
      /\ t \in store[Polled[worker[w].at]]
      /\ worker[w] \in WorkerState
  BY DEF Pop, QueueAt, Lowest, Polled, QueueNames, WorkerState
<1>c. worker[w].phase \in {"polling", "popping"}
  BY DEF Pop, AtPop, Polls
<1>b. /\ t \in written /\ TypeOf[t] \in QueueNames
      /\ \A k \in Keys : t \in store[k] <=> k = Polled[worker[w].at]
  BY <1>a DEF StoreInv, KeyOf, Keys, QueueNames
<1>1. TypeOK'
  <2>1. store' \in [Keys -> SUBSET Tasks]
    BY DEF Pop
  <2>2. worker' \in [Workers -> WorkerState]
    BY <1>a DEF Pop, WorkerState
  <2>3. QED
    BY <2>1, <2>2 DEF Pop, WorkerState, apiVars, handlerVars, faultVars
<1>2. StoreInv'
  BY <1>a, <1>b
     DEF Pop, QueueNames, Keys, StoreInv, Unwritten, apiVars, redisVars,
         handlerVars
<1>3. WorkerInv'
  BY <1>a, <1>b
     DEF Pop, QueueNames, Keys, WorkerInv, StoreInv, apiVars, redisVars
<1>4. HandlerInv'
  BY <1>a, <1>b
     DEF Pop, QueueNames, Keys, HandlerInv, Inline, MaxTries, apiVars,
         handlerVars
<1>5. AnswerIsTrue'
  BY <1>a, <1>b
     DEF Pop, QueueNames, Keys, AnswerIsTrue, StoreInv, apiVars, redisVars,
         handlerVars
<1>6. QED
  BY <1>1, <1>2, <1>3, <1>4, <1>5

(* A queue gives nothing.                                                  *)
LEMMA PollNothingKeeps ==
    ASSUME IInv, NEW w \in Workers, PollNothing(w)
    PROVE  IInv'
<1> USE QueueAssumption DEF IInv, TypeOK
<1>a. /\ Onward(w) \in WorkerState
      /\ Onward(w).phase = "polling" /\ Onward(w).task = NoTask
  BY OnwardState
<1>1. TypeOK'
  BY <1>a
     DEF PollNothing, WorkerState, apiVars, redisVars, handlerVars, faultVars
<1>2. StoreInv'
  BY <1>a
     DEF PollNothing, WorkerState, StoreInv, Unwritten, apiVars, redisVars,
         handlerVars
<1>3. WorkerInv'
  BY <1>a
     DEF PollNothing, WorkerState, WorkerInv, StoreInv, apiVars, redisVars
<1>4. HandlerInv'
  BY <1>a
     DEF PollNothing, WorkerState, HandlerInv, Inline, MaxTries, apiVars,
         handlerVars
<1>5. AnswerIsTrue'
  BY <1>a
     DEF PollNothing, WorkerState, AnswerIsTrue, StoreInv, apiVars, redisVars,
         handlerVars
<1>6. QED
  BY <1>1, <1>2, <1>3, <1>4, <1>5

(* What a worker popped has no handler: it is dropped.                     *)
LEMMA SizedKeeps ==
    ASSUME IInv, NEW w \in Workers, Sized(w)
    PROVE  IInv'
<1> USE QueueAssumption DEF IInv, TypeOK
<1>a. /\ Onward(w) \in WorkerState
      /\ Onward(w).phase = "polling" /\ Onward(w).task = NoTask
  BY OnwardState
<1>b. TypeOf[worker[w].task] \notin Handled
  BY DEF Sized, WorkerInv, QueueNames, Handled
<1>c. worker' = [worker EXCEPT ![w] = Onward(w)]
  BY <1>b DEF Sized
<1>1. TypeOK'
  BY <1>a, <1>c
     DEF Sized, WorkerState, apiVars, redisVars, handlerVars, faultVars
<1>2. StoreInv'
  BY <1>a, <1>c
     DEF Sized, WorkerState, StoreInv, Unwritten, apiVars, redisVars,
         handlerVars
<1>3. WorkerInv'
  BY <1>a, <1>c
     DEF Sized, WorkerState, WorkerInv, StoreInv, apiVars, redisVars
<1>4. HandlerInv'
  BY <1>a, <1>c
     DEF Sized, WorkerState, HandlerInv, Inline, MaxTries, apiVars, handlerVars
<1>5. AnswerIsTrue'
  BY <1>a, <1>c
     DEF Sized, WorkerState, AnswerIsTrue, StoreInv, apiVars, redisVars,
         handlerVars
<1>6. QED
  BY <1>1, <1>2, <1>3, <1>4, <1>5

(* A worker crashes with what it holds.                                    *)
LEMMA WorkerCrashKeeps ==
    ASSUME IInv, NEW w \in Workers, WorkerCrash(w)
    PROVE  IInv'
<1> USE QueueAssumption DEF IInv, TypeOK
<1>1. TypeOK'
  BY DEF WorkerCrash, Crashed, apiVars, redisVars, handlerVars, faultVars
<1>2. StoreInv'
  BY DEF WorkerCrash, Crashed, StoreInv, Unwritten, apiVars, redisVars,
         handlerVars
<1>3. WorkerInv'
  BY DEF WorkerCrash, Crashed, WorkerInv, StoreInv, apiVars, redisVars
<1>4. HandlerInv'
  BY DEF WorkerCrash, Crashed, HandlerInv, Inline, MaxTries, apiVars,
         handlerVars
<1>5. AnswerIsTrue'
  BY DEF WorkerCrash, Crashed, AnswerIsTrue, StoreInv, apiVars, redisVars,
         handlerVars
<1>6. QED
  BY <1>1, <1>2, <1>3, <1>4, <1>5

(* A worker is restarted.                                                  *)
LEMMA WorkerRestartKeeps ==
    ASSUME IInv, NEW w \in Workers, WorkerRestart(w)
    PROVE  IInv'
<1> USE QueueAssumption DEF IInv, TypeOK
<1>1. TypeOK'
  BY DEF WorkerRestart, AtStart, apiVars, redisVars, handlerVars, faultVars
<1>2. StoreInv'
  BY DEF WorkerRestart, AtStart, StoreInv, Unwritten, apiVars, redisVars,
         handlerVars
<1>3. WorkerInv'
  BY DEF WorkerRestart, AtStart, WorkerInv, StoreInv, apiVars, redisVars
<1>4. HandlerInv'
  BY DEF WorkerRestart, AtStart, HandlerInv, Inline, MaxTries, apiVars,
         handlerVars
<1>5. AnswerIsTrue'
  BY DEF WorkerRestart, AtStart, AnswerIsTrue, StoreInv, apiVars, redisVars,
         handlerVars
<1>6. QED
  BY <1>1, <1>2, <1>3, <1>4, <1>5

(* A worker is told to stop.                                               *)
LEMMA StopKeeps ==
    ASSUME IInv, NEW w \in Workers, Stop(w)
    PROVE  IInv'
<1> USE QueueAssumption DEF IInv, TypeOK
<1>a. /\ worker[w] \in WorkerState
      /\ worker' = [worker EXCEPT ![w] = [@ EXCEPT !.running = FALSE]]
  BY DEF Stop, WorkerState
<1>1. TypeOK'
  <2>1. [worker[w] EXCEPT !.running = FALSE] \in WorkerState
    BY <1>a DEF WorkerState
  <2>2. worker' \in [Workers -> WorkerState]
    BY <1>a, <2>1 DEF WorkerState
  <2>3. QED
    BY <2>2 DEF Stop, WorkerState, apiVars, redisVars, handlerVars, faultVars
<1>2. StoreInv'
  BY <1>a
     DEF Stop, WorkerState, StoreInv, Unwritten, apiVars, redisVars,
         handlerVars
<1>3. WorkerInv'
  BY <1>a
     DEF Stop, WorkerState, WorkerInv, StoreInv, apiVars, redisVars
<1>4. HandlerInv'
  BY <1>a
     DEF Stop, WorkerState, HandlerInv, Inline, MaxTries, apiVars, handlerVars
<1>5. AnswerIsTrue'
  BY <1>a
     DEF Stop, WorkerState, AnswerIsTrue, StoreInv, apiVars, redisVars,
         handlerVars
<1>6. QED
  BY <1>1, <1>2, <1>3, <1>4, <1>5

------------------------------------------------------------------------------
(* Steps of handlers.                                                      *)

(* Handlers only work inline: a worker holds nothing that has a handler.   *)
LEMMA AttemptIsInline ==
    ASSUME IInv, NEW t \in Tasks, NEW effective, NEW confirmed,
           Attempt(t, effective, confirmed)
    PROVE  /\ Inline(t) /\ t \notin written /\ worker' = worker
           /\ tries[t] < MaxTries(t)
           /\ \/ confirmed /\ Return(t, "true")
              \/ ~confirmed /\ tries'[t] = MaxTries(t) /\ Return(t, "false")
              \/ ~confirmed /\ tries'[t] # MaxTries(t) /\ UNCHANGED <<call, answer>>
<1>1. \A w \in Workers : ~InWorker(w, t)
  BY DEF IInv, WorkerInv, InWorker
<1>2. Inline(t) /\ t \notin written /\ tries[t] < MaxTries(t)
  BY <1>1 DEF Attempt, IInv, StoreInv, HandlerInv, Inline, Unwritten
<1>3. worker = [w \in Workers |-> worker[w]]
  BY DEF IInv, TypeOK
<1>4. ASSUME NEW result, HandlerReturns(t, result)
      PROVE  Return(t, result) /\ worker' = worker
  BY <1>1, <1>2, <1>3, <1>4 DEF HandlerReturns
<1>5. QED
  BY <1>1, <1>2, <1>4 DEF Attempt

(* A handler leaves the connection alone, and at most ends its own call.   *)
LEMMA HandleApi ==
    ASSUME IInv, NEW t \in Tasks, Handle(t)
    PROVE  /\ UNCHANGED <<backend, client, initialized>> /\ call[t] = "handling"
           /\ call' = call \/ call' = [call EXCEPT ![t] = "done"]
           /\ \A u \in Tasks \ {t} : answer'[u] = answer[u]
<1>1. PICK effective \in BOOLEAN, confirmed \in BOOLEAN :
         Attempt(t, effective, confirmed)
  BY DEF Handle
<1>2. /\ UNCHANGED <<backend, client, initialized>>
      /\ \/ UNCHANGED <<call, answer>>
         \/ Return(t, "true") \/ Return(t, "false")
  BY <1>1, AttemptIsInline DEF Attempt
<1>3. call[t] = "handling"
  BY <1>1, AttemptIsInline DEF Inline
<1>4. answer \in [Tasks -> {"none", "true", "false"}]
  BY DEF IInv, TypeOK
<1>5. QED
  BY <1>2, <1>3, <1>4 DEF Return, Goto

(* An attempt of a handler, the last one or not.                           *)
LEMMA AttemptKeeps ==
    ASSUME IInv, NEW t \in Tasks, NEW effective, NEW confirmed,
           Attempt(t, effective, confirmed)
    PROVE  IInv'
<1> USE QueueAssumption DEF IInv, TypeOK
<1>a. /\ Inline(t) /\ t \notin written /\ worker' = worker
      /\ tries[t] < MaxTries(t)
      /\ \/ confirmed /\ Return(t, "true")
         \/ ~confirmed /\ tries'[t] = MaxTries(t) /\ Return(t, "false")
         \/ ~confirmed /\ tries'[t] # MaxTries(t) /\ UNCHANGED <<call, answer>>
  BY AttemptIsInline
<1>b. /\ tries[t] \in Nat /\ reached[t] \in Nat /\ reached[t] <= tries[t]
      /\ tries' = [tries EXCEPT ![t] = tries[t] + 1]
      /\ \/ effective /\ reached' = [reached EXCEPT ![t] = reached[t] + 1]
         \/ ~effective /\ reached' = reached
      /\ confirmed => effective
  <2>1. tries[t] \in 0 .. 3 /\ reached[t] \in 0 .. 3 /\ reached[t] <= tries[t]
    BY DEF HandlerInv
  <2>2. CASE effective
    BY <2>1, <2>2 DEF Attempt
  <2>3. CASE ~effective
    <3>1. reached = [reached EXCEPT ![t] = reached[t]]
      OBVIOUS
    <3>2. QED
      BY <2>1, <2>3, <3>1 DEF Attempt
  <2>4. QED
    BY <2>2, <2>3
<1>c. MaxTries(t) \in {1, 3}
  BY DEF MaxTries
<1>1. TypeOK'
  <2>1. tries' \in [Tasks -> 0 .. 3] /\ reached' \in [Tasks -> 0 .. 3]
    BY <1>a, <1>b, <1>c
  <2>2. QED
    BY <1>a, <2>1 DEF Attempt, Return, Goto, redisVars, faultVars
<1>2. StoreInv'
  BY <1>a, <1>b DEF Attempt, Return, Goto, StoreInv, Inline, Unwritten, redisVars
<1>3. WorkerInv'
  BY <1>a DEF Attempt, WorkerInv, redisVars
<1>4. HandlerInv'
  <2>1. \A u \in Tasks : Inline(u)' => tries'[u] < MaxTries(u)
    BY <1>a, <1>b, <1>c DEF HandlerInv, Inline, Return, Goto
  <2>2. \A u \in Tasks : call'[u] \in {"idle", "pinging", "pinged", "refused",
                                       "writing"} => tries'[u] = 0
    BY <1>a, <1>b DEF HandlerInv, Inline, Return, Goto
  <2>3. \A u \in Tasks : reached'[u] <= tries'[u]
    BY <1>b DEF HandlerInv
  <2>4. QED
    BY <2>1, <2>2, <2>3 DEF HandlerInv, MaxTries
<1>5. AnswerIsTrue'
  BY <1>a, <1>b DEF Attempt, Return, Goto, AnswerIsTrue, redisVars
<1>6. QED
  BY <1>1, <1>2, <1>3, <1>4, <1>5

------------------------------------------------------------------------------
(* Faults.                                                                 *)

(* The API process crashes.                                                *)
LEMMA ApiCrashKeeps ==
    ASSUME IInv, ApiCrash
    PROVE  IInv'
<1> USE QueueAssumption DEF IInv, TypeOK
<1>a. crashes' \in 0 .. MaxCrashes
  BY DEF ApiCrash
<1>1. TypeOK'
  <2>1. Crashed \in WorkerState
    BY DEF Crashed, WorkerState
  <2>2. worker' \in [Workers -> WorkerState]
    BY <2>1 DEF ApiCrash, WorkerState
  <2>3. call' \in [Tasks -> {"idle", "pinging", "pinged", "refused", "writing",
                             "written", "handling", "done", "gone"}]
    BY DEF ApiCrash
  <2>4. QED
    BY <1>a, <2>2, <2>3 DEF ApiCrash, WorkerState, redisVars, handlerVars
<1>2. StoreInv'
  BY <1>a
     DEF ApiCrash, InFlight, StoreInv, Unwritten, apiVars, redisVars,
         handlerVars
<1>3. WorkerInv'
  BY <1>a
     DEF ApiCrash, Crashed, InFlight, WorkerInv, StoreInv, apiVars, redisVars
<1>4. HandlerInv'
  BY <1>a
     DEF ApiCrash, InFlight, HandlerInv, Inline, MaxTries, apiVars, handlerVars
<1>5. AnswerIsTrue'
  BY <1>a
     DEF ApiCrash, InFlight, AnswerIsTrue, StoreInv, apiVars, redisVars,
         handlerVars
<1>6. QED
  BY <1>1, <1>2, <1>3, <1>4, <1>5

(* Redis goes away.                                                        *)
LEMMA OutageKeeps ==
    ASSUME IInv, Outage
    PROVE  IInv'
<1> USE QueueAssumption DEF IInv, TypeOK
<1>a. outages' \in 0 .. MaxOutages
  BY DEF Outage
<1>1. TypeOK'
  <2>1. UNCHANGED <<apiVars, store, written, worker, handlerVars, crashes>>
        /\ redisUp' = FALSE
    BY DEF Outage
  <2>2. QED
    BY <1>a, <2>1 DEF apiVars, handlerVars
<1>2. StoreInv'
  BY <1>a
     DEF Outage, StoreInv, Unwritten, apiVars, redisVars, handlerVars
<1>3. WorkerInv'
  BY <1>a
     DEF Outage, WorkerInv, StoreInv, apiVars, redisVars
<1>4. HandlerInv'
  BY <1>a
     DEF Outage, HandlerInv, Inline, MaxTries, apiVars, handlerVars
<1>5. AnswerIsTrue'
  BY <1>a
     DEF Outage, AnswerIsTrue, StoreInv, apiVars, redisVars, handlerVars
<1>6. QED
  BY <1>1, <1>2, <1>3, <1>4, <1>5

(* Redis comes back.                                                       *)
LEMMA RecoveryKeeps ==
    ASSUME IInv, Recovery
    PROVE  IInv'
<1> USE QueueAssumption DEF IInv, TypeOK
<1>1. TypeOK'
  BY DEF Recovery, apiVars, redisVars, handlerVars, faultVars
<1>2. StoreInv'
  BY DEF Recovery, StoreInv, Unwritten, apiVars, redisVars, handlerVars
<1>3. WorkerInv'
  BY DEF Recovery, WorkerInv, StoreInv, apiVars, redisVars
<1>4. HandlerInv'
  BY DEF Recovery, HandlerInv, Inline, MaxTries, apiVars, handlerVars
<1>5. AnswerIsTrue'
  BY DEF Recovery, AnswerIsTrue, StoreInv, apiVars, redisVars, handlerVars
<1>6. QED
  BY <1>1, <1>2, <1>3, <1>4, <1>5

------------------------------------------------------------------------------
(* The inductive invariant, and what it gives.                             *)

(* The invariant holds at the start.                                        *)
LEMMA InitKeeps == Init => IInv
<1> SUFFICES ASSUME Init PROVE IInv
  OBVIOUS
<1>1. TypeOK
  <2>1. worker \in [Workers -> WorkerState]
    BY DEF Init, AtStart, WorkerState
  <2>2. 0 \in 0 .. MaxOutages /\ 0 \in 0 .. MaxCrashes
    BY QueueAssumption
  <2>3. /\ store \in [Keys -> SUBSET Tasks]
        /\ tries \in [Tasks -> 0 .. 3] /\ reached \in [Tasks -> 0 .. 3]
    BY DEF Init
  <2>4. /\ call \in [Tasks -> {"idle"}]
        /\ answer \in [Tasks -> {"none"}]
    BY DEF Init
  <2>5. QED
    BY <2>1, <2>2, <2>3, <2>4 DEF Init, TypeOK, WorkerState
<1>2. StoreInv /\ WorkerInv
  BY DEF Init, StoreInv, WorkerInv, AtStart, Keys
<1>3. HandlerInv /\ AnswerIsTrue
  BY DEF Init, HandlerInv, AnswerIsTrue, Inline
<1>4. QED
  BY <1>1, <1>2, <1>3 DEF IInv

(* Every step keeps it.                                                     *)
LEMMA NextKeeps == IInv /\ [Next]_vars => IInv'
<1> SUFFICES ASSUME IInv, [Next]_vars PROVE IInv'
  OBVIOUS
<1>1. ASSUME NEW t \in Tasks, Enqueue(t) PROVE IInv'
  BY <1>1, EnqueueRedisKeeps, EnqueueInlineKeeps DEF Enqueue
<1>2. ASSUME NEW t \in Tasks, Resume(t) PROVE IInv'
  BY <1>2, PingedKeeps, PingSucceededKeeps, PingFailedKeeps, WriteKeeps,
     WrittenKeeps, WriteFailedKeeps DEF Resume
<1>3. ASSUME NEW t \in Tasks, Handle(t) PROVE IInv'
  BY <1>3, AttemptKeeps DEF Handle
<1>4. ASSUME NEW w \in Workers, Poll(w) PROVE IInv'
  BY <1>4, ConnectKeeps, PopKeeps, PollNothingKeeps, SizedKeeps DEF Poll, Connect
<1>5. ASSUME NEW w \in Workers, WorkerCrash(w) \/ WorkerRestart(w) \/ Stop(w)
      PROVE  IInv'
  BY <1>5, WorkerCrashKeeps, WorkerRestartKeeps, StopKeeps
<1>6. CASE ApiCrash \/ Outage \/ Recovery
  BY <1>6, ApiCrashKeeps, OutageKeeps, RecoveryKeeps
<1>7. CASE UNCHANGED vars
  <2> USE <1>7 DEF IInv, vars, apiVars, redisVars, handlerVars, faultVars
  <2>1. TypeOK' /\ AnswerIsTrue'
    BY DEF TypeOK, AnswerIsTrue
  <2>2. StoreInv' /\ WorkerInv'
    BY DEF StoreInv, WorkerInv
  <2>3. HandlerInv'
    BY DEF HandlerInv, Inline
  <2>4. QED
    BY <2>1, <2>2, <2>3
<1>8. QED
  BY <1>1, <1>2, <1>3, <1>4, <1>5, <1>6, <1>7 DEF Next

(* So it always holds.                                                      *)
LEMMA Inductive == Spec => []IInv
BY InitKeeps, NextKeeps, PTL DEF Spec

(* Every state of the queue has the shape TypeOK gives it.                 *)
THEOREM TypeCorrect == Spec => []TypeOK
<1>1. IInv => TypeOK
  BY DEF IInv
<1>2. QED
  BY <1>1, Inductive, PTL

(* enqueue() answers True only for what Redis stored or a handler          *)
(* delivered.                                                              *)
THEOREM TruthfulAnswers == Spec => []AnswerIsTrue
<1>1. IInv => AnswerIsTrue
  BY DEF IInv
<1>2. QED
  BY <1>1, Inductive, PTL

------------------------------------------------------------------------------
(* The poisoned connection.                                                *)

(* Only a RedisQueue has a connection, and coroutines that wait for it.    *)
RedisInv ==
    /\ client \/ initialized => backend = "redis"
    /\ \A t \in Tasks : call[t] \in {"pinging", "pinged", "refused", "writing",
                                    "written"} => backend = "redis"
    /\ \A w \in Workers : worker[w].phase \in {"pinging", "pinged", "refused", "popping"}
                          => backend = "redis" /\ w \in Embedded

(* A queue with a connection is a RedisQueue.                               *)
LEMMA OnlyRedisConnects == Spec => []RedisInv
<1>1. Init => RedisInv
  BY DEF Init, RedisInv, AtStart
<1>2. TypeOK /\ RedisInv /\ IInv /\ [Next]_vars => RedisInv'
  <2> SUFFICES ASSUME TypeOK, RedisInv, IInv, [Next]_vars PROVE RedisInv'
    OBVIOUS
  <2> USE DEF RedisInv, TypeOK
  <2>1. ASSUME NEW t \in Tasks, Enqueue(t) PROVE RedisInv'
    BY <2>1 DEF Enqueue, EnqueueRedis, EnqueueInline, AfterEnsure, Return, Goto
  <2>2. ASSUME NEW t \in Tasks, Resume(t) PROVE RedisInv'
    BY <2>2 DEF Resume, Pinged, PingSucceeded, PingFailed, Write, Written,
                WriteFailed, AfterEnsure, Return, Goto
  <2>3. ASSUME NEW t \in Tasks, Handle(t) PROVE RedisInv'
    <3>1. worker' = worker
      BY <2>3, AttemptIsInline DEF Handle
    <3>2. QED
      BY <2>3, <3>1, HandleApi
  <2>4. CASE ApiCrash
    BY <2>4 DEF ApiCrash, Crashed, InFlight
  <2>5. ASSUME NEW w \in Workers, Connect(w) PROVE RedisInv'
    <3>1. UNCHANGED <<backend, call>>
      BY <2>5, ConnectMoves
    <3>2. backend = "redis" /\ w \in Embedded
      BY <2>5 DEF Connect, DequeueShared, WorkerPinged, WorkerPingSucceeded,
                  WorkerPingFailed
    <3>3. PICK s \in WorkerState : worker' = [worker EXCEPT ![w] = s]
      BY <2>5, ConnectMoves
    <3>4. QED
      BY <3>1, <3>2, <3>3
  <2>6. ASSUME NEW w \in Workers, UNCHANGED apiVars, NEW s,
               worker' = [worker EXCEPT ![w] = s],
               s.phase \in {worker[w].phase, "polling", "sizing", "handling", "down"}
        PROVE  RedisInv'
    BY <2>6 DEF apiVars
  <2>7. ASSUME NEW w \in Workers,
               (\E t \in Tasks : Pop(w, t)) \/ PollNothing(w) \/ Sized(w)
               \/ WorkerCrash(w) \/ WorkerRestart(w) \/ Stop(w)
        PROVE  RedisInv'
    <3>1. Onward(w).phase = "polling"
      BY OnwardState
    <3>2. worker[w] \in WorkerState
      BY DEF WorkerState
    <3>3. CASE \E t \in Tasks : Pop(w, t)
      <4>1. PICK t \in Tasks : Pop(w, t)
        BY <3>3
      <4>2. [worker[w] EXCEPT !.phase = "sizing", !.task = t].phase = "sizing"
        BY <3>2 DEF WorkerState
      <4>3. worker' = [worker EXCEPT ![w] = [worker[w] EXCEPT !.phase = "sizing",
                                                             !.task = t]]
        BY <4>1 DEF Pop
      <4>4. UNCHANGED apiVars
        BY <4>1 DEF Pop
      <4>5. QED
        BY <2>6, <4>2, <4>3, <4>4
    <3>4. CASE PollNothing(w)
      BY <2>6, <3>1, <3>4 DEF PollNothing
    <3>5. CASE Sized(w)
      BY <2>6, <3>1, <3>2, <3>5 DEF Sized, WorkerState
    <3>6. CASE WorkerCrash(w)
      BY <2>6, <3>6 DEF WorkerCrash, Crashed
    <3>7. CASE WorkerRestart(w)
      BY <2>6, <3>7 DEF WorkerRestart, AtStart
    <3>8. CASE Stop(w)
      BY <2>6, <3>2, <3>8 DEF Stop, WorkerState
    <3>9. QED
      BY <2>7, <3>3, <3>4, <3>5, <3>6, <3>7, <3>8
  <2>8. CASE Outage \/ Recovery \/ UNCHANGED vars
    BY <2>8 DEF Outage, Recovery, vars, apiVars
  <2>9. QED
    BY <2>1, <2>2, <2>3, <2>4, <2>5, <2>7, <2>8 DEF Next, Poll, Connect
<1>3. QED
  BY <1>1, <1>2, TypeCorrect, Inductive, PTL DEF Spec

(* What the poison does to a step: it stays, unless the process restarts   *)
(* or a pending ping fails; calls that find it answer False; and workers   *)
(* of the process get no further.                                          *)
Stays ==
    \/ Poisoned' \/ crashes' > crashes
    \/ \E t \in Tasks : call[t] = "refused" /\ call'[t] = "done"
    \/ \E w \in Embedded : worker[w].phase = "refused" /\ worker'[w].phase = "polling"
Denies ==
    \A t \in Tasks : call[t] = "idle" /\ call'[t] # "idle" => answer'[t] = "false"
Halts ==
    \A w \in Embedded : worker[w].phase = "polling"
                         => worker'[w].phase \in {"polling", "down"}

(* Steps of coroutines in enqueue, while the queue is poisoned.            *)
LEMMA PoisonedCall ==
    ASSUME IInv, RedisInv, Poisoned, NEW t \in Tasks, Enqueue(t) \/ Resume(t)
    PROVE  Stays /\ Denies /\ Halts
<1> DEFINE Phases == {"idle", "pinging", "pinged", "refused", "writing",
                      "written", "handling", "done", "gone"}
           Answers == {"none", "true", "false"}
<1> USE DEF Poisoned, Stays, Denies
<1>1. /\ backend = "redis"
      /\ call \in [Tasks -> Phases] /\ answer \in [Tasks -> Answers]
  BY DEF RedisInv, IInv, TypeOK
<1>2. Halts
  BY DEF Halts, Enqueue, EnqueueRedis, EnqueueInline, Resume, Pinged,
         PingSucceeded, PingFailed, Write, Written, WriteFailed
<1>3. CASE Enqueue(t)
  BY <1>1, <1>2, <1>3
     DEF Enqueue, EnqueueRedis, EnqueueInline, AfterEnsure, Return, Goto
<1>4. CASE PingFailed(t)
  BY <1>1, <1>2, <1>4 DEF PingFailed, AfterEnsure, Return, Goto
<1>5. CASE PingSucceeded(t)
  BY <1>1, <1>2, <1>5 DEF PingSucceeded, AfterEnsure, Return, Goto
<1>6. CASE Pinged(t)
  BY <1>1, <1>2, <1>6 DEF Pinged, Goto
<1>7. CASE Write(t)
  BY <1>1, <1>2, <1>7 DEF Write, Goto
<1>8. CASE Written(t)
  BY <1>1, <1>2, <1>8 DEF Written, Return, Goto
<1>9. CASE WriteFailed(t)
  BY <1>1, <1>2, <1>9 DEF WriteFailed, Return, Goto
<1>10. QED
  BY <1>3, <1>4, <1>5, <1>6, <1>7, <1>8, <1>9 DEF Resume

(* Steps of workers, while the queue is poisoned: one that starts on a     *)
(* queue finds no client and goes on to the next.                          *)
LEMMA PoisonedWorker ==
    ASSUME IInv, RedisInv, Poisoned, NEW w \in Workers,
           Poll(w) \/ WorkerCrash(w) \/ WorkerRestart(w) \/ Stop(w)
    PROVE  Stays /\ Denies /\ Halts
<1> USE DEF Poisoned
<1>1. /\ backend = "redis" /\ initialized /\ ~client
      /\ worker \in [Workers -> WorkerState] /\ Embedded \subseteq Workers
  BY QueueAssumption DEF RedisInv, IInv, TypeOK, WorkerState
<1>2. Onward(w) \in WorkerState /\ Onward(w).phase = "polling"
  BY OnwardState DEF IInv
<1>3. UNCHANGED <<call, answer>>
  BY ConnectMoves
     DEF Poll, Connect, Pop, PollNothing, Sized, WorkerCrash, WorkerRestart, Stop,
         apiVars
<1>4. Denies
  BY <1>3 DEF Denies
<1>5. Stays
  <2>1. CASE WorkerPingFailed(w)
    <3>1. w \in Embedded /\ worker[w].phase = "refused"
      BY <2>1 DEF WorkerPingFailed, RedisInv
    <3>2. worker'[w].phase = "polling"
      BY <1>1, <1>2, <2>1 DEF WorkerPingFailed, AfterEnsureOf
    <3>3. QED
      BY <3>1, <3>2 DEF Stays
  <2>2. CASE DequeueShared(w) \/ WorkerPinged(w) \/ WorkerPingSucceeded(w)
    BY <1>1, <2>2
       DEF DequeueShared, WorkerPinged, WorkerPingSucceeded, Stays, apiVars
  <2>3. CASE (\E t \in Tasks : Pop(w, t)) \/ PollNothing(w) \/ Sized(w)
             \/ WorkerCrash(w) \/ WorkerRestart(w) \/ Stop(w)
    BY <2>3
       DEF Pop, PollNothing, Sized, WorkerCrash, WorkerRestart, Stop, Stays, apiVars
  <2>4. QED
    BY <2>1, <2>2, <2>3 DEF Poll
<1>6. ASSUME NEW s, worker' = [worker EXCEPT ![w] = s],
             w \in Embedded /\ worker[w].phase = "polling"
             => s.phase \in {"polling", "down"}
      PROVE  Halts
  BY <1>1, <1>6 DEF Halts
<1>7. CASE DequeueShared(w)
  BY <1>4, <1>5, <1>1, <1>2, <1>6, <1>7 DEF DequeueShared, AfterEnsureOf
<1>8. CASE WorkerPinged(w)
  BY <1>4, <1>5, <1>6, <1>8 DEF WorkerPinged
<1>9. CASE WorkerPingSucceeded(w)
  BY <1>4, <1>5, <1>1, <1>2, <1>6, <1>9 DEF WorkerPingSucceeded, AfterEnsureOf
<1>10. CASE WorkerPingFailed(w)
  BY <1>4, <1>5, <1>2, <1>6, <1>10 DEF WorkerPingFailed, AfterEnsureOf
<1>11. ASSUME NEW t \in Tasks, Pop(w, t) PROVE Halts
  <2>1. w \in Embedded => worker[w].phase = "popping"
    BY <1>1, <1>11 DEF Pop, AtPop
  <2>2. QED
    BY <1>1, <1>11, <2>1 DEF Pop, Halts
<1>12. CASE PollNothing(w)
  BY <1>4, <1>5, <1>2, <1>6, <1>12 DEF PollNothing
<1>13. CASE Sized(w)
  <2>1. worker[w].phase = "sizing"
    BY <1>13 DEF Sized
  <2>2. QED
    BY <1>4, <1>5, <1>6, <1>13, <2>1 DEF Sized
<1>14. CASE WorkerCrash(w)
  BY <1>4, <1>5, <1>6, <1>14 DEF WorkerCrash, Crashed
<1>15. CASE WorkerRestart(w)
  BY <1>4, <1>5, <1>6, <1>15 DEF WorkerRestart
<1>16. CASE Stop(w)
  BY <1>4, <1>5, <1>1, <1>16 DEF Stop, Halts, WorkerState
<1>17. QED
  BY <1>4, <1>5, <1>7, <1>8, <1>9, <1>10, <1>11, <1>12, <1>13, <1>14, <1>15, <1>16
     DEF Poll

(* A queue that is initialized without a client answers False to every new *)
(* call, gives its workers nothing, and stays so until its process         *)
(* restarts or a pending ping fails.                                       *)
THEOREM PoisonStays == Spec => PoisonIsFatal
<1>1. IInv /\ RedisInv /\ [Next]_vars
      => [Poisoned =>
            /\ \/ Poisoned' \/ crashes' > crashes
               \/ \E t \in Tasks : call[t] = "refused" /\ call'[t] = "done"
               \/ \E w \in Embedded : /\ worker[w].phase = "refused"
                                      /\ worker'[w].phase = "polling"
            /\ \A t \in Tasks : call[t] = "idle" /\ call'[t] # "idle"
                                => answer'[t] = "false"
            /\ \A w \in Embedded : worker[w].phase = "polling"
                                   => worker'[w].phase \in {"polling", "down"}]_vars
  <2> SUFFICES ASSUME IInv, RedisInv, [Next]_vars, Poisoned
               PROVE  Stays /\ Denies /\ Halts
    BY DEF Stays, Denies, Halts
  <2>1. ASSUME NEW t \in Tasks, Handle(t) PROVE Stays /\ Denies /\ Halts
    <3>1. worker' = worker
      BY <2>1, AttemptIsInline DEF Handle
    <3>2. Stays
      BY <2>1, HandleApi DEF Poisoned, Stays
    <3>3. Denies
      BY <2>1, HandleApi DEF Denies, IInv, TypeOK
    <3>4. QED
      BY <3>1, <3>2, <3>3 DEF Halts
  <2>2. CASE ApiCrash
    <3>1. crashes \in 0 .. MaxCrashes
      BY DEF IInv, TypeOK
    <3>2. crashes' > crashes
      BY <2>2, <3>1 DEF ApiCrash
    <3>3. \A t \in Tasks : call[t] = "idle" => call'[t] = "idle"
      BY <2>2 DEF ApiCrash, InFlight
    <3>4. \A w \in Embedded : worker'[w].phase = "down"
      BY <2>2, QueueAssumption DEF ApiCrash, Crashed
    <3>5. QED
      BY <3>2, <3>3, <3>4 DEF Stays, Denies, Halts
  <2>3. CASE Outage \/ Recovery \/ UNCHANGED vars
    <3>1. UNCHANGED <<call, client, initialized, worker>>
      BY <2>3 DEF Outage, Recovery, vars, apiVars
    <3>2. QED
      BY <3>1 DEF Poisoned, Stays, Denies, Halts
  <2>4. ASSUME NEW t \in Tasks, Enqueue(t) \/ Resume(t)
        PROVE  Stays /\ Denies /\ Halts
    BY <2>4, PoisonedCall
  <2>5. ASSUME NEW w \in Workers,
               Poll(w) \/ WorkerCrash(w) \/ WorkerRestart(w) \/ Stop(w)
        PROVE  Stays /\ Denies /\ Halts
    BY <2>5, PoisonedWorker
  <2>6. QED
    BY <2>1, <2>2, <2>3, <2>4, <2>5 DEF Next
<1>2. QED
  BY <1>1, Inductive, OnlyRedisConnects, PTL DEF Spec, PoisonIsFatal

------------------------------------------------------------------------------
(* The queue implements the ledger.                                        *)

Same(t) == StatusOf(t)' = StatusOf(t)
Ended(t) == StatusOf(t) \in {"new", "taken"} /\ StatusOf(t)' = "over"

(* Steps that only end tasks, or change nothing the ledger shows.          *)
LEMMA EndStep ==
    ASSUME \A t \in Tasks : Same(t) \/ Ended(t)
    PROVE  Ledger!Next
<1> DEFINE S == {t \in Tasks : Ended(t)}
<1>1. Ledger!End(S)
  BY DEF Ledger!End, Same, Ended
<1>2. QED
  BY <1>1 DEF Ledger!Next

(* A step that queues one task.                                            *)
LEMMA AcceptStep ==
    ASSUME NEW t \in Tasks, StatusOf(t) = "new", StatusOf(t)' = "queued",
           \A u \in Tasks \ {t} : Same(u)
    PROVE  Ledger!Next
<1>1. Ledger!Accept(t)
  BY DEF Ledger!Accept, Same
<1>2. QED
  BY <1>1 DEF Ledger!Next

(* A step that takes one task.                                             *)
LEMMA TakeStep ==
    ASSUME NEW t \in Tasks, StatusOf(t) \in {"new", "queued"},
           StatusOf(t)' = "taken", \A u \in Tasks \ {t} : Same(u)
    PROVE  Ledger!Next
<1>1. Ledger!Take(t)
  BY DEF Ledger!Take, Same
<1>2. QED
  BY <1>1 DEF Ledger!Next

Held(t) == \E w \in Workers : worker[w].task = t
Stored(t) == \E k \in Keys : t \in store[k]

(* The status of a task, and what the invariant says of it: a task that is *)
(* held or stored was written, and an inline handler's task was not.       *)
LEMMA StatusFacts ==
    ASSUME IInv, NEW t \in Tasks
    PROVE  /\ StatusOf(t) = IF Inline(t) \/ Held(t) THEN "taken"
                            ELSE IF Stored(t) THEN "queued"
                            ELSE IF t \in written \/ call[t] \in {"done", "gone"}
                            THEN "over" ELSE "new"
           /\ Held(t) \/ Stored(t) => t \in written
           /\ Held(t) => ~Stored(t)
           /\ Inline(t) => t \notin written
<1>1. StatusOf(t) = IF Inline(t) \/ Held(t) THEN "taken"
                    ELSE IF Stored(t) THEN "queued"
                    ELSE IF t \in written \/ call[t] \in {"done", "gone"}
                    THEN "over" ELSE "new"
  BY DEF StatusOf, Held, Stored
<1>2. Held(t) => t \in written /\ ~Stored(t)
  BY QueueAssumption DEF IInv, WorkerInv, Held, Stored
<1>3. Stored(t) => t \in written
  BY DEF IInv, StoreInv, Stored
<1>4. Inline(t) => t \notin written
  BY DEF IInv, StoreInv, Inline, Unwritten
<1>5. QED
  BY <1>1, <1>2, <1>3, <1>4

(* The same after a step.                                                  *)
LEMMA StatusAfter ==
    ASSUME NEW t \in Tasks
    PROVE  StatusOf(t)' = IF Inline(t)' \/ Held(t)' THEN "taken"
                          ELSE IF Stored(t)' THEN "queued"
                          ELSE IF t \in written' \/ call'[t] \in {"done", "gone"}
                          THEN "over" ELSE "new"
BY DEF StatusOf, Held, Stored

(* A coroutine moves on, and ends its task at most.                        *)
LEMMA CallStep ==
    ASSUME IInv, NEW t \in Tasks, UNCHANGED <<store, written, worker>>,
           \A u \in Tasks \ {t} : call'[u] = call[u],
           call[t] \notin {"done", "gone"}, call'[t] # "handling",
           call[t] = "handling" => call'[t] = "done"
    PROVE  Ledger!Next
<1>1. ASSUME NEW u \in Tasks PROVE Same(u) \/ Ended(u)
  <2>1. (Held(u)' <=> Held(u)) /\ (Stored(u)' <=> Stored(u))
    BY DEF Held, Stored
  <2>2. CASE u # t
    BY <2>1, <2>2, StatusFacts, StatusAfter DEF Same, Inline
  <2>3. CASE u = t
    BY <2>1, <2>3, StatusFacts, StatusAfter DEF Same, Ended, Inline
  <2>4. QED
    BY <2>2, <2>3
<1>2. QED
  BY <1>1, EndStep

(* A worker moves on, and lets go of its task at most.                     *)
LEMMA WorkerStep ==
    ASSUME IInv, NEW w \in Workers, UNCHANGED <<call, store, written>>,
           \A v \in Workers \ {w} : worker'[v] = worker[v],
           worker'[w].task \in {worker[w].task, NoTask}
    PROVE  Ledger!Next
<1>1. ASSUME NEW u \in Tasks PROVE Same(u) \/ Ended(u)
  <2>1. (Stored(u)' <=> Stored(u)) /\ (Inline(u)' <=> Inline(u))
    BY DEF Stored, Inline
  <2>2. u # NoTask
    BY QueueAssumption
  <2>3. Held(u)' => Held(u)
    BY <2>2 DEF Held
  <2>4. QED
    BY <2>1, <2>3, StatusFacts, StatusAfter DEF Same, Ended
<1>2. QED
  BY <1>1, EndStep

(* A step that the ledger does not see.                                    *)
LEMMA HiddenStep ==
    ASSUME UNCHANGED <<call, store, written, worker>>
    PROVE  UNCHANGED [t \in Tasks |-> StatusOf(t)]
BY DEF StatusOf, Inline

(* A call of enqueue: its task may go straight to a handler.               *)
LEMMA EnqueueRefines ==
    ASSUME IInv, NEW t \in Tasks, Enqueue(t)
    PROVE  Ledger!Next
<1> DEFINE Phases == {"idle", "pinging", "pinged", "refused", "writing",
                      "written", "handling", "done", "gone"}
<1>1. call \in [Tasks -> Phases]
  BY DEF IInv, TypeOK
<1>2. CASE EnqueueRedis(t)
  <2>1. UNCHANGED <<store, written, worker>> /\ call[t] = "idle"
    BY <1>2 DEF EnqueueRedis, redisVars
  <2>2. PICK phase \in {"writing", "pinging", "done"} :
           call' = [call EXCEPT ![t] = phase]
    BY <1>2 DEF EnqueueRedis, AfterEnsure, Return, Goto
  <2>3. QED
    BY <1>1, <2>1, <2>2, CallStep
<1>3. CASE EnqueueInline(t) /\ TypeOf[t] \notin Handled
  <2>1. UNCHANGED <<store, written, worker>> /\ call[t] = "idle"
    BY <1>3 DEF EnqueueInline, redisVars
  <2>2. call' = [call EXCEPT ![t] = "done"]
    BY <1>3 DEF EnqueueInline, Return, Goto
  <2>3. QED
    BY <1>1, <2>1, <2>2, CallStep
<1>4. CASE EnqueueInline(t) /\ TypeOf[t] \in Handled
  <2>1. UNCHANGED <<store, written, worker>> /\ call[t] = "idle"
    BY <1>4 DEF EnqueueInline, redisVars
  <2>2. call' = [call EXCEPT ![t] = "handling"]
    BY <1>4 DEF EnqueueInline, Goto
  <2>3. t \notin written
    BY <2>1 DEF IInv, StoreInv, Unwritten
  <2>4. StatusOf(t) = "new" /\ StatusOf(t)' = "taken"
    BY <1>1, <2>1, <2>2, <2>3, StatusFacts, StatusAfter DEF Inline
  <2>5. \A u \in Tasks \ {t} : Same(u)
    BY <1>1, <2>1, <2>2 DEF Same, StatusOf, Inline
  <2>6. QED
    BY <2>4, <2>5, TakeStep
<1>5. QED
  BY <1>2, <1>3, <1>4 DEF Enqueue

(* Redis stores a task that it never had.                                  *)
LEMMA WriteRefines ==
    ASSUME IInv, NEW t \in Tasks, Write(t)
    PROVE  Ledger!Next
<1>1. /\ call[t] = "writing" /\ UNCHANGED worker
      /\ call' = [call EXCEPT ![t] = "written"]
      /\ store' = [store EXCEPT ![KeyOf(t)] = @ \cup {t}]
      /\ written' = written \cup {t}
  BY DEF Write, Goto
<1>2. call \in [Tasks -> {"idle", "pinging", "pinged", "refused", "writing",
                          "written", "handling", "done", "gone"}]
      /\ store \in [Keys -> SUBSET Tasks]
  BY DEF IInv, TypeOK
<1>3. t \notin written
  BY <1>1 DEF IInv, StoreInv, Unwritten
<1>4. KeyOf(t) \in Keys
  BY DEF KeyOf, Keys
<1>5. \A u \in Tasks : Held(u)' <=> Held(u)
  BY <1>1 DEF Held
<1>6. Stored(t)' /\ \A u \in Tasks \ {t} : Stored(u)' <=> Stored(u)
  BY <1>1, <1>2, <1>4 DEF Stored
<1>7. StatusOf(t) = "new" /\ StatusOf(t)' = "queued"
  BY <1>1, <1>2, <1>3, <1>5, <1>6, StatusFacts, StatusAfter DEF Inline
<1>8. \A u \in Tasks \ {t} : Same(u)
  BY <1>1, <1>2, <1>5, <1>6, StatusFacts, StatusAfter DEF Same, Inline
<1>9. QED
  BY <1>7, <1>8, AcceptStep

(* The other steps of a coroutine in enqueue.                              *)
LEMMA ResumeRefines ==
    ASSUME IInv, NEW t \in Tasks, Resume(t)
    PROVE  Ledger!Next
<1> DEFINE Moves == /\ UNCHANGED <<store, written, worker>>
                    /\ call[t] \notin {"done", "gone", "handling"}
                    /\ \E phase \in {"pinged", "refused", "writing", "done"} :
                          call' = [call EXCEPT ![t] = phase]
<1>1. call \in [Tasks -> {"idle", "pinging", "pinged", "refused", "writing",
                          "written", "handling", "done", "gone"}]
  BY DEF IInv, TypeOK
<1>2. Moves => Ledger!Next
  <2>1. SUFFICES ASSUME Moves PROVE Ledger!Next
    OBVIOUS
  <2>2. PICK phase \in {"pinged", "refused", "writing", "done"} :
           call' = [call EXCEPT ![t] = phase]
    BY <2>1
  <2>3. QED
    BY <1>1, <2>1, <2>2, CallStep
<1>3. CASE Pinged(t)
  BY <1>2, <1>3 DEF Pinged, Goto, redisVars
<1>4. CASE PingSucceeded(t)
  BY <1>2, <1>4 DEF PingSucceeded, AfterEnsure, Return, Goto, redisVars
<1>5. CASE PingFailed(t)
  BY <1>2, <1>5 DEF PingFailed, AfterEnsure, Return, Goto, redisVars
<1>6. CASE Written(t)
  BY <1>2, <1>6 DEF Written, Return, Goto, redisVars
<1>7. CASE WriteFailed(t)
  BY <1>2, <1>7 DEF WriteFailed, Return, Goto, redisVars
<1>8. QED
  BY <1>3, <1>4, <1>5, <1>6, <1>7, WriteRefines DEF Resume

(* An attempt of a handler ends its task, or leaves it where it is.        *)
LEMMA HandleRefines ==
    ASSUME IInv, NEW t \in Tasks, Handle(t)
    PROVE  Ledger!Next \/ UNCHANGED [u \in Tasks |-> StatusOf(u)]
<1>1. PICK effective \in BOOLEAN, confirmed \in BOOLEAN :
         Attempt(t, effective, confirmed)
  BY DEF Handle
<1>2. UNCHANGED <<store, written, worker>>
  BY <1>1, AttemptIsInline DEF Attempt, redisVars
<1>3. CASE call' = call
  BY <1>2, <1>3, HiddenStep
<1>4. CASE call' = [call EXCEPT ![t] = "done"]
  <2>1. call[t] = "handling" /\ call'[t] = "done"
        /\ \A u \in Tasks \ {t} : call'[u] = call[u]
    BY <1>4, HandleApi DEF IInv, TypeOK
  <2>2. QED
    BY <1>2, <2>1, CallStep
<1>5. QED
  BY <1>3, <1>4, HandleApi

(* A worker pops a task that was queued.                                   *)
LEMMA PopRefines ==
    ASSUME IInv, NEW w \in Workers, NEW t \in Tasks, Pop(w, t)
    PROVE  Ledger!Next
<1> DEFINE key == Polled[worker[w].at]
<1>1. /\ worker \in [Workers -> WorkerState]
      /\ store \in [Keys -> SUBSET Tasks]
  BY DEF IInv, TypeOK, WorkerState
<1>2. /\ worker[w].phase \in {"polling", "popping"} /\ t \in store[key]
      /\ worker' = [worker EXCEPT ![w].phase = "sizing", ![w].task = t]
      /\ store' = [store EXCEPT ![key] = @ \ {t}]
      /\ UNCHANGED <<call, written>>
  BY DEF Pop, AtPop, Polls, Lowest, QueueAt, apiVars
<1>3. key \in Keys
  BY <1>1 DEF WorkerState, Polled, Keys, QueueNames
<1>4. Stored(t) /\ \A k \in Keys : t \in store[k] => k = key
  BY <1>2, <1>3 DEF IInv, StoreInv, Stored
<1>5. ~Stored(t)' /\ \A u \in Tasks \ {t} : Stored(u)' <=> Stored(u)
  BY <1>1, <1>2, <1>3, <1>4 DEF Stored
<1>6. worker[w].task = NoTask
  BY <1>2 DEF IInv, WorkerInv
<1>7. Held(t)' /\ \A u \in Tasks \ {t} : Held(u)' <=> Held(u)
  BY <1>1, <1>2, <1>6, QueueAssumption DEF Held, WorkerState
<1>8. StatusOf(t) = "queued" /\ StatusOf(t)' = "taken"
  BY <1>4, <1>7, StatusFacts, StatusAfter
<1>9. \A u \in Tasks \ {t} : Same(u)
  BY <1>2, <1>5, <1>7, StatusFacts, StatusAfter DEF Same, Inline
<1>10. QED
  BY <1>8, <1>9, TakeStep

(* The other steps of a worker, crashes and stops included.                *)
LEMMA WorkerRefines ==
    ASSUME IInv, NEW w \in Workers,
           Connect(w) \/ PollNothing(w) \/ Sized(w) \/ WorkerCrash(w)
           \/ WorkerRestart(w) \/ Stop(w)
    PROVE  Ledger!Next
<1>1. worker \in [Workers -> WorkerState]
  BY DEF IInv, TypeOK, WorkerState
<1>2. UNCHANGED <<call, store, written>>
  BY ConnectMoves DEF PollNothing, Sized, WorkerCrash, WorkerRestart, Stop, apiVars, redisVars
<1>3. /\ \A v \in Workers \ {w} : worker'[v] = worker[v]
      /\ worker'[w].task \in {worker[w].task, NoTask}
  <2>1. Onward(w).task = NoTask
    BY <1>1 DEF Onward, WorkerState
  <2>2. CASE PollNothing(w)
    BY <1>1, <2>1, <2>2 DEF PollNothing
  <2>3. CASE Sized(w)
    BY <1>1, <2>1, <2>3 DEF Sized, WorkerState
  <2>4. CASE WorkerCrash(w) \/ WorkerRestart(w)
    BY <1>1, <2>4 DEF WorkerCrash, WorkerRestart, Crashed, AtStart
  <2>5. CASE Stop(w)
    BY <1>1, <2>5 DEF Stop, WorkerState
  <2>6. CASE Connect(w)
    BY <1>1, <2>6, ConnectMoves
  <2>7. QED
    BY <2>2, <2>3, <2>4, <2>5, <2>6
<1>4. QED
  BY <1>2, <1>3, WorkerStep

(* The API process ends every task that was in one of its coroutines and   *)
(* not in Redis, and those its workers held.                               *)
LEMMA ApiCrashRefines ==
    ASSUME IInv, ApiCrash
    PROVE  Ledger!Next
<1>1. /\ UNCHANGED <<store, written>>
      /\ worker' = [w \in Workers |-> IF w \in Embedded THEN Crashed ELSE worker[w]]
      /\ call' = [t \in Tasks |-> IF InFlight(t) THEN "gone" ELSE call[t]]
  BY DEF ApiCrash, redisVars
<1>2. ASSUME NEW u \in Tasks PROVE Same(u) \/ Ended(u)
  <2>1. u # NoTask
    BY QueueAssumption
  <2>2. (Held(u)' => Held(u)) /\ (Stored(u)' <=> Stored(u))
    BY <1>1, <2>1 DEF Held, Stored, Crashed
  <2>3. ~Inline(u)'
    BY <1>1 DEF Inline, InFlight
  <2>4. call'[u] \in {"done", "gone"} \/ (call'[u] = "idle" /\ call[u] = "idle")
    BY <1>1 DEF InFlight
  <2>5. CASE Held(u)
    <3>1. StatusOf(u) = "taken" /\ u \in written /\ ~Stored(u)
      BY <2>5, StatusFacts
    <3>2. StatusOf(u)' \in {"taken", "over"}
      BY <1>1, <2>2, <2>3, <3>1, StatusAfter
    <3>3. QED
      BY <3>1, <3>2 DEF Same, Ended
  <2>6. CASE ~Held(u)
    BY <1>1, <2>2, <2>3, <2>4, <2>6, StatusFacts, StatusAfter
       DEF Same, Ended, Inline, InFlight
  <2>7. QED
    BY <2>5, <2>6
<1>3. QED
  BY <1>2, EndStep

(* Every step of the queue is a step of the ledger, or hidden from it.     *)
LEMMA NextRefines ==
    IInv /\ [Next]_vars => Ledger!Next \/ UNCHANGED [t \in Tasks |-> StatusOf(t)]
<1> SUFFICES ASSUME IInv, [Next]_vars
             PROVE  Ledger!Next \/ UNCHANGED [t \in Tasks |-> StatusOf(t)]
  OBVIOUS
<1>1. ASSUME NEW t \in Tasks, Enqueue(t) \/ Resume(t) PROVE Ledger!Next
  BY <1>1, EnqueueRefines, ResumeRefines
<1>2. ASSUME NEW w \in Workers, Poll(w) PROVE Ledger!Next
  BY <1>2, PopRefines, WorkerRefines DEF Poll, Connect
<1>3. ASSUME NEW w \in Workers, WorkerCrash(w) \/ WorkerRestart(w) \/ Stop(w)
      PROVE  Ledger!Next
  BY <1>3, WorkerRefines
<1>4. ASSUME UNCHANGED <<call, store, written, worker>>
      PROVE  UNCHANGED [t \in Tasks |-> StatusOf(t)]
  BY <1>4, HiddenStep
<1>5. CASE Outage \/ Recovery \/ UNCHANGED vars
  BY <1>4, <1>5 DEF Outage, Recovery, vars, apiVars, redisVars
<1>6. QED
  BY <1>1, <1>2, <1>3, <1>5, HandleRefines, ApiCrashRefines DEF Next

(* The queue implements the ledger: whatever outages, lost replies and     *)
(* crashes occur, and however many workers poll, no task is queued twice,  *)
(* taken twice, or lost while it waits in Redis.                           *)
THEOREM AtMostOnce == Spec => ImplementsLedger
<1>1. Init => Ledger!Init
  <2> SUFFICES ASSUME Init PROVE Ledger!Init
    OBVIOUS
  <2>1. ASSUME NEW t \in Tasks PROVE StatusOf(t) = "new"
    BY QueueAssumption DEF Init, StatusOf, Inline, AtStart, Keys
  <2>2. QED
    BY <2>1 DEF Ledger!Init
<1>2. QED
  BY <1>1, Inductive, NextRefines, PTL DEF Spec, ImplementsLedger, Ledger!Spec

==============================================================================
