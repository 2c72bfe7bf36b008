# Verification of Hestia Shield

TLA+ models of the core of Hestia Shield (`src/hestia`), model-checked with TLC
and, for the properties that matter most, proved with TLAPS. Line numbers refer
to the files of the repository.

- [The system](#the-system): inventory of its parts
- [The decision engine](#the-decision-engine), [The task queue](#the-task-queue),
  [The storage](#the-storage), [Clients and guards](#clients-and-guards),
  [Alerts](#alerts), [Federated learning](#federated-learning), [Plugins](#plugins): what is modelled, how it corresponds to
  the code, what is checked and proved
- [Runs](#runs), [Proofs](#proofs), [What the checks found](#what-the-checks-found)
- [Plan](#plan) and [Not modelled](#not-modelled)

Each module is checked with `tlc -config <cfg> <module>` and proved with
`tlapm <module>`. `PROJECT.json` maps every definition to the lines it models,
lists the runs, the hazards of the code and the theorems. Operators whose
comment begins with "Fault:" are not part of a model: each is a plausible bug in
the definition that follows it, and put in that definition's place it must make
TLC find one of the properties violated.

## The system

Hestia Shield decides whether the prompts and tool calls of AI agents may pass.
An API process serves HTTP; per tenant it keeps one `DecisionEngine` in memory.
Guards in the agents' processes (LangChain, CrewAI, AutoGen) call the API before
they run a tool.

| Part | State | Operations | What makes it correct |
|---|---|---|---|
| Decision engine (`decision_engine.py`) | decision count, block level | `evaluate_prompt`, `evaluate_tool_call`, `_record_decision`, healing cycle | what must be blocked is blocked, whatever the engine has learned |
| Rules (`rules_engine.py`, `models.py`) | rule list, dictionary by id | `evaluate`, `add_rule`, `remove_rule` | the operator's rules keep precedence |
| Classifier (`classifier.py`) | none | `classify` | a keyword gives the level its table says |
| Healing (`healing/`) | window of decisions, block threshold, times of the last rollback and adjustment | `record_decision`, `tick`, suppression | corrections are bounded, consistent, and can be undone |
| Adaptive policies (`policy/`) | pending and applied policies | `generate`, `apply`, `approve_pending`, `reject_pending` | only approved policies are in force, each once |
| Attack memory and learning (`memory/`) | SQLite table of records, learner's and optimizer's weights | `store`, `get_recent`, `learn_from_history`, `update` | what was decided is remembered |
| Task queue (`queue.py`, `webhooks.py`, `worker.py`) | sorted sets in Redis, one shared connection, workers' loops | `enqueue`, `dequeue`, `poll_once`, handlers | at most once, truthful answers, progress |
| Storage (`storage.py`, `storage_postgres.py`, `storage_base.py`) | eight JSON files, or eight tables behind a connection pool | create, read, update of tenants, keys, events, logs, webhooks, alerts, agents, statistics | no lost update, same contract in both backends, durable |
| Authentication (`auth.py`) | signing secret; keys in the storage | token creation and validation | a revoked key gives no access |
| API (`api.py`), dashboard (`dashboard.py`) | engines by tenant | endpoints, startup, shutdown | tenants are isolated |
| Federated learning (`federated/`) | contributions, global patterns, times of the last contribution and sync | `contribute`, `sync`, `aggregate`, `ingest`, `query_similar` | rate limits and bounded stores that keep the newest |
| User history (`attack_memory.py`), agent monitor (`agent_monitor.py`) | events per user, profile per agent | `record_event`, `get_user_risk_profile`, `record_tool_call` | the profile reflects the recent past |
| Alerts (`alerts/`) | rules with cooldowns, event window, channels | `process_event`, dispatch | no alert is lost, none repeated within its cooldown |
| Plugins (`plugins/`) | plugins by name, their hooks | `register`, `unregister`, `execute_hooks` | one failing handler does not stop the others |
| Guards (`integrations/`) | the client's cached token | `evaluate_*`, tool wrappers, callbacks, guardrails | a failed check blocks when told to |
| Cache (`cache.py`) | connection | `get`, `set` | a failure is temporary |
| ML (`ml/`), metrics, telemetry, configuration | | | out of scope, see [Not modelled](#not-modelled) |
| Attack agent (`kaggle_agent_security/`) | plans and memory of one game | generates prompts against a target | not part of the shield |

How they interact: a guard's client exchanges its API key for a token, which the
API checks against the storage, and sends the token with every prompt and tool
call. The API awaits the engine, then awaits `queue_event` before it
answers. `evaluate_prompt` and `evaluate_tool_call` are coroutines without a
single `await`, so on the API's event loop each runs to its end; the engine calls
its rules, classifier, memory, policy generator and healing synchronously. The
queue is the part where coroutines, processes and a server really interleave. The
storage is called from the API and from workers, usually of several processes:
the JSON files have a lock around each read and each write only, the tables have
PostgreSQL's row locks. Alert manager and plugin registry are called by the
program that embeds them, the latter also by the plugins themselves. After it has
recorded a decision the engine contributes to its federated aggregator; a sync is
only ever asked for through the API.

The hard behaviours, hence the order of the work: feedback loops in the engine
(a decision changes the rules and the threshold the next decision is made with),
the races and failures of the queue, read-modify-write and restarts of the
storage, transactions, fail-open clients, alerts whose cooldown starts before they
are sent, handlers that change the registry which is calling them, and limits kept
by a wall clock.

## The decision engine

| Module | Models |
|---|---|
| `Rules` | `RulesEngine`, `Rule.matches`, `PolicyApplier._apply_rules`, as operators over a rule list and a dictionary |
| `Classifier` | `TextClassifier.classify` over the set of keywords a prompt contains |
| `Healing` | the rates of `HealthMonitor`, the arithmetic of `AdaptiveThresholds` and `set_heal_thresholds` |
| `PolicyGenerator` | `AdaptivePolicyGenerator.generate` over the records of the attack memory |
| `DecisionEngine` | the state machine: one tenant's engine with its feedback loops |
| `MCDecisionEngine` | prompts of two or three risk levels, a tool call that is learned about and a critical one, an operator's rule for the former |
| `DecisionEngine_proofs` | the theorems |

One evaluation is one step (there is no await in it). Its outcome is computed by
`PromptOutcome` and `ToolOutcome`, whose branches are the early returns in the
code's order. **Only the final ALLOW of either function reaches
`_record_decision`** (lines 336 and 461); every early return leaves the engine as
it was (`EarlyReturn`). `RecordDecision` is all of `_record_decision` in its order:
count, health monitor, memory, policy generation, healing cycle with rollback
before adjustment. The other actions are the operator's (`Approve`, `Reject`,
`Suppress`), whoever labels outcomes (`Label`, the only way a label enters the
window), and time (`Elapse`).

Abstractions. A prompt is the set of keywords it contains; substring search
becomes membership. Rates are in ten-thousandths and thresholds in hundredths,
the precision the code rounds to, so the rounding (half to even in `int(round())`)
is exact. Rule and policy ids are numbered instead of drawn. The verdict of the ML
model, the highest risk among federated matches and a user's high-risk profile
are inputs, chosen freely in each step. The self learner and the strategy
optimizer are left out: no decision reads them. The memory is the newest
`GenerationLimit` records, all that `generate(limit=100)` can see. Clocks are ages
that stop counting at their cooldown.

What the properties say about the code:

- `CriticalNeverPasses`: however far healing has moved the threshold, a prompt
  of CRITICAL risk that no rule decides is blocked.
- `LevelMovesByOne`: one adjustment moves the block level by at most one, although
  two corrections may apply, each with its own clamp, and halves round to even.
- `PolicyAccounting`: approval, rejection and rollback never disagree about a
  policy: none is in two of pending, applied and rejected. A policy proposed by the
  decision that triggers a rollback is discarded in the same step.
- `OperatorFirstThenApplied`: the operator's rules stay in their places in the
  list, and what follows them are rules of applied policies, each once.
- `OperatorRulesPrevail`: a learned rule never overrules an operator's rule of
  priority 3 or more, through the sort and the tie with an older rule.
- `OverblockedIsRecorded` (violated by the code): `docs/v2.0.0-architecture.md:211`
  lowers the thresholds after false positives to reduce the sensitivity, and line
  202 has the decision recorded. So when only false positives are reported, a prompt
  that the first threshold let pass should still pass, or at least its block be
  recorded. The engine compares with `>=`: lowering makes it block more, down to a
  level LOW at which every prompt that no rule decides is blocked. And a block is
  not recorded: it leaves memory, window and decision count alone, so it drives no
  healing cycle either, and only an allowed tool call can still end such a lockout.

What the generator can learn follows from the same early returns. The memory holds
only what was allowed, so there is never a blocked record to learn from: every
policy the engine can propose is one review rule for the tool name `unknown`, under
which prompts without a tool are counted (`PendingReviews` in the proofs, for any
prompts and tools). The keyword rules and block rules of the generator, though they
are in the module, are out of the engine's reach. `Repeated` tells which words occur
more than once in a prompt that has them, for the generator counts occurrences.

A remark on the classifier, visible in the module: seven keywords of the tables
(`wipe`, `purge all`, `destroy database`, ...) are looked for, and do not count in
the decision, so a prompt with one of them only is LOW.

## The task queue

| Module | Models |
|---|---|
| `TaskLedger` | what the queue promises: at most once, and nothing lost while it waits |
| `TaskQueue` | coroutines in `enqueue`, the shared connection, Redis, workers, handlers, crashes, outages |
| `MCTaskQueue` | a webhook, and a task whose type is the name of a queue |
| `TaskQueue_proofs` | the theorems |

Every await is a boundary between steps. A coroutine in `RedisQueue.enqueue` is
`idle`, `pinging` (awaiting the ping), `pinged` or `refused` (answered, not yet
resumed), `writing`, `written` (stored, not yet resumed), `done`, or `gone` with its
process. `client` and `initialized` are `_redis` and `_initialized`, shared by all
of them. `handling` is a handler that a configured `NullQueue` awaits inline. A
worker is `polling` the queue at its place in the round, `sizing` (between the
pop and the `zcard` that follows it, where a failure loses the task), `handling`,
or `down`. An `Attempt` of a handler may take effect and may be confirmed, and not
be confirmed although it took effect.

A worker in the API process (`Embedded`) shares the RedisQueue of `get_queue()` with
the coroutines in `enqueue`: its `dequeue` begins with the same `_ensure_redis`
(`DequeueShared`, and `pinging`, `pinged`, `refused` as above) and returns nothing when
it then finds no client; `popping` is its `bzpopmin`. A worker in a process of its own
has a queue of its own, on which it awaits one call at a time: there nothing can
come between the ping and the client, and a call succeeds if Redis is up, so that
its connection is left out.

Abstractions. Redis keeps its data over an outage (the compose file's `allkeys-lru`
policy, docker-compose.yml:87, may drop queues under memory pressure; that is not
modelled). `dequeue_all` and `queue_size` have no caller. `Worker.stop` closes the
connections of the queue it shares; the next call on them opens them again. Within
`src/` only the tests start a `Worker`; the model takes the class as its docstrings
mean it to be run, "in a separate process/thread" (`worker.py:111`) or "in background
task" (`worker.py:173`).

The properties:

- `ImplementsLedger` (refinement of `TaskLedger`, with the status of a task as the
  refinement mapping): across outages, lost replies, crashes and several workers,
  no task is queued twice, taken twice, or lost while it waits in Redis.
- `AnswerIsTrue`: `enqueue` answers True only if Redis stored the task or a handler
  delivered it. The converse does not hold (a lost reply), and is not claimed.
- `PoisonIsFatal`: once the queue is initialized without a client, every new call
  answers False, and a worker that shares the queue never gets as far as Redis; a
  restart ends it, or a ping that was already under way and fails. Redis coming back
  does not, although `queue.py:157` speaks of falling back to a `NullQueue`.
- `CallsReturn`, `PolledQueuesDrain`: progress, under fairness. Every call returns,
  and what is under a key that workers poll is popped unless every worker is stopped
  or cut off by the poisoned queue it shares.
- `StoredIsProcessed` (violated by the code): `worker.py:4` says that workers process
  webhook deliveries, audit entries and events from Redis. The types that have
  handlers are stored under the default key, which no worker polls; what workers do
  pop has no handler.

Fairness: `WF` on each coroutine's steps and on each worker's (the event loop runs
what is ready, and TCP gives up on a silent Redis), on the restart of a worker
(compose and Kubernetes restart it) and on the end of an outage. There is none on
`Enqueue`, `Stop` or the crashes: nobody has to do these. Since crashes and
outages are bounded, they end.

## The storage

| Module | Models |
|---|---|
| `StorageBackend` | the operations and the collection each works on |
| `RecordStore` | what `StorageBackend` promises: a table on which operations take effect one at a time |
| `Storage` | `Storage` and `ThreadSafeFile`: threads of several processes on one data directory |
| `MCStorage` | two processes, one of them with two threads, and a few operations on each file |
| `MCStorage_threads` | two threads of one process that is started again, with a history of how what was created got lost |
| `Storage_proofs` | the theorems about the files |
| `PostgresStorage` | `PostgresStorage`: transactions of several processes on one table |
| `MCPostgres` | two processes, one of them with two coroutines for one connection, and a few operations on each table |
| `PostgresStorage_proofs` | the theorems about the tables |

### JSON files

Every operation reads a file, computes, and writes the whole file back. A step of
the model is the read with the computation (`Read`, `ReadRaises`), the truncation
that `write_text` begins with (`Truncate`), a part of a long list reaching the file
(`WritePart`), and the end of the write with the operation's answer (`Finish`).
`ThreadSafeFile._lock` is held for a read or from `Truncate` to `Finish`, and only
against threads of the same process (`Locked`). Several processes are the normal
case: without `HESTIA_DATABASE_URL` the four gunicorn workers of the Dockerfile
share `HESTIA_DATA_DIR`. `Start` and `Initialized` are `initialize`, which overwrites
the file with its default, through the same `write_text`; `Close` is the shutdown
event, after the requests under way.

Abstractions. A behaviour is about one of the eight files (`about`, chosen at the
start): no operation touches two, and `initialize` treats all alike, one after the
other. At the beginning there are no files. A record is an id and one value, the part
an update changes; a revoked key has the value `revoked`. Ids that the code draws are
part of the operation. A key stands for its hash. Errors of the file system, such as
a full disk, are left out. When two processes write one file at once, each writes at
its own offsets: the result is the list of the last one, or a mixture, taken not to
parse. `harm` is a history variable: have operations overlapped, did a start meet
records or operations, have writes met or broken off?

The properties:

- `TornOnlyByCollision`: threads of one process may lose each other's updates,
  but never tear a file.
- `TenantsUnique`, `LogBounded`: what every operation preserves of a whole list
  holds of every file in every interleaving, since a file is only ever replaced
  by a list that one operation made.
- `RevocationHolds`: a key that was revoked while no other operation on the key file
  was under way is not accepted again by any process, whatever overlaps, crashes and
  starts later. A `validate_api_key` that had read the list before the revocation
  wrote it may bring the key back: it writes back the list it read.
- `ImplementsStore`: while operations do not overlap and no process starts over a
  file with records, each operation takes effect and answers as the contract says,
  also across crashes that break off no write (the operation is lost, its answer
  too). The refinement mapping takes a writer's operation to take effect at
  `Finish`: until then the table is the copy it read. The condition is on the history,
  not on the schedule: after an overlap, a torn write or a start that wiped records
  the store counts as damaged (`intact`), and the contract promises nothing. A list
  may hold several records of an id that callers repeat (agents, alerts, events): the
  table has the one that readers find.
- `CreatedStays` (violated by the code): with "thread-safe operations" (`storage.py:4`)
  and an `initialize` that creates tables "if needed" (`storage_base.py:22`), a webhook
  whose creation was answered with success is there until someone deletes it. The run
  finds one behaviour with both losses: two threads race, and the process starts
  again.

No fairness is assumed and no liveness claimed: an operation has no loop or wait
but the lock.

### PostgreSQL

An operation is a transaction of one or two statements. A step is what the server
does at one moment: a `Select`; an `Insert`; an UPDATE in steps, `Aim` (the rows
that are committed when it begins) and then `Update`, once for each of them (it has waited
for the row's lock, and writes on top of what is committed by then), which is what READ
COMMITTED does; two transactions that wait for each other's rows are a `Deadlock`,
which the server resolves by aborting one;
the `Commit`. Statements never see what is not committed. A row that an open
transaction has written is `Locked`; an INSERT with the primary key of such a row
waits. `Begin` takes a connection of the process's pool, or `PoolTimeout` answers
with an error. A connection may `Break`, so that `_session` rolls back and raises,
or break after the commit and before its acknowledgement (`CommitUnheard`): that
error answers an operation that has taken effect. A crash rolls back what is open,
and the server releases its locks at once (in reality when it notices). `Start` and
`Create` are `create_all`: it looks for the tables, then creates them, and the second
of two processes that start on an empty database raises.

A row is named by the operation that inserted it, for tables whose key is
generated may hold several rows that a caller takes for one. Of the columns the
model has `is_active` and one other. An update of a webhook may set `is_active` again
(`Restores`); nothing in the repository calls `update_webhook`, and an update that
clears `is_active` is left out.

- `ImplementsStore`: the tables implement the same `RecordStore` as the files, and
  with less condition: whatever overlaps, breaks or crashes, each operation takes
  effect as a whole or not at all, nothing is lost and no start sets the table up
  anew. The condition that remains is that no day has two rows in `daily_stats`.
  The contract has one clause that only this backend uses: webhooks are deleted by
  `is_active = False`, so a second `delete_webhook` answers True again, as does an
  update of a deleted webhook, which may even restore it; the files answer False.
- `DayRowsBounded`: a day may get several rows, since `update_daily_stats` inserts
  if it updated nothing and nothing makes the day unique; later updates then write
  all of them, so that totals count the day several times. There are never more of
  them than connections. This limits the double insert, and does not exclude it.
- `RepliesTrue`: an answer that is not an error is true, although transactions
  wait, break and crash between statement and answer.
- `TransactionsEnd`: no transaction waits for ever for a lock, and none is left open
  by a call that has returned. Fairness: `WF` on each actor's statements and commit
  together. The server executes a statement that waits for nobody, and the event
  loop resumes a coroutine whose answer is there; nothing is assumed of the failures.

## Clients and guards

| Module | Models |
|---|---|
| `Access` | API keys, the exchange of a key for a token, revocation, tokens and their validity, the server's failures and starts, time |
| `Guard` | the client with its cached token, and the guards of LangChain, CrewAI and AutoGen that call it |
| `MCGuard` | a guard that blocks on errors and a callback of LangChain, each with an API key of its own |
| `MCGuard_open` | the same with a history of the ways in which an action was let through unevaluated |
| `Guard_proofs` | the theorems |

A call is one use of a guard; it has items (the prompts of `on_llm_start`, the
messages of `on_messages`), each of which is evaluated before the agent goes on.
Between the request for a token, the evaluation and their answers anything may
happen: a revocation, `Outage`, `Recovery`, time (`Tick`), calls of other threads with
the same client. The engine's verdict is an input (its own module says what it
is). `Exempt` calls have nothing to evaluate: excluded tools, empty outputs.

An exchange takes the server's steps: `validate_api_key` reads the keys (`TokenAsked`)
and writes `last_used` (`WriteUse`), `create_token` follows (`CreateToken`), and the
client hears of it and keeps the token (`TokenReceived`). A client that gives up does
not end what the server has begun: the list is still written (`Abandoned`). A
revocation reads (`Revoke`) and writes (`WriteRevoked`); the API has no route for it, so it
is made by a program with the storage at hand. On JSON files what is read and written
is the whole list of keys: a copy that is written late makes a revoked key active
again, and tokens can be bought with it again. A key is therefore taken to have
`Ended` only when it is not active and no operation under way will revive it or still
make a token of it; `endedAt` notes when. The server is `cut` off from its clients or
`down`; a start of the server initializes the storage, with which the JSON files lose
their keys.

What an error does depends on its kind, hence three actions. A failed request for
a token (`TokenRefused`) raises and is left to `block_on_error`. A failed evaluation
that `urllib` reports as `URLError` (no connection, and every error status, 401
included) is answered by the client with `allowed=True` before the guard can see it
(`Refused`). Errors that are no `URLError` (a read that times out, a reset, an
answer that is not JSON) reach the guard from either request (`Broken`). At the
exception that blocks a call the agent stops, except under LangChain: the callback does
not set `raise_error`, and `langchain_core` then logs what a callback raises and goes on
(`Handlers`, `ignored`). That is the library's part, external to `src/`.

`create_token` writes `datetime.now()`, a local time without a zone, and PyJWT reads
such a time as UTC: `offset` is what the server's clock shows ahead. Ahead of UTC,
fresh tokens are refused until their time comes (and the client's evaluations pass);
all are valid for their lifetime from then on.

Left out: the revocation of a key that is not active, two exchanges of one call at once
(a call whose exchange was given up asks no second time before that has ended), a file of
keys that is torn (the storage's subject), a clock that is set back.

- `UncheckedNeedsToken`: under `block_on_error` nothing passes unchecked before the
  client has got a token, the callbacks of LangChain apart.
- `RevokedKeyExpires`: a key that has ended gives access no longer than the lifetime of
  the last token bought with it, counted from its end and shifted by the offset. Until
  then it does: `validate_token` does not look at the key. A revoked key that a late
  write made active again has not ended, and nothing is claimed for it.
- `EveryActionEvaluated` (violated by the code): the guards' docstrings say that every
  action is evaluated (`callback.py:25`, `crewai/tool_guard.py:45`, `autogen/agent.py:4`)
  or blocked if that is impossible (`callback.py:40`). In one behaviour, guards with
  `block_on_error` let actions through in all four ways: the server is unreachable, the
  new token is not yet valid, the token has expired (`_get_token` never renews it, the
  API answers 401, the client lets pass), and LangChain ignores what its callback raises.

No fairness is assumed and no liveness claimed: a client tries once.

## Alerts

| Module | Models |
|---|---|
| `Alerts` | `AlertRuleEngine`, `AlertRule`, `NotificationManager`, the channels |
| `MCAlerts` | two rules of one name and one whose condition divides by the number of events that are no blocks |
| `Alerts_proofs` | the theorems |

One thread calls the manager. `process_event` is a step that prunes and counts the
window, builds the context and asks the rules in their order (`ProcessEvent`): one that
fires notes the time at once; if a condition raises (`EvaluationRaises`), the rules before
it have noted the time and nothing is sent. Then each alert goes to the rule's channels,
those that are configured and want its level, one after the other (`Send`), while time
passes (`Tick`): a channel may hold the call for ten seconds (`channels.py:96`), the
email channel for as long as it likes (`channels.py:175` has no timeout). A send may
succeed, fail with the alert received or not, or raise something else than `URLError`,
which ends the call (`SendRaises`); only the email channel catches everything. At last
the alerts are returned (`Report`), whether or not a channel got them. Rules and channels
come and go between the calls; a rule object keeps its time when it is out of force. A
condition is a function of the two counts that the context is computed from, of the
blocks and of the other events in the window.

- `OneAlertPerCooldown`: the alerts of one rule that a channel receives fired at least the
  rule's cooldown apart, also if an answer was lost, the call raised, or the rule was
  replaced and added again. It speaks of when they fired. A slow channel before this one
  makes an alert arrive late, and the next may then follow within the cooldown.
- `SilenceBounded`: when the condition holds over the events that there really were
  in the window (a history variable), the rule fires, or was reported less
  than a cooldown ago, or a call raised less than a cooldown ago. The last case is
  the flaw of stamping before sending: an alert that nobody got is suppressed as if
  it had been sent. An alert that was returned counts as reported, also when no channel
  delivered it.

## Federated learning

| Module | Models |
|---|---|
| `Federated` | `UpdateProtocol`, `FederatedAggregator`, `GlobalIntel` |
| `MCFederated` | two tenants with one aggregator and one repository, and one that is not enabled |
| `Federated_proofs` | the theorems |

Each call is one step: `Contribute` (encode, add noise, submit, note the time), `Sync`
(aggregate what is recent, ingest the average, drop the oldest pattern, note the
time). Protocols that are not `Enabled` do neither. A decision engine makes a protocol
with an aggregator and a repository of its own; the tests share one aggregator among
tenants (`tests/test_federated.py:407-436`), which `AggregatorOf` and `RepositoryOf`
allow. The engine contributes without force; `POST /v1/federated/sync` always forces, so
that repeated calls fill the repository with copies of one average. What is
contributed, its noise and the similarity of patterns are not modelled, and the risk
of every pattern is the constant 0.0 (`protocol.py:129`). Nothing is persisted: a
restart is `Init`, and each process has its own of everything.

Every time is read from `time.time()`. The clock advances and may be set back between
the calls (`ClockMoves`) and once between two readings of one call (`Meanwhile`): so a
contribution has the `time` at which it was found due (`protocol.py:76`) and the `stamp`
that the aggregator compares with its window (`aggregator.py:23`), and a pattern may
carry a time other than that of the sync.

- `ContributionsSpaced`: whatever the clock does, a contribution that is not forced
  was due at a time at least the interval after those of the same tenant since the last
  forced one. The price is that a clock set back by a day stops contributions for a
  day: the last one then lies in the future.
- `NewestKept`: a repository keeps the newest patterns by the times they carry. With
  a clock that only advances these are the ones ingested last. After it was set back
  the pattern that `sync` has just reported as ingested may be the one that was
  dropped, again and again, until the clock has caught up.

## Plugins

| Module | Models |
|---|---|
| `Plugins` | `PluginRegistry`, `Plugin`, `PluginLoader` |
| `MCPlugins` | three plugins of one name, two of them made from a file that is loaded twice, one with another name, one with none |
| `Plugins_proofs` | the theorems |

A handler is any code, and it may use the registry that is calling it: the calls
under way are a `stack` of loops, of `execute_hooks` over the entries of the
dictionary, of `_call_hooks` over the handlers of one plugin, of `load_all` over the
files. Python's dictionary iterator is modelled by what it does: entries have
places, a deleted one leaves its place empty (`gone`) while a loop is under way, an
insertion may or may not compact them, and a change of size makes the next step
of the loop raise `RuntimeError` (`ExecuteRaises`), which is outside the `try` of
`execute_hooks` and reaches its caller. A deletion with an insertion keeps the size,
so that the loop may pass over a plugin without an error.

`load_all` imports a file, makes a fresh instance of the alphabetically first `Plugin`
subclass in it, imported ones included, and registers it: `Files` are the instances
that may be made of each file's class, and `made` those that there are.

- `HandlersReached`: unless plugins come or go under it, `execute_hooks` calls all
  handlers of every plugin that is registered and enabled all along, whatever else
  the handlers do: raise, enable and disable others, run hooks of their own. When
  plugins do come or go it promises nothing.
- `ShutDownOnce`: a plugin's shutdown hooks run at most once for each time it was
  registered, also when they use the registry. A plugin that is replaced by
  another of its name is never shut down, which `plugins/hooks.py:23` says otherwise.

## Runs

| Run | Question | Bounds | States |
|---|---|---|---|
| `engine` | how does the block level move, who may be in force, and over whom? | 4 recorded decisions, a window of 2, a healing cycle after each decision, steps of half a level, rollback cooldown of one tick, a policy proposed every 2 decisions from 2 records, prompts of LOW and HIGH risk, a federated match of risk 0.92 or none, ML on, an operator's allow rule of priority 3 for the learned tool | 117 000 |
| `engine_recorded` | is a block after false positives recorded? (it is not) | as `engine`, with a prompt of MEDIUM risk, false positives only, no federated match, ML off | |
| `queue` | safety, refinement and progress of the queue | 2 tasks, 2 workers, one of them in the API process, one outage, one crash | 216 000 |
| `queue_processed` | is what Redis stores processed? (not the types with a handler) | one webhook task, one worker, no outage, no crash | |
| `storage` | what survives the interleavings, and what holds without them? | 2 processes, 3 threads, at most 3 operations that write a file, 3 starts, 1 crash, a log of more than 2 entries trimmed to 2 | 212 000 |
| `storage_threads` | is what was created and acknowledged there? (it may not be) | one process, 2 threads, 3 webhooks, 2 starts | |
| `postgres` | do transactions keep the contract, and end? | 2 processes, 3 coroutines, a pool of one connection, at most 3 operations on a table and 4 updates of a day, 2 starts, one break or crash | 70 000 |
| `guard` | what passes unchecked, and how long is a key good for? | 2 guards with a key each, 3 calls of up to 2 items, tokens of one tick in 2 ticks of time, a clock in UTC or ahead by one, one outage that may lose the keys | 1 021 000 |
| `guard_open` | is every action evaluated or blocked? (not in four ways) | as `guard`, 3 items, the clock ahead, both guards blocking on errors | |
| `alerts` | is an alert repeated too early, or withheld too long? | 3 rules, 2 channels, one event of each kind, 2 ticks of time, a window of one, cooldowns of 1 and 2 | 1 615 000 |
| `federated` | what is kept, and how often may a tenant contribute, on a clock that is set back? | 2 symmetric tenants and one not enabled, times 0 to 3, one set-back, 2 contributions, 3 patterns for a repository of 2, contribution interval 2, sync interval and window 1 | 550 000 |
| `plugins` | what do handlers that use the registry do to its loops? | 5 plugins, 2 calls deep, 3 entries | 669 000 |

Why the bounds are enough. Four decisions and half steps take the block level from HIGH up to
CRITICAL and down to LOW, past each rounding of a half; a window of two holds a false positive and a
false negative together, so that both corrections apply in one tick. Four decisions give
two policies, one of which can be approved, rejected or rolled back while the other is
pending. The poisoned connection needs two calls and one outage: the second task then
suffers from it, or the worker that shares the queue; the other worker shows that who
does not share it goes on. In the storage, two threads of one process and a third in
another give both kinds of overlap; three operations on a file are a create, an update
and a delete, a key created, revoked and validated, or a log that is trimmed; three
starts are both processes and a restart of either. The tables have the same: with one
connection per process two transactions are open at once, and the third coroutine meets
the full pool; of the updates of a day two give two rows, and two more can each lock one
of them and want the other. A token of one tick is bought, used and expires, and the
guard with two calls has a token bought by one of them while the other, its exchange
still at the server, holds an old copy of the keys; the call of two items loses its
token's validity between them. Cooldowns of one and two ticks end within the time, also
while a send is under way, before and after a rule of the same name has taken its place;
one event of each kind makes each condition true, false, and raise. A pattern of time 2
followed by two of time 0 after the set-back is the case in which newest and last
ingested differ, and two contributions of one tenant around the set-back are all that a
limit can get wrong. A loop over three entries with a handler that is itself in a loop
has an entry behind, one under and one before it; a deeper stack repeats the two levels.

Deadlock is checked for the alerts and the plugins, which can always be called
again. Elsewhere the bounds end every behaviour (the engine after `MaxDecisions`,
the queue when every call has returned and workers are stopped, the storages when
every operation has answered and no start is left, the guards when every call has
run or is blocked, federated learning when its clock and its lists are at their
bounds).

## Proofs

For every value of the constants, under the assumptions stated beside them
(`EngineAssumption`, `HealingAssumption`, `GeneratorAssumption`,
`QueueAssumption`, `StorageAssumption`, `PostgresAssumption`, `AccessAssumption`,
`GuardAssumption`, `AlertsAssumption`, `FederatedAssumption`, `PluginsAssumption`).
They give the constants their types, and three facts that the code or its libraries
see to: the generator draws ids from uuids, so that no rule of the operator has one
(`EngineAssumption`); API keys and webhooks, whose ids the storage draws, have ids of
their own (`StorageAssumption`), while ids that callers choose may repeat; a plugin is
neither of the marks that stand for none (`PluginsAssumption`).

- `DecisionEngine_proofs`: type correctness, `LevelMovesByOne`, `CriticalNeverPasses`,
  `PolicyAccounting`, `OperatorFirstThenApplied`, `OperatorRulesPrevail`. The
  argument goes by cases: an evaluation leaves everything alone or records an
  ALLOW (`EvaluationCases`). `LevelMovesByOne` rests on the arithmetic of two
  lemmas: the two corrections cancel, whatever the clamps cut off
  (`AdjustedByAtMostStep`), and thresholds less than a level apart round to levels
  at most one apart (`LevelStep`). For the last two the rule list is followed exactly
  (`Grown`): it is the operator's rules, in their places, and after them one review rule
  for each of some applied policies. This needs an invariant about the memory: no record
  is blocked, and one with a tool has the score 10 (`MemoryOfAllows`); so a policy is one
  review rule (`PendingReviews`), and as it is installed once (`PolicyAccounting`), its id
  is new to the list and `_apply_rules` appends (`InstalledOne`); without the fresh ids it
  would remove rules. `OperatorFirstThenApplied` is read off `Grown`. An operator's rule
  that decides a request then precedes whatever was appended (`EvaluateIs`); that one of
  finitely many rules precedes the others is shown by a least counterexample
  (`FirstExists`).
- `TaskQueue_proofs`: type correctness, `AnswerIsTrue`, `PoisonIsFatal`, and the
  refinement `ImplementsLedger`. None of these is
  inductive. `IInv` adds where a task can be: a stored task is under the key of its
  type, was written by its own call, and was never attempted (`StoreInv`); a worker
  holds a task exactly while it is `sizing`, that task is in no queue and in no
  other worker's hands, and no worker is ever `handling` (`WorkerInv`); a handler
  at work has attempts left, and nothing took effect without an attempt
  (`HandlerInv`). `PoisonIsFatal` is about steps, and rests on what a call and a
  worker do from a queue without a client (`PoisonedCall`, `PoisonedWorker`); that only a
  RedisQueue has a connection and callers who wait for it is `OnlyRedisConnects`. For the refinement each action is a ledger step:
  `Write` is `Accept`, `Pop` and an inline handler's start are `Take`, the rest end tasks
  or are hidden.
- `Storage_proofs`: type correctness, `TornOnlyByCollision`, `TenantsUnique`,
  `LogBounded`, `RevocationHolds` and the refinement `ImplementsStore`, for any number
  of processes, threads and operations. `TornOnlyByCollision` needs that an
  actor that is not alone in the file is writing, and has met a writer of another
  process (`TornInv`): the lock keeps apart the writers of one. The next two follow
  one argument (`ListsStay`): a set of lists that contains the empty one and that
  every operation on the file preserves contains the file, and every list about to
  be written, in every state; it is applied to the lists without a repeated id and
  to the lists within the limit. The last two rest on `Base`: an actor at work has a
  call of its own that has not answered (`Calls`); while `harm` is `none` one actor at
  most works on the file, and what it read is still there until it writes (`Alone`); every
  record was made by a call on that file that has returned (`Origins`); where ids are
  drawn or checked no two records have one id (`Held`); a key whose revocation was
  acknowledged had been made, and its record is marked (`KeysMarked`). For the refinement
  each step is one operation of the store, a crash, a stutter or damage (`StoreSteps`).
  Files whose ids do not repeat have one argument (`LogEffect`, `WriteEffect`); for agents,
  alerts and events, whose ids callers may repeat, the table is what readers find, the
  first record of an id or the last (`LogEffectAny`, `WriteEffectAny`). `delete_webhook`
  filters a list with a recursive function (`Others`); that it exists and what it keeps
  is shown by a least counterexample.
- `PostgresStorage_proofs`: type correctness, `RepliesTrue`, `DayRowsBounded` and the
  refinement `ImplementsStore`, for any number of processes and coroutines, any pools,
  breaks, deadlocks and crashes. `Base` says what a transaction holds and may have settled
  at each of its statements (`SessionsOK`), that every row is of a call that has returned
  (`RowsOK`), that no two transactions are about one call or write one row (`Apart`),
  and that what became of a call is known before it returns only in its transaction
  (`Underway`). `RepliesTrue` follows from it. For `DayRowsBounded` the rows of a day are
  counted together with the transactions that are about to insert one (`DayCalls`):
  these hold a connection each, of pools that are never exceeded (`PoolsOK`). For the
  refinement a call takes effect at its `Commit`, or at the statement that settles it
  if it changes nothing (`TurnImplements`); all other steps, an UPDATE's steps from row to
  row among them (`UpdateImplements`), stutter, lose a call, or give a day two rows.
- `Guard_proofs`: type correctness, `UncheckedNeedsToken`, `RevokedKeyExpires`, for any
  number of guards, calls and keys, either storage, any lifetime and any
  offset. `IInv` adds where a token comes from: every token in a cache
  or under way was created in the past, before its key ended (`TokensBought`), and a
  call that evaluates has a client with a token; and that an end is final: a key that
  has ended is not active, and no operation under way has a list with it or a token to
  make of it (`EndIsFinal`). The last is what a read under way at the revocation could
  break, and why `Ended` waits for it.
- `Alerts_proofs`: type correctness, `OneAlertPerCooldown` and `SilenceBounded`, for
  any rules, channels, cooldowns and windows, and sends of any length. That names stay
  unique is followed through the replacement and the removal of a rule; that the window
  counts no more than there was, through the sum of the events (`SumBounds`, by a least
  counterexample over the recursive function). What a channel received fired when the rule
  last noted, or a cooldown before what is still to be sent (`ReceivedApart`), which gives
  `OneAlertPerCooldown`. For `SilenceBounded`, a rule that noted a
  time was reported then or later, or a call raised then or later, or the call is under
  way (`FiredIsKnown`, `UnderWay`), and the window agrees with the events that there were
  (`WindowTrue`), so that the condition was asked about the true counts.
- `Federated_proofs`: type correctness, `NewestKept`, `ContributionsSpaced`, for any
  tenants, limits and intervals, and a clock set back as often as one likes.
  `NewestKept` needs that only a full repository drops anything and stays full
  (`Full`), so that a pattern which stays is newer than one that goes with it, and by
  transitivity than all that went before; and that a list has an oldest pattern
  (`OldestIs`), which is found through a least element of a set of numbers
  (`LeastExists`, from the library's well-foundedness of the order of the naturals).
  `ContributionsSpaced` needs that the noted time is no earlier than those at which the
  contributions that limit the next one were due (`LastNoted`).
- `Plugins_proofs`: type correctness, `HandlersReached`, `ShutDownOnce`, for any
  plugins, handlers, files and depth of calls. `IInv` says that a loop which has called
  on is running, and only a loop over files goes on without a handler (`StackOK`);
  that the entries have distinct names, that who is registered is still owed a
  shutdown, and that places are empty only under a loop over the entries (`SlotsOK`);
  and, for each loop that still owes a plugin its handlers, that the registry has the
  size it had when the loop began and the plugin is enabled and at or ahead of the
  loop's place (`DueOK`). That compaction keeps names apart is
  shown by a least counterexample over the recursive function (`CompactIs`).

Every invariant and action property of the passing runs is thus a theorem, as are the
three refinements. Model-checked only: liveness (`CallsReturn`, `PolledQueuesDrain`,
`TransactionsEnd`), which with fairness and ENABLED is beyond the prover, and the runs
whose property the code violates. The code's
loops over lists are recursive functions in the modules; the library's induction
needs an operator parameter, which no prover here instantiates, so that facts about
them are proved from the least number for which they would fail (`LeastExists`).

## What the checks found

Where the code does not do what the repository says. `PROJECT.json` has the quotations
with each. TLC shows these four properties violated:

1. `OverblockedIsRecorded` (`engine_recorded`). Lowering the thresholds is meant to reduce
   the sensitivity (`docs/v2.0.0-architecture.md:211-212`) and makes the engine block
   more, down to a lockout of every prompt. A decision is meant to be recorded (`:202`),
   and only what is allowed is. So the memory has no attack for the generator to learn
   from, as `README.md:55` and `CHANGELOG.md:43-45` promise.
2. `StoredIsProcessed` (`queue_processed`). Workers are meant to process webhook
   deliveries, audit entries and events (`worker.py:4`, `worker.py:110-111`,
   `CHANGELOG.md:74`); their key is one that no worker polls.
3. `CreatedStays` (`storage_threads`). The "thread-safe" JSON storage (`storage.py:4`) loses
   one of two webhooks that threads create, and `initialize`, which creates tables "if
   needed" (`storage_base.py:22`), overwrites all eight files at any start of a process.
4. `EveryActionEvaluated` (`guard_open`). `block_on_error` does not block when the API is
   unreachable (`callback.py:40`); an action is not evaluated with an expired token
   (`crewai/tool_guard.py:45`, `autogen/agent.py:4`) nor, on a server ahead of UTC, with a
   fresh one (`callback.py:25`); and under LangChain nothing is blocked at all.

And these are what a property that holds says against the repository's words:

5. `PolicyAccounting` (`engine`): a rollback is to revert to the last known good state
   (`docs/v2.0.0-architecture.md:207-209`); it rejects what is pending and leaves what was
   applied in force.
6. `PoisonIsFatal` (`queue`): two coroutines racing through `_ensure_redis` may leave the
   queue initialized without a client. It then drops every task until the process
   restarts, and a worker that shares it never polls, where the log speaks of falling back
   to a `NullQueue` (`queue.py:157`) that processes tasks synchronously (`queue.py:90`).
7. `ShutDownOnce` (`plugins`): a plugin that is unloaded is to be told
   (`plugins/hooks.py:23`); registering a name again drops one without its shutdown.

Observations, against which the repository says nothing:

- A `validate_api_key` under way at a revocation may bring the key back, on JSON files.
- `daily_stats` may have several rows for a day (`DayRowsBounded`).
- An alert whose delivery fails is suppressed for its cooldown (`SilenceBounded`); one
  that a slow channel delayed may arrive shortly before the next.
- After the clock was set back a sync may go on reporting patterns that were dropped
  at once (`NewestKept`).

## Plan

Done: the decision engine, the task queue, both storages, clients and guards,
alerts, federated learning, plugins, with their proofs. What could be added:

1. Theorems about the abstract specifications themselves: what a ledger and a record
   store guarantee to their clients.
2. `PolicyLifecycle`, an abstract specification of pending, applied and rejected,
   implemented by `DecisionEngine`; the rule list with `add_rule` and `remove_rule`
   as actions of their own.
3. `AgentMonitor`: profiles and their risk level, once a decision reads them.

## Not modelled

- Of federated learning: encoding, noise and similarity, and `clear` and `reset`, which
  nothing calls. What a match could do to a decision is in the engine's module,
  where its risk is an input.
- Learning (`self_learner.py`, `strategy_optimizer`): weights that no decision reads.
- User history (`attack_memory.py`) and agent monitor (`agent_monitor.py`):
  nothing in the repository records events into the former, no decision reads the
  latter.
- Cache (`cache.py`): nothing in the repository uses it.
- The API's statistics and dashboard endpoints, and the dashboard: they read only. The
  dictionary of engines by tenant: an engine per tenant and process, so that processes
  learn apart; the engine's module is about one of them.
- ML models: numeric, without a state of interest; their verdicts are inputs.
- In the storages: paging, `list_tenants`, `count_events` (on PostgreSQL it compares a
  time with a zone to a column without one), health checks, the hashing of keys, errors
  of the file system.
- In the alerts: the dispatch log, the statistics, `reset_window` (which nothing
  calls), a clock that is set back, several threads in one manager.
- Metrics and telemetry, configuration, deployment files and the HTML page.
- The attack agent of the Kaggle competition: a sequential driver, not part of the
  shield.
