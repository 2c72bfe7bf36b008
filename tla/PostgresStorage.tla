--------------------------- MODULE PostgresStorage ---------------------------
(***************************************************************************)
(* The PostgreSQL storage (hestia/storage_postgres.py): every operation is *)
(* a transaction of one or two statements on a connection of its process's *)
(* pool, under PostgreSQL's default isolation, READ COMMITTED.             *)
(*                                                                         *)
(* No operation touches two tables, so a behaviour is about one of them.   *)
(* A row is known by the operation that inserted it.                       *)
(***************************************************************************)
EXTENDS StorageBackend, Integers, FiniteSets, Functions

CONSTANTS
    Processes,
    Actors,       \* coroutines that call the storage
    ProcessOf,    \* the process of each actor
    Operations,   \* the calls that will be made, each once
    PoolSize,     \* connections of a process: pool_size + max_overflow, 30
    MaxStarts,    \* bound: starts of processes
    MaxFailures   \* bound: broken connections and crashes

ASSUME PostgresAssumption ==
    /\ ProcessOf \in [Actors -> Processes]
    /\ Operations \subseteq Operation
    /\ IsFiniteSet(Operations) /\ IsFiniteSet(Processes)
    /\ PoolSize \in Nat \ {0} /\ MaxStarts \in Nat /\ MaxFailures \in Nat

VARIABLES
    about,    \* the table that this behaviour is about
    created,  \* the tables exist
    rows,     \* the committed rows, with their value and is_active
    process,  \* each process is "up" (initialized), "creating" or "down"
    session,  \* each actor's transaction: its operation, the rows it will
              \* update, the rows it has written, the reply it will give
    answer,   \* what each operation returned
    settled,  \* history: what became of each operation, heard or not
    starts, failures

vars == <<about, created, rows, process, session, answer, settled, starts, failures>>

Row == [value : STRING, active : BOOLEAN]
NoRows == [r \in {} |-> [value |-> "none", active |-> TRUE]]
NoOperation == [kind |-> "none", id |-> "none", value |-> "none"]
Idle == [phase |-> "idle", op |-> NoOperation, targets |-> {}, change |-> NoRows,
         reply |-> "none"]

Init ==
    /\ about \in Collections
    /\ created = FALSE /\ rows = NoRows
    /\ process = [p \in Processes |-> "down"]
    /\ session = [a \in Actors |-> Idle]
    /\ answer = [op \in Operations |-> "none"]
    /\ settled = [op \in Operations |-> "none"]
    /\ starts = 0 /\ failures = 0

Op(a) == session[a].op
Open == {a \in Actors : session[a].phase # "idle"}
Connections(p) == {a \in Open : ProcessOf[a] = p}

------------------------------------------------------------------------------
(* The committed rows that a statement finds.                              *)
Matching(op) == {r \in DOMAIN rows : r.id = op.id}

(* Two queries look at is_active.                                          *)
Selected(op) ==
    IF op.kind \in {"validate_api_key", "get_webhooks_for_tenant"}
    THEN {r \in Matching(op) : rows[r].active} ELSE Matching(op)

(* Fault: the row is written as it was read, not only the columns that     *)
(* change.                                                                 *)
WrittenWhole(op, row) ==
    CASE op.kind = "validate_api_key" -> [row EXCEPT !.active = TRUE]
      [] op.kind \in {"revoke_api_key", "delete_webhook"} -> [row EXCEPT !.active = FALSE]
      [] OTHER -> [value |-> op.value, active |-> row.active \/ Restores(op)]

Written(op, row) ==
    CASE op.kind = "validate_api_key" -> row   \* but for last_used
      [] op.kind \in {"revoke_api_key", "delete_webhook"} -> [row EXCEPT !.active = FALSE]
      [] OTHER -> [value |-> op.value, active |-> row.active \/ Restores(op)]

(* The rows that other transactions have written and not committed.        *)
Locked(a) == UNION {DOMAIN session[b].change : b \in Actors \ {a}}

(* The caller of these chooses the primary key.                            *)
Keyed == {"create_tenant", "create_agent_profile", "store_event"}

------------------------------------------------------------------------------
Settle(op, outcome) ==
    settled' = IF settled[op] = "none" THEN [settled EXCEPT ![op] = outcome] ELSE settled

Goes(a, next) == session' = [session EXCEPT ![a] = next]

(* Fault: the transaction is left open.                                    *)
ReturnsOpen(a, reply) ==
    /\ answer' = [answer EXCEPT ![Op(a)] = reply]
    /\ Goes(a, [session[a] EXCEPT !.phase = "left"])

(* The transaction is over, its locks are released and its connection is   *)
(* back in the pool.                                                       *)
Returns(a, reply) ==
    /\ answer' = [answer EXCEPT ![Op(a)] = reply]
    /\ Goes(a, Idle)

Pending(op) ==
    /\ CollectionOf[op.kind] = about /\ answer[op] = "none"
    /\ \A a \in Actors : Op(a) # op

(* Fault: a connection beyond the pool.                                    *)
BeginUnbounded(a, op) ==
    /\ process[ProcessOf[a]] = "up" /\ a \notin Open /\ Pending(op)
    /\ Goes(a, [Idle EXCEPT !.phase = "open", !.op = op])
    /\ UNCHANGED <<about, created, rows, process, answer, settled, starts, failures>>

(* _session, with a connection from the pool.                              *)
Begin(a, op) ==
    /\ process[ProcessOf[a]] = "up" /\ a \notin Open /\ Pending(op)
    /\ Cardinality(Connections(ProcessOf[a])) < PoolSize
    /\ Goes(a, [Idle EXCEPT !.phase = "open", !.op = op])
    /\ UNCHANGED <<about, created, rows, process, answer, settled, starts, failures>>

(* No connection became free in time.                                      *)
PoolTimeout(a, op) ==
    /\ process[ProcessOf[a]] = "up" /\ a \notin Open /\ Pending(op)
    /\ Cardinality(Connections(ProcessOf[a])) >= PoolSize
    /\ answer' = [answer EXCEPT ![op] = "error"]
    /\ Settle(op, "lost")
    /\ UNCHANGED <<about, created, rows, process, session, starts, failures>>

(* The first statement of the reading operations, of create_tenant and of  *)
(* validate_api_key.                                                       *)
Select(a) ==
    /\ session[a].phase = "open"
    /\ LET op == Op(a)
           found == Selected(op) # {}
       IN  \/ /\ op.kind \in Reading \/ (op.kind = "validate_api_key" /\ ~found)
              /\ LET reply == IF found THEN "true" ELSE "false"
                 IN  /\ Settle(op, reply)
                     /\ Goes(a, [session[a] EXCEPT !.phase = "commit", !.reply = reply])
              /\ UNCHANGED answer
           \/ /\ op.kind = "validate_api_key" /\ found
              /\ Settle(op, "true")
              /\ Goes(a, [session[a] EXCEPT !.phase = "aim"])
              /\ UNCHANGED answer
           \/ /\ op.kind = "create_tenant" /\ found
              /\ Settle(op, "error") /\ Returns(a, "error")
           \/ /\ op.kind = "create_tenant" /\ ~found
              /\ Goes(a, [session[a] EXCEPT !.phase = "insert"])
              /\ UNCHANGED <<answer, settled>>
    /\ UNCHANGED <<about, created, rows, process, starts, failures>>

(* INSERT waits for a transaction that inserted the same primary key, and  *)
(* raises IntegrityError if the key is there.                              *)
Insert(a) ==
    /\ \/ session[a].phase = "open" /\ Op(a).kind \in Creating \cup Logging
       \/ session[a].phase = "insert"
    /\ LET op == Op(a)
           same == {r \in Operations : op.kind \in Keyed /\ r.id = op.id}
       IN  /\ (same \cap Locked(a)) \ DOMAIN rows = {}
           /\ \/ /\ same \cap DOMAIN rows # {}
                 /\ Settle(op, IF op.kind = "create_tenant" THEN "error" ELSE "lost")
                 /\ Returns(a, "error")
              \/ /\ same \cap DOMAIN rows = {}
                 /\ Goes(a, [session[a] EXCEPT
                       !.phase = "commit", !.reply = "true",
                       !.change = [r \in {op} |-> [value |-> op.value, active |-> TRUE]]])
                 /\ UNCHANGED <<answer, settled>>
    /\ UNCHANGED <<about, created, rows, process, starts, failures>>

(* Fault: a row is inserted without a look for one of the day.             *)
AimMissed(a) ==
    /\ session[a].phase = "open" /\ Op(a).kind = "update_daily_stats"
    /\ Goes(a, [session[a] EXCEPT !.phase = "insert"])
    /\ UNCHANGED <<about, created, rows, process, answer, settled, starts, failures>>

(* UPDATE sees the rows committed when it begins.                          *)
Aim(a) ==
    /\ \/ /\ session[a].phase = "open"
          /\ Op(a).kind \in Updating \cup
                {"revoke_api_key", "delete_webhook", "update_daily_stats"}
       \/ session[a].phase = "aim"
    /\ LET op == Op(a)
           targets == Matching(op)
       IN  \/ /\ targets # {}
              /\ Goes(a, [session[a] EXCEPT !.phase = "update", !.targets = targets])
              /\ UNCHANGED settled
           \/ /\ targets = {} /\ op.kind = "update_daily_stats"
              /\ Goes(a, [session[a] EXCEPT !.phase = "insert"])
              /\ UNCHANGED settled
           \/ /\ targets = {} /\ op.kind # "update_daily_stats"
              /\ Settle(op, "false")
              /\ Goes(a, [session[a] EXCEPT !.phase = "commit", !.reply = "false"])
    /\ UNCHANGED <<about, created, rows, process, answer, starts, failures>>

Remaining(a) == session[a].targets \ DOMAIN session[a].change

(* It takes them one by one: it waits for the lock of each and writes on   *)
(* top of what was committed then.                                         *)
Update(a) ==
    /\ session[a].phase = "update"
    /\ \E r \in Remaining(a) \ Locked(a) :
          Goes(a, [session[a] EXCEPT
             !.phase = IF Remaining(a) = {r} THEN "commit" ELSE "update",
             !.reply = "true",
             !.change = [q \in DOMAIN session[a].change \cup {r} |->
                IF q = r THEN Written(Op(a), rows[r]) ELSE session[a].change[q]]])
    /\ UNCHANGED <<about, created, rows, process, answer, settled, starts, failures>>

WaitsFor(a, b) == Remaining(a) \cap DOMAIN session[b].change # {}

(* PostgreSQL aborts one of the transactions that wait for each other in a *)
(* circle.  (Of two calls for a day, the later one's rows include the      *)
(* earlier one's: a circle has two that wait for each other directly.)     *)
Deadlock(a) ==
    /\ \E b \in Actors \ {a} : WaitsFor(a, b) /\ WaitsFor(b, a)
    /\ Settle(Op(a), "lost")
    /\ Returns(a, "error")
    /\ UNCHANGED <<about, created, rows, process, starts, failures>>

Committed(a) ==
    /\ session[a].phase = "commit"
    /\ rows' = [r \in DOMAIN rows \cup DOMAIN session[a].change |->
          IF r \in DOMAIN session[a].change THEN session[a].change[r] ELSE rows[r]]
    /\ Settle(Op(a), session[a].reply)
    /\ UNCHANGED <<about, created, process, starts>>

Commit(a) ==
    /\ Committed(a)
    /\ Returns(a, session[a].reply)
    /\ UNCHANGED failures

------------------------------------------------------------------------------
(* Failures.                                                               *)

(* The connection breaks after the commit, before it is acknowledged.      *)
CommitUnheard(a) ==
    /\ failures < MaxFailures /\ failures' = failures + 1
    /\ Committed(a)
    /\ Returns(a, "error")

(* Fault: the transaction is rolled back, but nothing is raised.           *)
BreakSwallowed(a) ==
    /\ a \in Open /\ failures < MaxFailures /\ failures' = failures + 1
    /\ Settle(Op(a), "lost")
    /\ Returns(a, "false")
    /\ UNCHANGED <<about, created, rows, process, starts>>

(* The connection breaks: the transaction is rolled back, _session raises. *)
Break(a) ==
    /\ a \in Open /\ failures < MaxFailures /\ failures' = failures + 1
    /\ Settle(Op(a), "lost")
    /\ Returns(a, "error")
    /\ UNCHANGED <<about, created, rows, process, starts>>

(* A process dies, and its transactions are rolled back.                   *)
Crash(p) ==
    /\ process[p] # "down" /\ failures < MaxFailures /\ failures' = failures + 1
    /\ process' = [process EXCEPT ![p] = "down"]
    /\ session' = [a \in Actors |-> IF ProcessOf[a] = p THEN Idle ELSE session[a]]
    /\ LET broken == {Op(a) : a \in Connections(p)}
       IN  /\ answer' = [op \in Operations |->
                 IF op \in broken THEN "lost" ELSE answer[op]]
           /\ settled' = [op \in Operations |->
                 IF op \in broken /\ settled[op] = "none" THEN "lost" ELSE settled[op]]
    /\ UNCHANGED <<about, created, rows, starts>>

(* initialize: create_all looks for the tables first.                      *)
Start(p) ==
    /\ process[p] = "down" /\ starts < MaxStarts /\ starts' = starts + 1
    /\ process' = [process EXCEPT ![p] = IF created THEN "up" ELSE "creating"]
    /\ UNCHANGED <<about, created, rows, session, answer, settled, failures>>

(* It creates them in one transaction; whoever comes second raises.        *)
Create(p) ==
    /\ process[p] = "creating"
    /\ process' = [process EXCEPT ![p] = IF created THEN "down" ELSE "up"]
    /\ created' = TRUE
    /\ UNCHANGED <<about, rows, session, answer, settled, starts, failures>>

(* close, after the requests under way.                                    *)
Close(p) ==
    /\ process[p] = "up" /\ Connections(p) = {}
    /\ process' = [process EXCEPT ![p] = "down"]
    /\ UNCHANGED <<about, created, rows, session, answer, settled, starts, failures>>

------------------------------------------------------------------------------
Statement(a) == Select(a) \/ Insert(a) \/ Aim(a) \/ Update(a)

Next ==
    \/ \E a \in Actors, op \in Operations : Begin(a, op) \/ PoolTimeout(a, op)
    \/ \E a \in Actors : \/ Statement(a) \/ Deadlock(a) \/ Commit(a)
                         \/ CommitUnheard(a) \/ Break(a)
    \/ \E p \in Processes : Start(p) \/ Create(p) \/ Close(p) \/ Crash(p)

(* A transaction that can go on does, and one in a circle is found.        *)
Fairness == \A a \in Actors : WF_vars(Statement(a) \/ Deadlock(a) \/ Commit(a))

Spec == Init /\ [][Next]_vars /\ Fairness

------------------------------------------------------------------------------
(* The shape of the state; no process has more connections than its pool,  *)
(* and no row is being written by two transactions.                        *)
TypeOK ==
    /\ about \in Collections /\ created \in BOOLEAN
    /\ DOMAIN rows \subseteq Operations /\ Range(rows) \subseteq Row
    /\ process \in [Processes -> {"down", "creating", "up"}]
    /\ \A a \in Actors :
          /\ session[a].phase \in {"idle", "open", "insert", "aim", "update", "commit"}
          /\ session[a].op \in Operations \cup {NoOperation}
          /\ session[a].targets \subseteq DOMAIN rows
          /\ DOMAIN session[a].change \cap Locked(a) = {}
          /\ session[a].reply \in {"none", "true", "false"}
    /\ answer \in [Operations -> {"none", "true", "false", "error", "lost"}]
    /\ settled \in [Operations -> {"none", "true", "false", "error", "lost"}]
    /\ \A p \in Processes : Cardinality(Connections(p)) <= PoolSize
    /\ starts \in 0 .. MaxStarts /\ failures \in 0 .. MaxFailures

(* A day of a tenant may have several rows in daily_stats, for             *)
(* update_daily_stats inserts one if it updated none, and nothing makes    *)
(* them unique; but never more than there are connections, for every call  *)
(* that begins after one of them was committed finds it.                   *)
DayRowsBounded ==
    about = "stats" =>
        \A r \in DOMAIN rows :
            Cardinality(Matching(r)) <= PoolSize * Cardinality(Processes)

(* The rows as a table: a deleted webhook is not in it, and a revoked key  *)
(* is marked.                                                              *)
Live == {r \in DOMAIN rows : rows[r].active \/ about # "webhooks"}

TableOf ==
    [id \in {r.id : r \in Live} |->
        LET r == CHOOSE r \in Live : r.id = id
        IN  IF rows[r].active THEN rows[r].value ELSE "revoked"]

Intact == \A r, s \in DOMAIN rows : r.id = s.id => r = s

Store == INSTANCE RecordStore WITH
    table  <- IF Intact THEN TableOf ELSE [id \in {} |-> "none"],
    intact <- Intact,
    answer <- settled,
    LogKept <- Cardinality(Operations)

(* As long as no day has two rows, every call takes effect as a whole, at  *)
(* one moment, or not at all, whatever breaks, as StorageBackend promises; *)
(* no record is ever lost.  (An "error" may have taken effect:             *)
(* CommitUnheard.)                                                         *)
ImplementsStore == Store!Spec

(* What a call returns, but for an error, is what became of it.            *)
RepliesTrue ==
    \A op \in Operations :
        answer[op] \in {"true", "false"} => answer[op] = settled[op]

(* Every transaction ends: none waits for ever for another's lock, and     *)
(* none keeps its locks and its connection when its call has returned.     *)
TransactionsEnd == \A a \in Actors : a \in Open ~> a \notin Open

==============================================================================
