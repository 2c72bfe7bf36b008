------------------------------- MODULE Storage -------------------------------
(***************************************************************************)
(* The JSON storage (hestia/storage.py), as the threads of several         *)
(* processes use it on one data directory: every operation reads a file,   *)
(* computes, and writes the whole file back.  A lock in each process       *)
(* covers each read and each write, not the operation.                     *)
(*                                                                         *)
(* No operation touches two files and initialize treats each file alike,   *)
(* so a behaviour is about one of them.                                    *)
(***************************************************************************)
EXTENDS StorageBackend, Integers, Sequences, FiniteSets

CONSTANTS
    Processes,   \* processes on the data directory (gunicorn workers)
    Actors,      \* threads that call the storage
    ProcessOf,   \* the process of each actor
    Operations,  \* the calls that will be made, each once
    LogLimit,    \* a log with more entries is trimmed: 20000 in the code
    LogKept,     \* entries left by the trim: 10000 in the code
    MaxStarts,   \* bound: starts of processes
    MaxCrashes   \* bound: crashes of processes

Record == [id : STRING, value : STRING \cup {"revoked"}]

ASSUME StorageAssumption ==
    /\ ProcessOf \in [Actors -> Processes]
    /\ Operations \subseteq Operation
    /\ LogLimit \in Nat /\ LogKept \in 1 .. LogLimit
    /\ MaxStarts \in Nat /\ MaxCrashes \in Nat
    /\ \A o, q \in Operations :  \* these draw their key or id at random
          o.kind \in {"create_api_key", "create_webhook"} /\ q.kind = o.kind /\ q.id = o.id
          => q = o

VARIABLES
    about,    \* the file that this behaviour is about
    file,     \* the list in it; <<>> also for an empty file, read as "[]"
    torn,     \* what is in it is not JSON
    process,  \* each process is "up" (initialized), "down", or "starting": it
              \* has truncated the file to write its default, and is
              \* "disturbed" if others write to the file as well
    actor,    \* each actor's operation, the list it read and the one it writes
    answer,   \* what each operation returned
    harm,     \* history: "none", or operations have overlapped ("overlap"), or
              \* a start found records ("wiped"), or writes of two processes
              \* have overlapped, or one broke off ("collision")
    settled,  \* history: the keys revoked while no other operation was under way
    starts, crashes

vars == <<about, file, torn, process, actor, answer, harm, settled, starts, crashes>>

NoOperation == [kind |-> "none", id |-> "none", value |-> "none"]
Idle == [phase |-> "idle", op |-> NoOperation, copy |-> <<>>, list |-> <<>>,
         alone |-> TRUE]

Init ==
    /\ about \in Collections
    /\ file = <<>> /\ torn = FALSE
    /\ process = [p \in Processes |-> "down"]
    /\ actor = [a \in Actors |-> Idle]
    /\ answer = [op \in Operations |-> "none"]
    /\ harm = "none" /\ settled = {}
    /\ starts = 0 /\ crashes = 0

------------------------------------------------------------------------------
(* What an operation makes of the list it read.                            *)

Answered(reply) == [writes |-> FALSE, list |-> <<>>, reply |-> reply]
Writing(list) == [writes |-> TRUE, list |-> list, reply |-> "true"]

Found(list, id) == {i \in DOMAIN list : list[i].id = id}
FirstOf(places) == CHOOSE i \in places : \A j \in places : i <= j

(* Fault: the request is stored as it came.                                *)
RecordOfRequest(op) == op

RecordOf(op) == [id |-> op.id, value |-> op.value]

(* The first record of the id gets a value; without one the answer is      *)
(* False.                                                                  *)
Updated(list, id, value) ==
    IF Found(list, id) = {} THEN Answered("false")
    ELSE Writing([list EXCEPT ![FirstOf(Found(list, id))].value = value])

(* Fault: the length is tested before the new entry is appended.           *)
TrimmedLate(list) ==
    IF Len(list) > LogLimit + 1
    THEN SubSeq(list, Len(list) - LogKept + 1, Len(list)) ELSE list

(* Fault: the oldest entries are kept.                                     *)
TrimmedFront(list) ==
    IF Len(list) > LogLimit THEN SubSeq(list, 1, LogKept) ELSE list

Trimmed(list) ==
    IF Len(list) > LogLimit
    THEN SubSeq(list, Len(list) - LogKept + 1, Len(list)) ELSE list

(* Fault: the tenant is added without a look for one of the same id.       *)
CreateTenantUnchecked(op, list) == Writing(Append(list, RecordOf(op)))

CreateTenant(op, list) ==
    IF Found(list, op.id) # {} THEN Answered("error")
    ELSE Writing(Append(list, RecordOf(op)))

(* Fault: a revoked key validates.                                         *)
ValidateInactive(op, list) ==
    IF Found(list, op.id) = {} THEN Answered("false") ELSE Writing(list)

(* An active key is written back with a new last_used.                     *)
Validate(op, list) ==
    IF \A i \in Found(list, op.id) : list[i].value = "revoked"
    THEN Answered("false") ELSE Writing(list)

(* The records of other ids, in their order.                               *)
Others(list, id) ==
    LET kept[n \in 0 .. Len(list)] ==
            IF n = 0 THEN <<>>
            ELSE IF list[n].id = id THEN kept[n - 1]
            ELSE Append(kept[n - 1], list[n])
    IN  kept[Len(list)]

DeleteWebhook(op, list) ==
    IF Found(list, op.id) = {} THEN Answered("false")
    ELSE Writing(Others(list, op.id))

UpdateStats(op, list) ==
    IF Found(list, op.id) = {} THEN Writing(Append(list, RecordOf(op)))
    ELSE Updated(list, op.id, op.value)

Get(op, list) == Answered(IF Found(list, op.id) = {} THEN "false" ELSE "true")

Outcome(op, list) ==
    CASE op.kind = "create_tenant"      -> CreateTenant(op, list)
      [] op.kind = "validate_api_key"   -> Validate(op, list)
      [] op.kind = "revoke_api_key"     -> Updated(list, op.id, "revoked")
      [] op.kind \in Logging            -> Writing(Trimmed(Append(list, RecordOf(op))))
      [] op.kind \in Updating           -> Updated(list, op.id, op.value)
      [] op.kind = "delete_webhook"     -> DeleteWebhook(op, list)
      [] op.kind = "update_daily_stats" -> UpdateStats(op, list)
      [] op.kind \in Reading            -> Get(op, list)
      [] OTHER                          -> Writing(Append(list, RecordOf(op)))

------------------------------------------------------------------------------
(* The steps of an operation.                                              *)

Busy == {a \in Actors : actor[a].phase # "idle"}
Writers == {a \in Actors : actor[a].phase = "writing"}
Starters == {p \in Processes : process[p] \in {"starting", "disturbed"}}

(* Another thread of the process holds the lock of the file.               *)
Locked(a) == \E b \in Writers : b # a /\ ProcessOf[b] = ProcessOf[a]

Pending(op) ==
    /\ CollectionOf[op.kind] = about /\ answer[op] = "none"
    /\ \A a \in Actors : actor[a].op # op

Worse(kind) == IF harm = "collision" THEN harm ELSE kind

(* After a read: it overlaps what is under way.                            *)
HarmOfRead == IF Busy # {} \/ Starters # {} THEN Worse("overlap") ELSE harm

(* A truncation: whoever is writing to the file no longer does so alone.   *)
Disturbed == [p \in Processes |-> IF p \in Starters THEN "disturbed" ELSE process[p]]

(* read_json, and the operation's computation on the list.                 *)
Read(a, op) ==
    /\ process[ProcessOf[a]] = "up" /\ actor[a].phase = "idle"
    /\ Pending(op) /\ ~Locked(a) /\ ~torn
    /\ LET outcome == Outcome(op, file)
       IN  IF outcome.writes
           THEN /\ actor' = [actor EXCEPT ![a] =
                      [phase |-> "computed", op |-> op, copy |-> file,
                       list |-> outcome.list, alone |-> TRUE]]
                /\ UNCHANGED answer
           ELSE /\ answer' = [answer EXCEPT ![op] = outcome.reply]
                /\ UNCHANGED actor
    /\ harm' = HarmOfRead
    /\ UNCHANGED <<about, file, torn, process, settled, starts, crashes>>

(* What is read is not JSON: a torn file, or a file that another process   *)
(* truncated between the stat and the read.                                *)
ReadRaises(a, op) ==
    /\ process[ProcessOf[a]] = "up" /\ actor[a].phase = "idle"
    /\ Pending(op) /\ ~Locked(a)
    /\ torn \/ Writers # {} \/ Starters # {}
    /\ answer' = [answer EXCEPT ![op] = "error"]
    /\ harm' = HarmOfRead
    /\ UNCHANGED <<about, file, torn, process, actor, settled, starts, crashes>>

(* Fault: no lock around the write.                                        *)
TruncateUnlocked(a) ==
    /\ actor[a].phase = "computed"
    /\ file' = <<>> /\ torn' = FALSE
    /\ actor' = [b \in Actors |->
          IF b = a THEN [actor[a] EXCEPT !.phase = "writing",
                                         !.alone = Writers = {} /\ Starters = {}]
          ELSE [actor[b] EXCEPT !.alone = @ /\ b \notin Writers]]
    /\ process' = Disturbed
    /\ harm' = IF Starters # {} \/ \E b \in Writers : ProcessOf[b] # ProcessOf[a]
               THEN "collision" ELSE harm
    /\ UNCHANGED <<about, answer, settled, starts, crashes>>

(* write_text opens the file, which truncates it.                          *)
Truncate(a) ==
    /\ actor[a].phase = "computed" /\ ~Locked(a)
    /\ file' = <<>> /\ torn' = FALSE
    /\ actor' = [b \in Actors |->
          IF b = a THEN [actor[a] EXCEPT !.phase = "writing",
                                         !.alone = Writers = {} /\ Starters = {}]
          ELSE [actor[b] EXCEPT !.alone = @ /\ b \notin Writers]]
    /\ process' = Disturbed
    /\ harm' = IF Starters # {} \/ \E b \in Writers : ProcessOf[b] # ProcessOf[a]
               THEN "collision" ELSE harm
    /\ UNCHANGED <<about, answer, settled, starts, crashes>>

(* A list longer than the buffer reaches the file in parts.                *)
WritePart(a) ==
    /\ actor[a].phase = "writing" /\ actor[a].list # <<>> /\ ~torn
    /\ torn' = TRUE
    /\ UNCHANGED <<about, file, process, actor, answer, harm, settled, starts, crashes>>

(* The rest is written and the operation returns.  If another process has  *)
(* written since the truncation, both wrote at their own offsets, and what *)
(* results is this list or a mixture, which does not parse.                *)
Finish(a) ==
    /\ actor[a].phase = "writing"
    /\ file' = actor[a].list
    /\ torn' \in IF actor[a].alone THEN {FALSE} ELSE BOOLEAN
    /\ actor' = [actor EXCEPT ![a] = Idle]
    /\ answer' = [answer EXCEPT ![actor[a].op] = "true"]
    /\ settled' = IF actor[a].op.kind = "revoke_api_key" /\ Busy = {a}
                  THEN settled \cup {actor[a].op.id} ELSE settled
    /\ UNCHANGED <<about, process, harm, starts, crashes>>

------------------------------------------------------------------------------
(* Processes.                                                              *)

(* initialize overwrites every file with its default: write_text truncates *)
(* it, whatever it holds,                                                  *)
Start(p) ==
    /\ process[p] = "down" /\ starts < MaxStarts
    /\ starts' = starts + 1
    /\ file' = <<>> /\ torn' = FALSE
    /\ process' = [Disturbed EXCEPT ![p] =
          IF Writers = {} /\ Starters = {} THEN "starting" ELSE "disturbed"]
    /\ actor' = [a \in Actors |-> [actor[a] EXCEPT !.alone = @ /\ a \notin Writers]]
    /\ harm' = IF Writers # {} \/ Starters # {} THEN "collision"
               ELSE IF Busy # {} THEN Worse("overlap")
               ELSE IF file # <<>> THEN Worse("wiped") ELSE harm
    /\ UNCHANGED <<about, answer, settled, crashes>>

(* and then writes "[]".                                                   *)
Initialized(p) ==
    /\ p \in Starters
    /\ file' = <<>>
    /\ torn' \in IF process[p] = "starting" THEN {FALSE} ELSE BOOLEAN
    /\ process' = [process EXCEPT ![p] = "up"]
    /\ UNCHANGED <<about, actor, answer, harm, settled, starts, crashes>>

Of(p) == {a \in Actors : ProcessOf[a] = p}

(* The shutdown event, after the requests under way.                       *)
Close(p) ==
    /\ process[p] = "up" /\ Busy \cap Of(p) = {}
    /\ process' = [process EXCEPT ![p] = "down"]
    /\ UNCHANGED <<about, file, torn, actor, answer, harm, settled, starts, crashes>>

Crash(p) ==
    /\ process[p] # "down" /\ crashes < MaxCrashes
    /\ crashes' = crashes + 1
    /\ process' = [process EXCEPT ![p] = "down"]
    /\ actor' = [a \in Actors |-> IF a \in Of(p) THEN Idle ELSE actor[a]]
    /\ answer' = [op \in Operations |->
          IF \E a \in Of(p) : actor[a].op = op THEN "lost" ELSE answer[op]]
    /\ harm' = IF Writers \cap Of(p) # {} THEN "collision" ELSE harm
    /\ UNCHANGED <<about, file, torn, settled, starts>>

Next ==
    \/ \E a \in Actors, op \in Operations : Read(a, op) \/ ReadRaises(a, op)
    \/ \E a \in Actors : Truncate(a) \/ WritePart(a) \/ Finish(a)
    \/ \E p \in Processes : Start(p) \/ Initialized(p) \/ Close(p) \/ Crash(p)

Spec == Init /\ [][Next]_vars

------------------------------------------------------------------------------
(* The shape of the state.                                                 *)
TypeOK ==
    /\ about \in Collections
    /\ file \in Seq(Record) /\ torn \in BOOLEAN
    /\ process \in [Processes -> {"down", "starting", "disturbed", "up"}]
    /\ actor \in [Actors -> [phase : {"idle", "computed", "writing"},
                             op : Operations \cup {NoOperation},
                             copy : Seq(Record), list : Seq(Record),
                             alone : BOOLEAN]]
    /\ answer \in [Operations -> {"none", "true", "false", "error", "lost"}]
    /\ harm \in {"none", "overlap", "wiped", "collision"}
    /\ settled \subseteq {op.id : op \in Operations}
    /\ starts \in 0 .. MaxStarts /\ crashes \in 0 .. MaxCrashes

(* Threads of one process may lose each other's updates, but never tear a   *)
(* file: one that does not parse is being written, or writes of two        *)
(* processes have met in it, or a process died in the middle of one (the   *)
(* lock of ThreadSafeFile).                                                *)
TornOnlyByCollision == torn => Writers # {} \/ harm = "collision"

(* However operations interleave, whatever crashes, no file ever holds two *)
(* tenants of one id: a list that is written back was checked as a whole   *)
(* (create_tenant).                                                        *)
TenantsUnique ==
    about = "tenants" =>
        \A i, j \in DOMAIN file : file[i].id = file[j].id => i = j

(* The event and audit logs never exceed their limit (store_event,         *)
(* store_audit_log).                                                       *)
LogBounded == about \in {"events", "audit"} => Len(file) <= LogLimit

(* A key that was revoked while no other operation on the key file was     *)
(* under way is never accepted again, by any process, whatever overlaps,   *)
(* crashes and starts afterwards: validate_api_key writes back the list it *)
(* read, but no list with the key still active is left to write.           *)
RevocationHolds ==
    [][\A op \in Operations :
          op.kind = "validate_api_key" /\ answer[op] = "none" /\ answer'[op] = "true"
          => op.id \notin settled]_vars

(* The list as a table: of the records of an id, readers take the first;   *)
(* the latest entry of a log stands for all of its id.                     *)
LastOf(places) == CHOOSE i \in places : \A j \in places : j <= i

Shown(list, id) ==
    list[IF about \in {"events", "audit"} THEN LastOf(Found(list, id))
         ELSE FirstOf(Found(list, id))]

TableOf(list) ==
    [id \in {list[i].id : i \in DOMAIN list} |-> Shown(list, id).value]

Contents == IF Writers = {} THEN file
            ELSE actor[CHOOSE a \in Writers : TRUE].copy

Store == INSTANCE RecordStore WITH
    table  <- IF harm = "none" THEN TableOf(Contents) ELSE TableOf(<<>>),
    intact <- harm = "none"

(* As long as operations on a file do not overlap and no process starts    *)
(* once it holds records, each operation takes effect and answers as       *)
(* StorageBackend promises, also across crashes that break off no write.   *)
ImplementsStore == Store!Spec

==============================================================================
