---------------------------- MODULE Storage_proofs ----------------------------
(***************************************************************************)
(* Proofs about Storage.  The lists that reach a file are those that an    *)
(* operation made of a list it read, so what every operation preserves     *)
(* holds of every file, however the operations interleave (ListsStay).     *)
(***************************************************************************)
EXTENDS Storage, SequenceTheorems, FiniteSetTheorems, WellFoundedInduction, TLAPS

------------------------------------------------------------------------------
(* The shape of processes and actors, as far as these proofs need it.      *)
Fields == {"phase", "op", "copy", "list", "alone"}

ActorsOK ==
    /\ process \in [Processes -> {"down", "starting", "disturbed", "up"}]
    /\ DOMAIN actor = Actors
    /\ \A a \in Actors : /\ DOMAIN actor[a] = Fields
                         /\ actor[a].phase \in {"idle", "computed", "writing"}
                         /\ actor[a].alone \in BOOLEAN

LEMMA ProcessStep ==
    ASSUME process \in [Processes -> {"down", "starting", "disturbed", "up"}], [Next]_vars
    PROVE  process' \in [Processes -> {"down", "starting", "disturbed", "up"}]
<1>1. Disturbed \in [Processes -> {"down", "starting", "disturbed", "up"}]
  BY DEF Disturbed
<1> QED BY <1>1 DEF Next, vars, Read, ReadRaises, Truncate, WritePart, Finish, Start,
                    Initialized, Close, Crash

(* An actor's list stays, goes, or is what its operation made of the file. *)
LEMMA ActorsStep ==
    ASSUME ActorsOK, [Next]_vars
    PROVE  /\ ActorsOK'
           /\ \A a \in Actors : \/ actor'[a].list = actor[a].list
                                \/ actor'[a].list = <<>>
                                \/ \E op \in Operations :
                                      /\ Read(a, op)
                                      /\ Outcome(op, file).writes
                                      /\ actor'[a].list = Outcome(op, file).list
<1> USE DEF ActorsOK
<1>0. process' \in [Processes -> {"down", "starting", "disturbed", "up"}]
  BY ProcessStep
<1> USE <1>0
<1>1. ASSUME NEW b \in Actors, NEW op \in Operations, Read(b, op)
      PROVE  /\ ActorsOK'
             /\ \A a \in Actors : \/ actor'[a].list = actor[a].list
                                  \/ /\ a = b /\ Outcome(op, file).writes
                                     /\ actor'[a].list = Outcome(op, file).list
  <2>1. CASE Outcome(op, file).writes
    <3>1. actor' = [actor EXCEPT ![b] =
              [phase |-> "computed", op |-> op, copy |-> file,
               list |-> Outcome(op, file).list, alone |-> TRUE]]
      BY <1>1, <2>1 DEF Read
    <3> QED BY <3>1, <2>1 DEF Fields
  <2>2. CASE ~Outcome(op, file).writes
    BY <1>1, <2>2 DEF Read
  <2> QED BY <2>1, <2>2
<1>2. ASSUME NEW b \in Actors, NEW op \in Operations, ReadRaises(b, op)
      PROVE  actor' = actor
  BY <1>2 DEF ReadRaises
<1>3. ASSUME NEW b \in Actors, Truncate(b)
      PROVE  /\ ActorsOK'
             /\ \A a \in Actors : actor'[a].list = actor[a].list
  <2>1. actor' = [a \in Actors |->
          IF a = b THEN [actor[b] EXCEPT !.phase = "writing",
                                         !.alone = Writers = {} /\ Starters = {}]
          ELSE [actor[a] EXCEPT !.alone = @ /\ a \notin Writers]]
    BY <1>3 DEF Truncate
  <2>2. /\ DOMAIN actor'[b] = Fields /\ actor'[b].list = actor[b].list
        /\ actor'[b].phase = "writing"
        /\ actor'[b].alone = (Writers = {} /\ Starters = {})
    BY <2>1 DEF Fields
  <2>3. ASSUME NEW a \in Actors, a # b
        PROVE  /\ DOMAIN actor'[a] = Fields /\ actor'[a].list = actor[a].list
               /\ actor'[a].phase = actor[a].phase
               /\ actor'[a].alone = (actor[a].alone /\ a \notin Writers)
    BY <2>1, <2>3 DEF Fields
  <2>4. DOMAIN actor' = Actors
    BY <2>1
  <2> QED BY <2>2, <2>3, <2>4
<1>4. ASSUME NEW b \in Actors, WritePart(b)
      PROVE  actor' = actor
  BY <1>4 DEF WritePart
<1>5. ASSUME NEW b \in Actors, Finish(b)
      PROVE  /\ ActorsOK'
             /\ \A a \in Actors : actor'[a].list \in {actor[a].list, <<>>}
  BY <1>5 DEF Finish, Idle, Fields
<1>6. ASSUME NEW p \in Processes, Start(p)
      PROVE  /\ ActorsOK'
             /\ \A a \in Actors : actor'[a].list = actor[a].list
  <2>1. actor' = [a \in Actors |-> [actor[a] EXCEPT !.alone = @ /\ a \notin Writers]]
    BY <1>6 DEF Start
  <2>2. ASSUME NEW a \in Actors
        PROVE  /\ DOMAIN actor'[a] = Fields /\ actor'[a].list = actor[a].list
               /\ actor'[a].phase = actor[a].phase
               /\ actor'[a].alone = (actor[a].alone /\ a \notin Writers)
    BY <2>1 DEF Fields
  <2>3. \A a \in Actors : actor'[a].alone \in BOOLEAN
    BY <2>2, Zenon
  <2>4. DOMAIN actor' = Actors
    BY <2>1
  <2> QED BY <2>2, <2>3, <2>4
<1>7. ASSUME NEW p \in Processes, Close(p) \/ Initialized(p)
      PROVE  actor' = actor
  BY <1>7 DEF Close, Initialized
<1>8. ASSUME NEW p \in Processes, Crash(p)
      PROVE  /\ ActorsOK'
             /\ \A a \in Actors : actor'[a].list \in {actor[a].list, <<>>}
  BY <1>8 DEF Crash, Idle, Fields
<1>9. CASE UNCHANGED vars
  BY <1>9 DEF vars
<1> QED BY <1>1, <1>2, <1>3, <1>4, <1>5, <1>6, <1>7, <1>8, <1>9 DEF Next

------------------------------------------------------------------------------
(* What holds of the file and of the lists that are about to be written.   *)
ListsIn(L) == file \in L /\ \A a \in Actors : actor[a].list \in L

(* A set of lists that every operation on the file preserves is never left, *)
(* in whatever order the operations read and write.                        *)
LEMMA ListsStay ==
    ASSUME NEW L, <<>> \in L, ActorsOK, ListsIn(L), [Next]_vars,
           \A op \in Operations :
              Pending(op) /\ Outcome(op, file).writes => Outcome(op, file).list \in L
    PROVE  ListsIn(L)'
<1>1. file' \in L
  <2>1. file' \in {file, <<>>} \/ \E a \in Actors : file' = actor[a].list
    BY DEF Next, vars, Read, ReadRaises, Truncate, WritePart, Finish, Start,
           Initialized, Close, Crash
  <2> QED BY <2>1 DEF ListsIn
<1>2. \A a \in Actors : actor'[a].list \in L
  <2>1. ASSUME NEW a \in Actors, NEW op \in Operations,
               Read(a, op), Outcome(op, file).writes
        PROVE  Outcome(op, file).list \in L
    BY <2>1 DEF Read
  <2> QED BY <2>1, ActorsStep DEF ListsIn
<1> QED BY <1>1, <1>2 DEF ListsIn

------------------------------------------------------------------------------
(* An actor that is not alone in the file is one of two processes' writers. *)
TornInv ==
    /\ TornOnlyByCollision
    /\ \A a \in Actors : ~actor[a].alone => /\ actor[a].phase = "writing"
                                            /\ harm = "collision"
    /\ \A p \in Processes : process[p] = "disturbed" => harm = "collision"

(* At the start every actor is idle.                                       *)
LEMMA TornInit == Init => ActorsOK /\ TornInv
<1> SUFFICES ASSUME Init PROVE ActorsOK /\ TornInv
  OBVIOUS
<1>1. DOMAIN actor = Actors /\ \A a \in Actors : actor[a] = Idle
  BY DEF Init
<1>4. /\ process \in [Processes -> {"down", "starting", "disturbed", "up"}]
      /\ \A p \in Processes : process[p] = "down"
  BY DEF Init
<1>2. DOMAIN Idle = Fields /\ Idle.phase = "idle" /\ Idle.alone = TRUE
  BY DEF Idle, Fields
<1>3. ~torn
  BY DEF Init
<1> QED BY <1>1, <1>2, <1>3, <1>4 DEF ActorsOK, TornInv, TornOnlyByCollision

(* No step tears a file unless writes of two processes meet or one breaks  *)
(* off: the lock keeps the writes of one process apart.                    *)
LEMMA TornStep ==
    ASSUME ActorsOK, TornInv, [Next]_vars
    PROVE  TornInv'
<1> USE DEF ActorsOK, TornInv, TornOnlyByCollision, Writers
<1>0. \A p \in Processes : Disturbed[p] = "disturbed" => p \in Starters
  BY DEF Disturbed, Starters
<1>1. ASSUME NEW b \in Actors, NEW op \in Operations, Read(b, op)
      PROVE  TornInv'
  BY <1>1 DEF Read, HarmOfRead, Worse, Fields
<1>2. ASSUME NEW b \in Actors, NEW op \in Operations, ReadRaises(b, op)
      PROVE  TornInv'
  BY <1>2 DEF ReadRaises, HarmOfRead, Worse
<1>3. ASSUME NEW b \in Actors, Truncate(b)
      PROVE  TornInv'
  <2>1. /\ torn' = FALSE /\ actor[b].phase = "computed" /\ process' = Disturbed
        /\ harm' = IF Starters # {} \/ \E c \in Writers : ProcessOf[c] # ProcessOf[b]
                   THEN "collision" ELSE harm
        /\ \A c \in Writers : ProcessOf[c] # ProcessOf[b]
    BY <1>3 DEF Truncate, Locked
  <2>2. \A c \in Actors : \/ c = b /\ actor'[c].phase = "writing"
                                   /\ actor'[c].alone = (Writers = {} /\ Starters = {})
                          \/ c # b /\ actor'[c].phase = actor[c].phase
                                   /\ actor'[c].alone = (actor[c].alone /\ c \notin Writers)
    BY <1>3 DEF Truncate, Fields
  <2>3. ASSUME NEW c \in Actors, ~actor'[c].alone
        PROVE  actor'[c].phase = "writing" /\ harm' = "collision"
    BY <2>1, <2>2, <2>3
  <2>4. ASSUME NEW p \in Processes, process'[p] = "disturbed" PROVE harm' = "collision"
    BY <1>0, <2>1, <2>4
  <2> QED BY <2>1, <2>3, <2>4
<1>4. ASSUME NEW b \in Actors, WritePart(b)
      PROVE  TornInv'
  BY <1>4 DEF WritePart
<1>5. ASSUME NEW b \in Actors, Finish(b)
      PROVE  TornInv'
  BY <1>5 DEF Finish, Idle
<1>6. ASSUME NEW p \in Processes, Start(p)
      PROVE  TornInv'
  <2>1. /\ torn' = FALSE
        /\ Writers # {} \/ Starters # {} => harm' = "collision"
        /\ harm = "collision" => harm' = "collision"
        /\ process' = [Disturbed EXCEPT ![p] =
              IF Writers = {} /\ Starters = {} THEN "starting" ELSE "disturbed"]
    BY <1>6 DEF Start, Worse
  <2>2. \A c \in Actors : /\ actor'[c].phase = actor[c].phase
                          /\ actor'[c].alone = (actor[c].alone /\ c \notin Writers)
    BY <1>6 DEF Start, Fields
  <2>3. ASSUME NEW c \in Actors, ~actor'[c].alone
        PROVE  actor'[c].phase = "writing" /\ harm' = "collision"
    BY <2>1, <2>2, <2>3
  <2>4. ASSUME NEW q \in Processes, process'[q] = "disturbed" PROVE harm' = "collision"
    <3>1. Disturbed \in [Processes -> {"down", "starting", "disturbed", "up"}]
      BY DEF Disturbed
    <3> QED BY <1>0, <2>1, <2>4, <3>1
  <2> QED BY <2>1, <2>3, <2>4
<1>7. ASSUME NEW p \in Processes, Close(p)
      PROVE  TornInv'
  BY <1>7 DEF Close
<1>8. ASSUME NEW p \in Processes, Crash(p)
      PROVE  TornInv'
  BY <1>8 DEF Crash, Of, Idle
<1>9. CASE UNCHANGED vars
  BY <1>9 DEF vars
<1>10. ASSUME NEW p \in Processes, Initialized(p)
       PROVE  TornInv'
  <2>1. process[p] \in {"starting", "disturbed"} /\ process' = [process EXCEPT ![p] = "up"]
        /\ UNCHANGED <<actor, harm>> /\ (torn' => process[p] = "disturbed")
    BY <1>10 DEF Initialized, Starters
  <2> QED BY <2>1
<1> QED BY <1>1, <1>2, <1>3, <1>4, <1>5, <1>6, <1>7, <1>8, <1>9, <1>10 DEF Next

(* The lock of ThreadSafeFile is enough among the threads of a process: a  *)
(* file that does not parse is being written, or writes of two processes   *)
(* have met in it, or one has broken off.                                  *)
THEOREM TornHolds == Spec => []TornOnlyByCollision
<1>1. ActorsOK /\ TornInv /\ [Next]_vars => (ActorsOK /\ TornInv)'
  BY ActorsStep, TornStep
<1>2. TornInv => TornOnlyByCollision
  BY DEF TornInv
<1> QED BY TornInit, <1>1, <1>2, PTL DEF Spec

------------------------------------------------------------------------------
(* An operation's record is a record.                                      *)
LEMMA RecordOfType ==
    ASSUME NEW op \in Operations
    PROVE  RecordOf(op) \in Record /\ RecordOf(op).id = op.id
  BY StorageAssumption DEF RecordOf, Record, Operation

(* The lists in which no two records have the same id.                     *)
UniqueLists ==
    {l \in Seq(Record) : \A i, j \in DOMAIN l : l[i].id = l[j].id => i = j}

TenantsInv == about = "tenants" => ListsIn(UniqueLists)

(* What is done to the tenants keeps their ids apart.                      *)
LEMMA TenantOutcome ==
    ASSUME NEW op \in Operations, CollectionOf[op.kind] = "tenants",
           NEW l \in UniqueLists, Outcome(op, l).writes
    PROVE  Outcome(op, l).list \in UniqueLists
<1>1. op.kind \in {"create_tenant", "get_tenant"}
  BY StorageAssumption DEF Operation, Kinds, CollectionOf
<1>2. op.kind = "create_tenant"
  BY <1>1 DEF Outcome, Get, Answered, Reading, Logging, Updating
<1>3. Outcome(op, l) = CreateTenant(op, l)
  BY <1>2 DEF Outcome, Reading, Logging, Updating
<1>4. Found(l, op.id) = {} /\ Outcome(op, l).list = Append(l, RecordOf(op))
  BY <1>3 DEF CreateTenant, Answered, Writing
<1>5. \A i \in DOMAIN l : l[i].id # op.id
  BY <1>4 DEF Found
<1>6. l \in Seq(Record) /\ \A i, j \in DOMAIN l : l[i].id = l[j].id => i = j
  BY DEF UniqueLists
<1>7. /\ Append(l, RecordOf(op)) \in Seq(Record)
      /\ DOMAIN Append(l, RecordOf(op)) = DOMAIN l \cup {Len(l) + 1}
      /\ \A i \in DOMAIN l : Append(l, RecordOf(op))[i] = l[i]
      /\ Append(l, RecordOf(op))[Len(l) + 1] = RecordOf(op)
  BY <1>6, RecordOfType
<1> DEFINE longer == Append(l, RecordOf(op))
<1>8. ASSUME NEW i \in DOMAIN longer, NEW j \in DOMAIN longer,
             longer[i].id = longer[j].id
      PROVE  i = j
  <2> HIDE DEF longer
  <2>1. /\ DOMAIN longer = DOMAIN l \cup {Len(l) + 1}
        /\ \A k \in DOMAIN l : longer[k].id = l[k].id /\ l[k].id # op.id
        /\ longer[Len(l) + 1].id = op.id
    BY <1>5, <1>7, RecordOfType DEF longer
  <2> QED BY <2>1, <1>6, <1>8
<1> QED BY <1>4, <1>7, <1>8 DEF UniqueLists

(* However operations interleave and whatever crashes, no file holds two   *)
(* tenants of one id (create_tenant).                                      *)
THEOREM TenantsHold == Spec => []TenantsUnique
<1>1. Init => TenantsInv
  <2>1. Init => file = <<>> /\ \A a \in Actors : actor[a].list = <<>>
    BY DEF Init, Idle
  <2>2. <<>> \in UniqueLists
    BY DEF UniqueLists
  <2> QED BY <2>1, <2>2 DEF TenantsInv, ListsIn
<1>2. ASSUME ActorsOK, TenantsInv, [Next]_vars
      PROVE  TenantsInv'
  <2>1. about' = about
    BY <1>2 DEF Next, vars, Read, ReadRaises, Truncate, WritePart, Finish, Start,
                Initialized, Close, Crash
  <2>2. CASE about = "tenants"
    <3>1. ListsIn(UniqueLists) /\ file \in UniqueLists
      BY <1>2, <2>2 DEF TenantsInv, ListsIn
    <3>2. <<>> \in UniqueLists
      BY DEF UniqueLists
    <3>3. \A op \in Operations : Pending(op) /\ Outcome(op, file).writes
                                 => Outcome(op, file).list \in UniqueLists
      BY <2>2, <3>1, TenantOutcome DEF Pending
    <3>4. ListsIn(UniqueLists)'
      BY <1>2, <3>1, <3>2, <3>3, ListsStay
    <3> QED BY <3>4 DEF TenantsInv, ListsIn, UniqueLists, Record
  <2> QED BY <2>1, <2>2 DEF TenantsInv
<1>3. TenantsInv => TenantsUnique
  BY DEF TenantsInv, TenantsUnique, ListsIn, UniqueLists
<1>4. ActorsOK /\ TenantsInv /\ [Next]_vars => (ActorsOK /\ TenantsInv)'
  BY <1>2, ActorsStep
<1> QED BY TornInit, <1>1, <1>3, <1>4, PTL DEF Spec

------------------------------------------------------------------------------
(* The lists within the limit of a log.                                    *)
ShortLists == {l \in Seq(Record) : Len(l) <= LogLimit}

LogInv == about \in {"events", "audit"} => ListsIn(ShortLists)

(* What is added to a log leaves it within its limit.                      *)
LEMMA LogOutcome ==
    ASSUME NEW op \in Operations, CollectionOf[op.kind] \in {"events", "audit"},
           NEW l \in ShortLists, Outcome(op, l).writes
    PROVE  Outcome(op, l).list \in ShortLists
<1>1. op.kind \in Logging
  <2>1. op.kind \in Logging \cup {"get_events", "get_audit_logs"}
    BY StorageAssumption DEF Operation, Kinds, CollectionOf, Logging
  <2>2. op.kind \in {"get_events", "get_audit_logs"} => ~Outcome(op, l).writes
    BY DEF Outcome, Get, Answered, Reading, Logging, Updating
  <2>3. QED
    BY <2>1, <2>2
<1>2. Outcome(op, l).list = Trimmed(Append(l, RecordOf(op)))
  <2>1. Outcome(op, l) = Writing(Trimmed(Append(l, RecordOf(op))))
    BY <1>1 DEF Outcome, Logging, Updating, Reading
  <2>2. QED
    BY <2>1 DEF Writing
<1> DEFINE longer == Append(l, RecordOf(op))
<1>3. longer \in Seq(Record) /\ Len(longer) \in Nat
  BY RecordOfType DEF ShortLists
<1>4. CASE Len(longer) > LogLimit
  <2>1. Trimmed(longer) = SubSeq(longer, Len(longer) - LogKept + 1, Len(longer))
    BY <1>4 DEF Trimmed
  <2>2. /\ LogKept \in Nat /\ LogLimit \in Nat
        /\ LogKept >= 1 /\ LogKept <= LogLimit
    BY StorageAssumption
  <2>3. /\ Trimmed(longer) \in Seq(Record)
        /\ Len(Trimmed(longer)) = LogKept
    <3> HIDE DEF longer
    <3>1. \A i \in Len(longer) - LogKept + 1 .. Len(longer) : longer[i] \in Record
      BY <1>3, <1>4, <2>2
    <3> QED BY <1>3, <1>4, <2>1, <2>2, <3>1, SubSeqProperties
  <2> QED BY <1>2, <2>2, <2>3 DEF ShortLists
<1>5. CASE Len(longer) <= LogLimit
  BY <1>2, <1>3, <1>5, StorageAssumption DEF Trimmed, ShortLists
<1> QED BY <1>3, <1>4, <1>5, StorageAssumption

(* However operations interleave, the event and audit logs keep within     *)
(* their limit (store_event, store_audit_log).                             *)
THEOREM LogHolds == Spec => []LogBounded
<1>1. Init => LogInv
  <2>1. Init => file = <<>> /\ \A a \in Actors : actor[a].list = <<>>
    BY DEF Init, Idle
  <2>2. <<>> \in ShortLists
    BY StorageAssumption DEF ShortLists
  <2> QED BY <2>1, <2>2 DEF LogInv, ListsIn
<1>2. ASSUME ActorsOK, LogInv, [Next]_vars
      PROVE  LogInv'
  <2>1. about' = about
    BY <1>2 DEF Next, vars, Read, ReadRaises, Truncate, WritePart, Finish, Start,
                Initialized, Close, Crash
  <2>2. CASE about \in {"events", "audit"}
    <3>1. ListsIn(ShortLists) /\ file \in ShortLists
      BY <1>2, <2>2 DEF LogInv, ListsIn
    <3>2. <<>> \in ShortLists
      BY StorageAssumption DEF ShortLists
    <3>3. \A op \in Operations : Pending(op) /\ Outcome(op, file).writes
                                 => Outcome(op, file).list \in ShortLists
      BY <2>2, <3>1, LogOutcome DEF Pending
    <3>4. ListsIn(ShortLists)'
      BY <1>2, <3>1, <3>2, <3>3, ListsStay
    <3> QED BY <3>4 DEF LogInv, ListsIn, ShortLists
  <2> QED BY <2>1, <2>2 DEF LogInv
<1>3. LogInv => LogBounded
  BY DEF LogInv, LogBounded, ListsIn, ShortLists
<1>4. ActorsOK /\ LogInv /\ [Next]_vars => (ActorsOK /\ LogInv)'
  BY <1>2, ActorsStep
<1> QED BY TornInit, <1>1, <1>3, <1>4, PTL DEF Spec

------------------------------------------------------------------------------
(* The least of some numbers.                                              *)
Less == OpToRel(<, Nat)

LEMMA LeastExists ==
    ASSUME NEW T, T \subseteq Nat, T # {}
    PROVE  \E x \in T : \A y \in T : x <= y
<1>1. IsWellFoundedOn(Less, Nat)
  BY NatLessThanWellFounded DEF Less
<1>2. PICK x \in T : \A y \in T : ~ (<<y, x>> \in Less)
  BY <1>1, WFMin
<1>3. \A y \in T : ~ (<<y, x>> \in {ss \in Nat \X Nat : ss[1] < ss[2]})
  BY <1>2 DEF OpToRel, Less
<1>4. ASSUME NEW y \in T PROVE x <= y
  <2>1. <<y, x>> \in Nat \X Nat /\ <<y, x>>[1] = y /\ <<y, x>>[2] = x
    OBVIOUS
  <2>2. ~ (y < x)
    BY <1>3, <2>1
  <2> QED BY <2>1, <2>2
<1> QED BY <1>4

(* What one more record makes of the records kept so far.                  *)
Keeps(list, id, n, kept) ==
    IF list[n].id = id THEN kept ELSE Append(kept, list[n])

(* The function by which Others is computed: it exists.                    *)
Computes(list, id, m, f) ==
    f = [n \in 0 .. m |-> IF n = 0 THEN <<>> ELSE Keeps(list, id, n, f[n - 1])]

LEMMA OthersComputed ==
    ASSUME NEW list \in Seq(Record), NEW id
    PROVE  \E f : Computes(list, id, Len(list), f) /\ Others(list, id) = f[Len(list)]
<1> DEFINE Bad == {m \in Nat : ~ \E f : Computes(list, id, m, f)}
<1>1. ASSUME Bad # {} PROVE FALSE
  <2>1. PICK m \in Bad : \A k \in Bad : m <= k
    <3>1. Bad \subseteq Nat
      OBVIOUS
    <3> HIDE DEF Bad
    <3> QED BY <1>1, <3>1, LeastExists
  <2>2. CASE m = 0
    <3>1. Computes(list, id, 0, [n \in 0 .. 0 |-> <<>>])
      BY DEF Computes
    <3> QED BY <2>1, <2>2, <3>1
  <2>3. CASE m # 0
    <3>1. m \in Nat /\ m - 1 \in Nat /\ m - 1 \notin Bad
      BY <2>1, <2>3
    <3>2. PICK g : Computes(list, id, m - 1, g)
      BY <3>1
    <3> DEFINE h == [n \in 0 .. m |-> IF n = m THEN Keeps(list, id, m, g[m - 1]) ELSE g[n]]
    <3>3. ASSUME NEW n \in 0 .. m
          PROVE  h[n] = IF n = 0 THEN <<>> ELSE Keeps(list, id, n, h[n - 1])
      <4>1. CASE n = 0
        BY <2>3, <3>1, <3>2, <4>1 DEF Computes
      <4>2. CASE n = m
        <5>1. h[m - 1] = g[m - 1] /\ h[m] = Keeps(list, id, m, g[m - 1])
          BY <3>1
        <5> QED BY <2>3, <4>2, <5>1
      <4>3. CASE n # 0 /\ n # m
        <5>1. n \in 0 .. m - 1 /\ n - 1 \in 0 .. m /\ n - 1 # m
          BY <3>1, <4>3
        <5>2. h[n] = g[n] /\ h[n - 1] = g[n - 1]
          BY <4>3, <5>1
        <5>3. g[n] = Keeps(list, id, n, g[n - 1])
          BY <3>2, <4>3, <5>1 DEF Computes
        <5> QED BY <4>3, <5>2, <5>3
      <4> QED BY <4>1, <4>2, <4>3
    <3>4. Computes(list, id, m, h)
      <4>1. h = [n \in 0 .. m |-> h[n]]
        OBVIOUS
      <4> HIDE DEF h
      <4> QED BY <3>3, <4>1, Zenon DEF Computes
    <3> QED BY <2>1, <3>4
  <2> QED BY <2>2, <2>3
<1>2. Len(list) \in Nat
  OBVIOUS
<1>3. \E f : Computes(list, id, Len(list), f)
  BY <1>1, <1>2
<1>4. Others(list, id) = (CHOOSE f : Computes(list, id, Len(list), f))[Len(list)]
  BY DEF Others, Computes, Keeps
<1>5. Computes(list, id, Len(list), CHOOSE f : Computes(list, id, Len(list), f))
  BY <1>3
<1> QED BY <1>4, <1>5

(* What is known of the records kept of the first n.                       *)
KeptOf(list, id, n, kept) ==
    /\ kept \in Seq(Record)
    /\ \A j \in DOMAIN kept : \E i \in 1 .. n : list[i].id # id /\ kept[j] = list[i]
    /\ \A i \in 1 .. n : list[i].id # id => \E j \in DOMAIN kept : kept[j] = list[i]
    /\ list \in UniqueLists => kept \in UniqueLists

LEMMA KeptStep ==
    ASSUME NEW list \in Seq(Record), NEW id, NEW n \in DOMAIN list, NEW kept,
           KeptOf(list, id, n - 1, kept)
    PROVE  KeptOf(list, id, n, Keeps(list, id, n, kept))
<1>1. n \in Nat /\ n >= 1 /\ n <= Len(list) /\ Len(list) \in Nat /\ DOMAIN list = 1 .. Len(list)
  OBVIOUS
<1>2. kept \in Seq(Record) /\ list[n] \in Record
  BY DEF KeptOf
<1>3. 1 .. n = (1 .. n - 1) \cup {n}
  BY <1>1
<1>4. CASE list[n].id = id
  BY <1>1, <1>3, <1>4 DEF KeptOf, Keeps
<1>5. CASE list[n].id # id
  <2> DEFINE more == Append(kept, list[n])
  <2>1. /\ more \in Seq(Record)
        /\ DOMAIN more = DOMAIN kept \cup {Len(kept) + 1}
        /\ \A j \in DOMAIN kept : more[j] = kept[j]
        /\ more[Len(kept) + 1] = list[n]
    BY <1>2
  <2> HIDE DEF more
  <2>2. \A j \in DOMAIN more : \E i \in 1 .. n : list[i].id # id /\ more[j] = list[i]
    <3>1. ASSUME NEW j \in DOMAIN kept
          PROVE  \E i \in 1 .. n : list[i].id # id /\ more[j] = list[i]
      <4>1. PICK i \in 1 .. n - 1 : list[i].id # id /\ kept[j] = list[i]
        BY DEF KeptOf
      <4> QED BY <1>3, <2>1, <4>1
    <3>2. n \in 1 .. n
      BY <1>1
    <3> QED BY <1>5, <2>1, <3>1, <3>2
  <2>3. \A i \in 1 .. n : list[i].id # id => \E j \in DOMAIN more : more[j] = list[i]
    BY <1>3, <1>5, <2>1 DEF KeptOf
  <2>4. ASSUME list \in UniqueLists PROVE more \in UniqueLists
    <3>1. \A j \in DOMAIN kept : kept[j].id # list[n].id
      <4> SUFFICES ASSUME NEW j \in DOMAIN kept PROVE kept[j].id # list[n].id
        OBVIOUS
      <4>1. PICK i \in 1 .. n - 1 : kept[j] = list[i]
        BY DEF KeptOf
      <4>2. i \in DOMAIN list /\ i # n
        BY <1>1
      <4> QED BY <2>4, <4>1, <4>2 DEF UniqueLists
    <3>2. \A i, j \in DOMAIN kept : kept[i].id = kept[j].id => i = j
      BY <2>4 DEF KeptOf, UniqueLists
    <3>3. \A i, j \in DOMAIN more : more[i].id = more[j].id => i = j
      BY <2>1, <3>1, <3>2
    <3> QED BY <2>1, <3>3 DEF UniqueLists
  <2> QED BY <1>5, <2>1, <2>2, <2>3, <2>4 DEF KeptOf, Keeps, more
<1> QED BY <1>4, <1>5

(* Others keeps the records of other ids, and those only.                  *)
LEMMA OthersKept ==
    ASSUME NEW list \in Seq(Record), NEW id
    PROVE  KeptOf(list, id, Len(list), Others(list, id))
<1>1. PICK f : Computes(list, id, Len(list), f) /\ Others(list, id) = f[Len(list)]
  BY OthersComputed
<1>2. Len(list) \in Nat /\ DOMAIN list = 1 .. Len(list)
  OBVIOUS
<1> DEFINE Bad == {n \in 0 .. Len(list) : ~ KeptOf(list, id, n, f[n])}
<1>3. ASSUME Bad # {} PROVE FALSE
  <2>1. PICK n \in Bad : \A k \in Bad : n <= k
    <3>1. Bad \subseteq Nat
      BY <1>2
    <3> HIDE DEF Bad
    <3> QED BY <1>3, <3>1, LeastExists
  <2>2. CASE n = 0
    <3>1. f[0] = <<>>
      BY <1>1, <1>2 DEF Computes
    <3>2. KeptOf(list, id, 0, <<>>)
      BY DEF KeptOf, UniqueLists
    <3> QED BY <2>1, <2>2, <3>1, <3>2
  <2>3. CASE n # 0
    <3>1. n - 1 \in 0 .. Len(list) /\ n \in DOMAIN list /\ n - 1 \notin Bad
      BY <1>2, <2>1, <2>3
    <3>2. KeptOf(list, id, n - 1, f[n - 1])
      BY <3>1
    <3>3. f[n] = Keeps(list, id, n, f[n - 1])
      BY <1>1, <1>2, <2>1, <2>3 DEF Computes
    <3>4. KeptOf(list, id, n, f[n])
      BY <3>1, <3>2, <3>3, KeptStep
    <3> QED BY <2>1, <3>4
  <2> QED BY <2>2, <2>3
<1>4. KeptOf(list, id, Len(list), f[Len(list)])
  BY <1>2, <1>3
<1> QED BY <1>1, <1>4

------------------------------------------------------------------------------
(* What an operation makes of a list, case by case.                        *)
NewValue(op) == IF op.kind = "revoke_api_key" THEN "revoked" ELSE op.value

Adds(op, l, m) ==
    /\ op.kind \in Creating \cup {"create_tenant", "update_daily_stats"}
    /\ op.kind \notin Creating => Found(l, op.id) = {}
    /\ m = Append(l, RecordOf(op))

Logs(op, l, m) ==
    op.kind \in Logging /\ m = Trimmed(Append(l, RecordOf(op)))

Sets(op, l, m) ==
    /\ op.kind \in Updating \cup {"revoke_api_key", "update_daily_stats"}
    /\ Found(l, op.id) # {}
    /\ m = [l EXCEPT ![FirstOf(Found(l, op.id))].value = NewValue(op)]

Uses(op, l, m) ==
    /\ op.kind = "validate_api_key" /\ m = l
    /\ \E i \in Found(l, op.id) : l[i].value # "revoked"

Drops(op, l, m) ==
    /\ op.kind = "delete_webhook" /\ Found(l, op.id) # {}
    /\ m = Others(l, op.id)

LEMMA OutcomeIs ==
    ASSUME NEW op \in Operations, NEW l
    PROVE  /\ Outcome(op, l).writes \in BOOLEAN
           /\ Outcome(op, l).reply \in {"true", "false", "error"}
           /\ Outcome(op, l).writes =>
                LET m == Outcome(op, l).list
                IN  Adds(op, l, m) \/ Logs(op, l, m) \/ Sets(op, l, m)
                    \/ Uses(op, l, m) \/ Drops(op, l, m)
           /\ ~ Outcome(op, l).writes =>
                \/ /\ op.kind = "create_tenant" /\ Found(l, op.id) # {}
                   /\ Outcome(op, l).reply = "error"
                \/ /\ op.kind \in Updating \cup {"revoke_api_key", "delete_webhook"}
                   /\ Found(l, op.id) = {} /\ Outcome(op, l).reply = "false"
                \/ /\ op.kind = "validate_api_key" /\ Outcome(op, l).reply = "false"
                   /\ \A i \in Found(l, op.id) : l[i].value = "revoked"
                \/ /\ op.kind \in Reading
                   /\ Outcome(op, l).reply =
                        IF Found(l, op.id) = {} THEN "false" ELSE "true"
<1> USE DEF Adds, Logs, Sets, Uses, Drops, Answered, Writing
<1>1. op.kind \in Kinds
  BY StorageAssumption DEF Operation
<1>2. CASE op.kind = "create_tenant"
  <2>1. Outcome(op, l) = CreateTenant(op, l)
    BY <1>2 DEF Outcome, Logging, Updating, Reading
  <2> QED BY <1>2, <2>1 DEF CreateTenant
<1>3. CASE op.kind = "validate_api_key"
  <2>1. Outcome(op, l) = Validate(op, l)
    BY <1>3 DEF Outcome, Logging, Updating, Reading
  <2> QED BY <1>3, <2>1 DEF Validate
<1>4. CASE op.kind = "revoke_api_key"
  <2>1. Outcome(op, l) = Updated(l, op.id, "revoked")
    BY <1>4 DEF Outcome, Logging, Updating, Reading
  <2> QED BY <1>4, <2>1 DEF Updated, NewValue
<1>5. CASE op.kind \in Logging
  <2>1. Outcome(op, l) = Writing(Trimmed(Append(l, RecordOf(op))))
    BY <1>5 DEF Outcome, Logging, Updating, Reading
  <2> QED BY <1>5, <2>1
<1>6. CASE op.kind \in Updating
  <2>1. Outcome(op, l) = Updated(l, op.id, op.value)
    BY <1>6 DEF Outcome, Logging, Updating, Reading
  <2>2. NewValue(op) = op.value
    BY <1>6 DEF NewValue, Updating
  <2>3. CASE Found(l, op.id) = {}
    BY <1>6, <2>1, <2>3 DEF Updated
  <2>4. CASE Found(l, op.id) # {}
    BY <1>6, <2>1, <2>2, <2>4 DEF Updated
  <2> QED BY <2>3, <2>4
<1>7. CASE op.kind = "delete_webhook"
  <2>1. Outcome(op, l) = DeleteWebhook(op, l)
    BY <1>7 DEF Outcome, Logging, Updating, Reading
  <2> QED BY <1>7, <2>1 DEF DeleteWebhook
<1>8. CASE op.kind = "update_daily_stats"
  <2>1. Outcome(op, l) = UpdateStats(op, l)
    BY <1>8 DEF Outcome, Logging, Updating, Reading
  <2> QED BY <1>8, <2>1 DEF UpdateStats, Updated, NewValue, Creating
<1>9. CASE op.kind \in Reading
  <2>1. Outcome(op, l) = Get(op, l)
    BY <1>9 DEF Outcome, Logging, Updating, Reading
  <2> QED BY <1>9, <2>1 DEF Get
<1>10. CASE op.kind \in Creating
  <2>1. Outcome(op, l) = Writing(Append(l, RecordOf(op)))
    BY <1>10 DEF Outcome, Logging, Updating, Reading, Creating
  <2> QED BY <1>10, <2>1
<1>11. op.kind \in {"create_tenant", "validate_api_key", "revoke_api_key",
                    "delete_webhook", "update_daily_stats"}
                   \cup Logging \cup Updating \cup Reading \cup Creating
  BY <1>1 DEF Kinds, CollectionOf, Logging, Updating, Reading, Creating
<1> QED BY <1>2, <1>3, <1>4, <1>5, <1>6, <1>7, <1>8, <1>9, <1>10, <1>11

(* What a trim leaves.                                                     *)
LEMMA TrimmedIs ==
    ASSUME NEW l \in Seq(Record)
    PROVE  /\ Len(l) \in Nat /\ DOMAIN l = 1 .. Len(l)
           /\ Len(l) > LogLimit =>
                /\ Trimmed(l) \in Seq(Record)
                /\ Len(l) - LogKept \in Nat
                /\ Len(Trimmed(l)) = LogKept /\ DOMAIN Trimmed(l) = 1 .. LogKept
                /\ \A i \in 1 .. LogKept : Trimmed(l)[i] = l[Len(l) - LogKept + i]
           /\ ~ (Len(l) > LogLimit) => Trimmed(l) = l
<1>1. Len(l) \in Nat /\ DOMAIN l = 1 .. Len(l)
  OBVIOUS
<1>2. LogKept \in Nat /\ LogLimit \in Nat /\ LogKept >= 1 /\ LogKept <= LogLimit
  BY StorageAssumption
<1>3. ASSUME Len(l) > LogLimit
      PROVE  /\ Trimmed(l) \in Seq(Record)
             /\ Len(Trimmed(l)) = LogKept /\ DOMAIN Trimmed(l) = 1 .. LogKept
             /\ \A i \in 1 .. LogKept : Trimmed(l)[i] = l[Len(l) - LogKept + i]
  <2>1. Trimmed(l) = SubSeq(l, Len(l) - LogKept + 1, Len(l))
    BY <1>3 DEF Trimmed
  <2>2. \A i \in Len(l) - LogKept + 1 .. Len(l) : l[i] \in Record
    BY <1>1, <1>2, <1>3
  <2>3. Trimmed(l) \in Seq(Record) /\ Len(Trimmed(l)) = LogKept
    BY <1>1, <1>2, <1>3, <2>1, <2>2, SubSeqProperties
  <2>4. \A i \in 1 .. LogKept : Trimmed(l)[i] = l[(Len(l) - LogKept + 1) + i - 1]
    BY <1>1, <1>2, <1>3, <2>1, <2>2, SubSeqProperties
  <2>5. DOMAIN Trimmed(l) = 1 .. LogKept
    BY <2>3
  <2>6. \A i \in 1 .. LogKept : (Len(l) - LogKept + 1) + i - 1 = Len(l) - LogKept + i
    BY <1>1, <1>2
  <2> QED BY <2>3, <2>4, <2>5, <2>6
<1>4. ~ (Len(l) > LogLimit) => Trimmed(l) = l
  BY DEF Trimmed
<1> QED BY <1>1, <1>2, <1>3, <1>4

(* What a list of records becomes is one.                                  *)
LEMMA OutcomeType ==
    ASSUME NEW op \in Operations, NEW l \in Seq(Record), Outcome(op, l).writes
    PROVE  Outcome(op, l).list \in Seq(Record)
<1> DEFINE m == Outcome(op, l).list
<1>1. RecordOf(op) \in Record
  BY RecordOfType
<1>2. Append(l, RecordOf(op)) \in Seq(Record)
  BY <1>1
<1>3. CASE Adds(op, l, m)
  BY <1>2, <1>3 DEF Adds
<1>4. CASE Logs(op, l, m)
  BY <1>2, <1>4, TrimmedIs DEF Logs
<1>5. CASE Sets(op, l, m)
  <2>1. NewValue(op) \in STRING \cup {"revoked"}
    <3>1. op \in Operation
      BY StorageAssumption
    <3>2. op.value \in STRING
      BY <3>1 DEF Operation
    <3> QED BY <3>2 DEF NewValue
  <2> DEFINE k == FirstOf(Found(l, op.id))
             v == NewValue(op)
             s == [l EXCEPT ![k].value = v]
  <2>2. m = s
    BY <1>5 DEF Sets
  <2> HIDE DEF k, v, m
  <2>3. DOMAIN s = 1 .. Len(l) /\ Len(l) \in Nat
    OBVIOUS
  <2>4. \A i \in 1 .. Len(l) : l[i] \in [id : STRING, value : STRING \cup {"revoked"}]
    <3>1. \A i \in 1 .. Len(l) : l[i] \in Record
      OBVIOUS
    <3> QED BY <3>1 DEF Record
  <2>5. \A i \in 1 .. Len(l) : s[i] = IF i = k THEN [l[i] EXCEPT !.value = v] ELSE l[i]
    OBVIOUS
  <2>6. \A i \in 1 .. Len(l) : s[i] \in Record
    BY <2>1, <2>4, <2>5 DEF Record, v
  <2>7. s \in [1 .. Len(l) -> Record]
    <3>1. s = [i \in 1 .. Len(l) |-> s[i]]
      BY <2>3
    <3> HIDE DEF s
    <3> QED BY <2>6, <3>1
  <2> HIDE DEF s
  <2> QED BY <2>2, <2>3, <2>7 DEF m
<1>6. CASE Uses(op, l, m)
  BY <1>6 DEF Uses
<1>7. CASE Drops(op, l, m)
  BY <1>7, OthersKept DEF Drops, KeptOf
<1> QED BY <1>3, <1>4, <1>5, <1>6, <1>7, OutcomeIs

------------------------------------------------------------------------------
(* What each step makes of the actors.                                     *)
Actor == [phase : {"idle", "computed", "writing"},
          op : Operations \cup {NoOperation},
          copy : Seq(Record), list : Seq(Record), alone : BOOLEAN]

(* An actor's operation and its lists stay.                                *)
SameWork(b) == /\ actor'[b].op = actor[b].op /\ actor'[b].copy = actor[b].copy
               /\ actor'[b].list = actor[b].list

Same(b) == SameWork(b) /\ actor'[b].phase = actor[b].phase

LEMMA IdleActor == Idle \in Actor
<1>1. <<>> \in Seq(Record)
  OBVIOUS
<1>2. Idle.phase = "idle" /\ Idle.op = NoOperation /\ Idle.alone \in BOOLEAN
  BY DEF Idle
<1> QED BY <1>1 DEF Idle, Actor

LEMMA ReadActors ==
    ASSUME TypeOK, NEW a \in Actors, NEW op \in Operations, Read(a, op)
    PROVE  /\ actor' \in [Actors -> Actor]
           /\ \A b \in Actors : b # a => actor'[b] = actor[b]
           /\ IF Outcome(op, file).writes
              THEN /\ actor'[a].phase = "computed" /\ actor'[a].op = op
                   /\ actor'[a].copy = file
                   /\ actor'[a].list = Outcome(op, file).list
                   /\ answer' = answer
              ELSE /\ actor'[a] = actor[a]
                   /\ answer' = [answer EXCEPT ![op] = Outcome(op, file).reply]
<1>1. actor \in [Actors -> Actor] /\ file \in Seq(Record)
  BY DEF TypeOK, Actor
<1>2. CASE Outcome(op, file).writes
  <2> DEFINE s == [phase |-> "computed", op |-> op, copy |-> file,
                   list |-> Outcome(op, file).list, alone |-> TRUE]
  <2>1. actor' = [actor EXCEPT ![a] = s] /\ answer' = answer
    BY <1>2 DEF Read
  <2>2. Outcome(op, file).list \in Seq(Record)
    BY <1>1, <1>2, OutcomeType
  <2>3. s \in Actor
    BY <1>1, <2>2 DEF Actor
  <2>4. /\ s.phase = "computed" /\ s.op = op /\ s.copy = file
        /\ s.list = Outcome(op, file).list
    OBVIOUS
  <2> HIDE DEF s
  <2> QED BY <1>1, <1>2, <2>1, <2>3, <2>4
<1>3. CASE ~ Outcome(op, file).writes
  <2>1. actor' = actor /\ answer' = [answer EXCEPT ![op] = Outcome(op, file).reply]
    BY <1>3 DEF Read
  <2> QED BY <1>1, <1>3, <2>1
<1> QED BY <1>2, <1>3

LEMMA TruncateActors ==
    ASSUME TypeOK, NEW a \in Actors, Truncate(a)
    PROVE  /\ actor' \in [Actors -> Actor]
           /\ SameWork(a) /\ actor'[a].phase = "writing"
           /\ \A b \in Actors : b # a => Same(b)
<1>1. actor \in [Actors -> Actor]
  BY DEF TypeOK, Actor
<1>2. actor' = [b \in Actors |->
          IF b = a THEN [actor[a] EXCEPT !.phase = "writing",
                                         !.alone = Writers = {} /\ Starters = {}]
          ELSE [actor[b] EXCEPT !.alone = @ /\ b \notin Writers]]
  BY DEF Truncate
<1>4. /\ actor'[a] = [actor[a] EXCEPT !.phase = "writing",
                                      !.alone = Writers = {} /\ Starters = {}]
      /\ actor[a] \in Actor
  BY <1>1, <1>2
<1>5. actor'[a] \in Actor /\ SameWork(a) /\ actor'[a].phase = "writing"
  <2>1. PICK alone \in BOOLEAN : alone = (Writers = {} /\ Starters = {})
    OBVIOUS
  <2>2. actor'[a] = [actor[a] EXCEPT !.phase = "writing", !.alone = alone]
    BY <1>4, <2>1
  <2> QED BY <1>4, <2>2 DEF SameWork, Actor
<1>6. ASSUME NEW b \in Actors, b # a
      PROVE  actor'[b] \in Actor /\ Same(b)
  <2>1. /\ actor'[b] = [actor[b] EXCEPT !.alone = actor[b].alone /\ b \notin Writers]
        /\ actor[b] \in Actor
    BY <1>1, <1>2, <1>6
  <2>2. PICK alone \in BOOLEAN : alone = (actor[b].alone /\ b \notin Writers)
    OBVIOUS
  <2>3. actor'[b] = [actor[b] EXCEPT !.alone = alone]
    BY <2>1, <2>2
  <2> QED BY <2>1, <2>3 DEF Same, SameWork, Actor
<1>7. actor' = [b \in Actors |-> actor'[b]]
  BY <1>2
<1> QED BY <1>5, <1>6, <1>7

LEMMA StartActors ==
    ASSUME TypeOK, NEW p \in Processes, Start(p)
    PROVE  /\ actor' \in [Actors -> Actor]
           /\ \A b \in Actors : Same(b)
<1>1. actor \in [Actors -> Actor]
  BY DEF TypeOK, Actor
<1>2. actor' = [a \in Actors |-> [actor[a] EXCEPT !.alone = @ /\ a \notin Writers]]
  BY DEF Start
<1>4. ASSUME NEW b \in Actors
      PROVE  actor'[b] \in Actor /\ Same(b)
  <2>1. /\ actor'[b] = [actor[b] EXCEPT !.alone = actor[b].alone /\ b \notin Writers]
        /\ actor[b] \in Actor
    BY <1>1, <1>2
  <2>2. PICK alone \in BOOLEAN : alone = (actor[b].alone /\ b \notin Writers)
    OBVIOUS
  <2>3. actor'[b] = [actor[b] EXCEPT !.alone = alone]
    BY <2>1, <2>2
  <2> QED BY <2>1, <2>3 DEF Same, SameWork, Actor
<1>5. actor' = [b \in Actors |-> actor'[b]]
  BY <1>2
<1> QED BY <1>4, <1>5

LEMMA FinishActors ==
    ASSUME TypeOK, NEW a \in Actors, Finish(a)
    PROVE  /\ actor' \in [Actors -> Actor]
           /\ actor'[a] = Idle /\ \A b \in Actors : b # a => actor'[b] = actor[b]
<1>1. actor \in [Actors -> Actor]
  BY DEF TypeOK, Actor
<1>2. actor' = [actor EXCEPT ![a] = Idle]
  BY DEF Finish
<1> QED BY <1>1, <1>2, IdleActor

LEMMA CrashActors ==
    ASSUME TypeOK, NEW p \in Processes, Crash(p)
    PROVE  /\ actor' \in [Actors -> Actor]
           /\ \A b \in Of(p) : actor'[b] = Idle
           /\ \A b \in Actors \ Of(p) : actor'[b] = actor[b]
<1>1. actor \in [Actors -> Actor]
  BY DEF TypeOK, Actor
<1>2. actor' = [a \in Actors |-> IF a \in Of(p) THEN Idle ELSE actor[a]]
  BY DEF Crash
<1>3. Of(p) \subseteq Actors
  BY DEF Of
<1> QED BY <1>1, <1>2, <1>3, IdleActor

ShapeNext ==
    /\ about' \in Collections /\ file' \in Seq(Record) /\ torn' \in BOOLEAN
    /\ process' \in [Processes -> {"down", "starting", "disturbed", "up"}]
    /\ settled' \subseteq {op.id : op \in Operations}
    /\ actor' \in [Actors -> Actor]
    /\ answer' \in [Operations -> {"none", "true", "false", "error", "lost"}]
    /\ harm' \in {"none", "overlap", "wiped", "collision"}
    /\ starts' \in 0 .. MaxStarts /\ crashes' \in 0 .. MaxCrashes

(* Every step keeps the state in its shape.                                *)
LEMMA TypeStep ==
    ASSUME TypeOK, [Next]_vars
    PROVE  TypeOK'
<1> DEFINE Ans == {"none", "true", "false", "error", "lost"}
<1>1. /\ actor \in [Actors -> Actor] /\ file \in Seq(Record) /\ <<>> \in Seq(Record)
      /\ answer \in [Operations -> Ans]
  BY DEF TypeOK, Actor
<1>2. ShapeNext => TypeOK'
  BY DEF ShapeNext, TypeOK, Actor, Record
<1>3. /\ about \in Collections /\ torn \in BOOLEAN
      /\ process \in [Processes -> {"down", "starting", "disturbed", "up"}]
      /\ harm \in {"none", "overlap", "wiped", "collision"}
      /\ settled \subseteq {op.id : op \in Operations}
      /\ starts \in 0 .. MaxStarts /\ crashes \in 0 .. MaxCrashes
  BY DEF TypeOK
<1>p. process' \in [Processes -> {"down", "starting", "disturbed", "up"}]
  BY <1>3, ProcessStep
<1>4. ASSUME NEW a \in Actors, NEW op \in Operations, Read(a, op)
      PROVE  ShapeNext
  <2>1. answer' \in [Operations -> Ans]
    BY <1>1, <1>4, ReadActors, OutcomeIs
  <2> QED BY <1>1, <1>3, <1>4, <2>1, ReadActors DEF Read, HarmOfRead, Worse, ShapeNext
<1>5. ASSUME NEW a \in Actors, NEW op \in Operations, ReadRaises(a, op)
      PROVE  ShapeNext
  BY <1>1, <1>3, <1>5 DEF ReadRaises, HarmOfRead, Worse, ShapeNext
<1>6. ASSUME NEW a \in Actors, Truncate(a)
      PROVE  ShapeNext
  BY <1>1, <1>3, <1>p, <1>6, TruncateActors DEF Truncate, ShapeNext
<1>7. ASSUME NEW a \in Actors, WritePart(a)
      PROVE  ShapeNext
  BY <1>1, <1>3, <1>7 DEF WritePart, ShapeNext
<1>8. ASSUME NEW a \in Actors, Finish(a)
      PROVE  ShapeNext
  <2>1. actor[a].list \in Seq(Record) /\ actor[a].alone \in BOOLEAN
    BY <1>1 DEF Actor
  <2>2. settled' \subseteq {op.id : op \in Operations}
    <3>1. actor[a].op \in Operations \cup {NoOperation}
      BY <1>1 DEF Actor
    <3>2. NoOperation.kind = "none"
      BY DEF NoOperation
    <3> QED BY <1>3, <1>8, <3>1, <3>2 DEF Finish
  <2> QED BY <1>1, <1>3, <1>8, <2>1, <2>2, FinishActors DEF Finish, ShapeNext
<1>9. ASSUME NEW p \in Processes, Start(p)
      PROVE  ShapeNext
  <2>1. starts' \in 0 .. MaxStarts
    BY <1>3, <1>9, StorageAssumption DEF Start, ShapeNext
  <2>3. harm' \in {"none", "overlap", "wiped", "collision"}
    BY <1>3, <1>9 DEF Start, Worse
  <2> QED BY <1>1, <1>3, <1>9, <1>p, <2>1, <2>3, StartActors DEF Start, ShapeNext
<1>10. ASSUME NEW p \in Processes, Close(p)
       PROVE  ShapeNext
  BY <1>1, <1>3, <1>p, <1>10 DEF Close, ShapeNext
<1>14. ASSUME NEW p \in Processes, Initialized(p)
       PROVE  ShapeNext
  BY <1>1, <1>3, <1>p, <1>14 DEF Initialized, ShapeNext
<1>11. ASSUME NEW p \in Processes, Crash(p)
       PROVE  ShapeNext
  <2>1. crashes' \in 0 .. MaxCrashes
    BY <1>3, <1>11, StorageAssumption DEF Crash, ShapeNext
  <2>3. answer' \in [Operations -> Ans]
    BY <1>1, <1>11 DEF Crash, ShapeNext
  <2>4. harm' \in {"none", "overlap", "wiped", "collision"}
    BY <1>3, <1>11 DEF Crash, ShapeNext
  <2> QED BY <1>1, <1>3, <1>11, <1>p, <2>1, <2>3, <2>4, CrashActors DEF Crash, ShapeNext
<1>12. ASSUME UNCHANGED vars PROVE ShapeNext
  BY <1>1, <1>3, <1>12 DEF vars, ShapeNext
<1>13. ShapeNext
  BY <1>4, <1>5, <1>6, <1>7, <1>8, <1>9, <1>10, <1>11, <1>12, <1>14 DEF Next
<1> QED BY <1>2, <1>13

LEMMA TypeInit == Init => TypeOK
<1> SUFFICES ASSUME Init PROVE TypeOK
  OBVIOUS
<1>1. actor \in [Actors -> Actor]
  BY IdleActor DEF Init
<1>2. answer \in [Operations -> {"none", "true", "false", "error", "lost"}]
  BY DEF Init
<1>3. process \in [Processes -> {"down", "starting", "disturbed", "up"}]
  BY DEF Init
<1>4. starts \in 0 .. MaxStarts /\ crashes \in 0 .. MaxCrashes
  BY StorageAssumption DEF Init
<1>5. file \in Seq(Record)
  BY DEF Init
<1>7. torn \in BOOLEAN /\ about \in Collections /\ settled \subseteq {op.id : op \in Operations}
  BY DEF Init
<1>6. harm \in {"none", "overlap", "wiped", "collision"}
  BY DEF Init
<1> QED BY <1>1, <1>2, <1>3, <1>4, <1>5, <1>6, <1>7 DEF TypeOK, Actor

(* Whatever interleaves and crashes, the state of the storage keeps its    *)
(* shape: every file and every list in hand is a list of records.          *)
THEOREM TypeCorrect == Spec => []TypeOK
<1>1. TypeOK /\ [Next]_vars => TypeOK'
  BY TypeStep
<1> QED BY TypeInit, <1>1, PTL DEF Spec

------------------------------------------------------------------------------
(* The calls under way: no two actors make one call, none has answered, and *)
(* what an actor will write is what its call makes of the list it read.     *)
InCall(a) ==
    /\ actor[a].op \in Operations /\ answer[actor[a].op] = "none"
    /\ CollectionOf[actor[a].op.kind] = about
    /\ Outcome(actor[a].op, actor[a].copy).writes
    /\ actor[a].list = Outcome(actor[a].op, actor[a].copy).list

Calls ==
    /\ \A a \in Actors : IF actor[a].phase = "idle" THEN actor[a].op = NoOperation
                         ELSE InCall(a)
    /\ \A a, b \in Busy : actor[a].op = actor[b].op => a = b
    /\ \A o \in Operations : answer[o] # "none" => CollectionOf[o.kind] = about

LEMMA NoCall == NoOperation \notin Operations
BY StorageAssumption DEF Operation, Kinds, CollectionOf, NoOperation

(* While nothing has harmed the file, one actor at most works on it, and   *)
(* none while a process starts.                                            *)
Alone ==
    harm = "none" =>
        /\ Starters # {} => Busy = {} /\ file = <<>>
        /\ \A a, b \in Busy : a = b
        /\ \A a \in Busy : actor[a].phase = "computed" => actor[a].copy = file

(* What the actors and the answers become, and that of the call of an      *)
(* actor that gives up is lost.                                            *)
Answers(op, reply) ==
    /\ answer' = [answer EXCEPT ![op] = reply]
    /\ answer[op] = "none" /\ CollectionOf[op.kind] = about
    /\ \A a \in Actors : actor[a].op # op

Begins(a, op) ==
    /\ Pending(op) /\ actor[a].phase = "idle" /\ Outcome(op, file).writes
    /\ actor'[a].phase = "computed" /\ actor'[a].op = op
    /\ actor'[a].copy = file /\ actor'[a].list = Outcome(op, file).list
    /\ \A b \in Actors : b # a => Same(b)
    /\ answer' = answer

Stays ==
    /\ \A a \in Actors : /\ SameWork(a)
                         /\ actor[a].phase = "idle" <=> actor'[a].phase = "idle"
    /\ answer' = answer

Ends(a) ==
    /\ actor[a].phase = "writing" /\ actor'[a] = Idle
    /\ \A b \in Actors : b # a => Same(b)
    /\ answer' = [answer EXCEPT ![actor[a].op] = "true"]

Dies(p) ==
    /\ \A b \in Of(p) : actor'[b] = Idle
    /\ \A b \in Actors \ Of(p) : Same(b)
    /\ answer' = [op \in Operations |->
          IF \E a \in Of(p) : actor[a].op = op THEN "lost" ELSE answer[op]]

LEMMA Steps ==
    ASSUME TypeOK, [Next]_vars
    PROVE  /\ about' = about
           /\ \/ \E a \in Actors, op \in Operations : Begins(a, op)
              \/ /\ \A a \in Actors : Same(a)
                 /\ \E op \in Operations, reply \in {"true", "false", "error"} :
                       /\ Answers(op, reply)
                       /\ reply = "error" \/ (reply = Outcome(op, file).reply
                                              /\ ~ Outcome(op, file).writes)
              \/ Stays
              \/ \E a \in Actors : Ends(a)
              \/ \E p \in Processes : Dies(p)
<1> USE DEF Same, SameWork
<1>0. ASSUME actor' = actor PROVE \A a \in Actors : Same(a)
  BY <1>0
<1>1. ASSUME NEW a \in Actors, NEW op \in Operations, Read(a, op)
      PROVE  /\ about' = about
             /\ \/ Begins(a, op)
                \/ /\ \A b \in Actors : Same(b)
                   /\ \E reply \in {"true", "false", "error"} :
                         /\ Answers(op, reply)
                         /\ reply = Outcome(op, file).reply
                         /\ ~ Outcome(op, file).writes
  <2>1. about' = about /\ Pending(op) /\ actor[a].phase = "idle"
    BY <1>1 DEF Read
  <2>2. CASE Outcome(op, file).writes
    BY <1>1, <2>1, <2>2, ReadActors DEF Begins
  <2>3. CASE ~ Outcome(op, file).writes
    <3>1. \A b \in Actors : Same(b)
      BY <1>1, <2>3, ReadActors
    <3>2. Answers(op, Outcome(op, file).reply)
      BY <1>1, <2>1, <2>3, ReadActors DEF Answers, Pending
    <3> QED BY <2>1, <2>3, <3>1, <3>2, OutcomeIs
  <2> QED BY <2>2, <2>3
<1>2. ASSUME NEW a \in Actors, NEW op \in Operations, ReadRaises(a, op)
      PROVE  /\ about' = about
             /\ \A b \in Actors : Same(b)
             /\ Answers(op, "error")
  BY <1>2 DEF ReadRaises, Answers, Pending
<1>3. ASSUME NEW a \in Actors, Truncate(a)
      PROVE  about' = about /\ Stays
  <2>1. actor[a].phase = "computed" /\ about' = about /\ answer' = answer
    BY <1>3 DEF Truncate
  <2> QED BY <1>3, <2>1, TruncateActors DEF Stays
<1>4. ASSUME NEW a \in Actors, WritePart(a)
      PROVE  about' = about /\ Stays
  BY <1>4 DEF WritePart, Stays
<1>5. ASSUME NEW a \in Actors, Finish(a)
      PROVE  about' = about /\ Ends(a)
  <2>1. /\ about' = about /\ actor[a].phase = "writing"
        /\ answer' = [answer EXCEPT ![actor[a].op] = "true"]
    BY <1>5 DEF Finish
  <2> QED BY <1>5, <2>1, FinishActors DEF Ends
<1>6. ASSUME NEW p \in Processes, Start(p)
      PROVE  about' = about /\ Stays
  <2>1. about' = about /\ answer' = answer
    BY <1>6 DEF Start
  <2> QED BY <1>6, <2>1, StartActors DEF Stays
<1>7. ASSUME NEW p \in Processes, Close(p) \/ Initialized(p)
      PROVE  about' = about /\ Stays
  BY <1>7 DEF Close, Initialized, Stays
<1>8. ASSUME NEW p \in Processes, Crash(p)
      PROVE  about' = about /\ Dies(p)
  <2>1. about' = about
        /\ answer' = [op \in Operations |->
             IF \E a \in Of(p) : actor[a].op = op THEN "lost" ELSE answer[op]]
    BY <1>8 DEF Crash
  <2> QED BY <1>8, <2>1, CrashActors DEF Dies
<1>9. ASSUME UNCHANGED vars
      PROVE  about' = about /\ Stays
  BY <1>9 DEF vars, Stays
<1> QED BY <1>1, <1>2, <1>3, <1>4, <1>5, <1>6, <1>7, <1>8, <1>9 DEF Next

(* No answer changes once it is given.                                     *)
LEMMA AnswersStep ==
    ASSUME TypeOK, Calls, [Next]_vars
    PROVE  /\ about' = about
           /\ \A o \in Operations :
                 answer'[o] # answer[o] => /\ answer[o] = "none"
                                           /\ answer'[o] # "none"
                                           /\ CollectionOf[o.kind] = about
<1>0. answer \in [Operations -> {"none", "true", "false", "error", "lost"}]
  BY DEF TypeOK
<1>1. about' = about
  BY Steps
<1> SUFFICES ASSUME NEW o \in Operations, answer'[o] # answer[o]
             PROVE  /\ answer[o] = "none" /\ answer'[o] # "none"
                    /\ CollectionOf[o.kind] = about
  BY <1>1
<1>2. ASSUME NEW op \in Operations, NEW reply \in {"true", "false", "error"},
             Answers(op, reply)
      PROVE  answer[o] = "none" /\ answer'[o] # "none" /\ CollectionOf[o.kind] = about
  BY <1>0, <1>2 DEF Answers
<1>3. ASSUME NEW a \in Actors, Ends(a)
      PROVE  answer[o] = "none" /\ answer'[o] # "none" /\ CollectionOf[o.kind] = about
  BY <1>0, <1>3 DEF Ends, Calls, InCall
<1>4. ASSUME NEW p \in Processes, Dies(p)
      PROVE  answer[o] = "none" /\ answer'[o] # "none" /\ CollectionOf[o.kind] = about
  <2>1. PICK a \in Of(p) : actor[a].op = o
    BY <1>4 DEF Dies
  <2>2. a \in Actors /\ actor[a].phase # "idle"
    BY <2>1, NoCall DEF Calls, Of
  <2> QED BY <1>4, <2>1, <2>2 DEF Dies, Calls, InCall
<1> QED BY Steps, <1>2, <1>3, <1>4 DEF Begins, Stays

(* A call that returns True has written, or only asked for a record.       *)
LEMMA TrueAnswers ==
    ASSUME TypeOK, [Next]_vars,
           NEW r \in Operations, answer'[r] = "true", answer[r] # "true"
    PROVE  r.kind \in Reading \/ \E a \in Actors : Finish(a) /\ actor[a].op = r
<1>0. answer \in [Operations -> {"none", "true", "false", "error", "lost"}]
  BY DEF TypeOK
<1>1. ASSUME NEW a \in Actors, NEW op \in Operations, Read(a, op)
      PROVE  r.kind \in Reading
  <2>1. ~ Outcome(op, file).writes /\ answer' = [answer EXCEPT ![op] = Outcome(op, file).reply]
    BY <1>1, ReadActors
  <2>2. op = r /\ Outcome(op, file).reply = "true"
    BY <1>0, <2>1
  <2> QED BY <2>1, <2>2, OutcomeIs
<1>2. ASSUME NEW a \in Actors, Finish(a)
      PROVE  actor[a].op = r
  BY <1>0, <1>2 DEF Finish
<1>3. ASSUME NEW a \in Actors, NEW op \in Operations, ReadRaises(a, op)
      PROVE  FALSE
  BY <1>0, <1>3 DEF ReadRaises
<1>4. ASSUME NEW p \in Processes, Crash(p)
      PROVE  FALSE
  BY <1>0, <1>4 DEF Crash
<1> QED BY <1>1, <1>2, <1>3, <1>4 DEF Next, vars, Truncate, WritePart, Start,
                                          Initialized, Close

LEMMA CallsStep ==
    ASSUME TypeOK, Calls, [Next]_vars
    PROVE  Calls'
<1>1. \A o \in Operations : answer'[o] # "none" => CollectionOf[o.kind] = about'
  BY AnswersStep DEF Calls
<1>2. about' = about
  BY AnswersStep
<1>a. answer \in [Operations -> {"none", "true", "false", "error", "lost"}]
  BY DEF TypeOK
<1>3. ASSUME NEW b \in Actors, Same(b), InCall(b), actor[b].phase # "idle",
             answer'[actor[b].op] = answer[actor[b].op]
      PROVE  InCall(b)'
  BY <1>2, <1>3 DEF InCall, Same, SameWork
<1>4. ASSUME NEW a \in Actors, NEW op \in Operations, Begins(a, op)
      PROVE  Calls'
  <2>1. InCall(a)' /\ actor'[a].phase # "idle" /\ actor'[a].op = op
    BY <1>2, <1>4 DEF Begins, InCall, Pending
  <2>2. \A b \in Actors : b # a => /\ Same(b) /\ actor[b].op # op
                                   /\ InCall(b) => InCall(b)'
    <3>1. answer' = answer /\ \A b \in Actors : actor[b].op # op
      BY <1>4 DEF Begins, Pending
    <3> QED BY <1>2, <1>4, <3>1 DEF Begins, InCall, Same, SameWork
  <2>3. \A b \in Actors : b # a => /\ actor'[b].phase = actor[b].phase
                                   /\ actor'[b].op = actor[b].op
    BY <2>2 DEF Same, SameWork
  <2> QED BY <1>1, <2>1, <2>2, <2>3 DEF Calls, Busy
<1>5. ASSUME \A a \in Actors : Same(a),
             NEW op \in Operations, NEW reply, Answers(op, reply)
      PROVE  Calls'
  <2>1. \A b \in Actors : InCall(b) => InCall(b)'
    BY <1>2, <1>5, <1>a DEF InCall, Same, SameWork, Answers
  <2>2. \A b \in Actors : actor'[b].phase = actor[b].phase /\ actor'[b].op = actor[b].op
    BY <1>5 DEF Same, SameWork
  <2> QED BY <1>1, <2>1, <2>2 DEF Calls, Busy
<1>6. ASSUME Stays PROVE Calls'
  <2>1. \A b \in Actors : InCall(b) => InCall(b)'
    BY <1>2, <1>6 DEF InCall, Stays, SameWork
  <2>2. \A b \in Actors : /\ actor'[b].phase = "idle" <=> actor[b].phase = "idle"
                          /\ actor'[b].op = actor[b].op
    BY <1>6 DEF Stays, SameWork
  <2> QED BY <1>1, <2>1, <2>2 DEF Calls, Busy
<1>7. ASSUME NEW a \in Actors, Ends(a) PROVE Calls'
  <2>1. InCall(a) /\ actor'[a].phase = "idle" /\ actor'[a].op = NoOperation
    BY <1>7 DEF Ends, Calls, Idle
  <2>2. ASSUME NEW b \in Actors, b # a
        PROVE  /\ actor'[b].phase = actor[b].phase /\ actor'[b].op = actor[b].op
               /\ actor[b].phase # "idle" => InCall(b)'
    <3>1. Same(b)
      BY <1>7, <2>2 DEF Ends
    <3>2. ASSUME actor[b].phase # "idle" PROVE InCall(b)'
      <4>1. InCall(b) /\ actor[b].op # actor[a].op
        BY <1>7, <2>2, <3>2 DEF Calls, Busy, Ends
      <4>2. answer'[actor[b].op] = answer[actor[b].op]
        BY <1>7, <1>a, <4>1 DEF Ends, InCall
      <4> QED BY <1>3, <3>1, <3>2, <4>1, <4>2
    <3> QED BY <3>1, <3>2 DEF Same, SameWork
  <2> QED BY <1>1, <2>1, <2>2 DEF Calls, Busy
<1>8. ASSUME NEW p \in Processes, Dies(p) PROVE Calls'
  <2>1. \A a \in Of(p) : actor'[a].phase = "idle" /\ actor'[a].op = NoOperation
    BY <1>8 DEF Dies, Idle
  <2>2. ASSUME NEW b \in Actors \ Of(p)
        PROVE  /\ actor'[b].phase = actor[b].phase /\ actor'[b].op = actor[b].op
               /\ actor[b].phase # "idle" => InCall(b)'
    <3>1. Same(b)
      BY <1>8 DEF Dies
    <3>2. ASSUME actor[b].phase # "idle" PROVE InCall(b)'
      <4>1. InCall(b)
        BY <3>2 DEF Calls
      <4>2. ASSUME NEW a \in Of(p), actor[a].op = actor[b].op PROVE FALSE
        <5>1. a \in Actors /\ a # b
          BY DEF Of
        <5>2. actor[a].phase # "idle"
          BY <4>1, <4>2, <5>1, NoCall DEF Calls, InCall
        <5> QED BY <3>2, <4>2, <5>1, <5>2 DEF Calls, Busy
      <4>3. answer'[actor[b].op] = answer[actor[b].op]
        BY <1>8, <4>1, <4>2 DEF Dies, InCall
      <4> QED BY <1>3, <3>1, <3>2, <4>1, <4>3
    <3> QED BY <3>1, <3>2 DEF Same, SameWork
  <2> QED BY <1>1, <2>1, <2>2 DEF Calls, Busy
<1> QED BY Steps, <1>4, <1>5, <1>6, <1>7, <1>8

------------------------------------------------------------------------------
(* While the file is unharmed: who is at work, and what the file holds.     *)
LEMMA ContentsIs ==
    ASSUME TypeOK, Alone, harm = "none"
    PROVE  /\ Busy = {} => Contents = file /\ Writers = {}
           /\ \A a \in Busy : /\ Contents = actor[a].copy /\ Busy = {a}
                              /\ actor[a].phase = "computed" => Writers = {}
<1>1. Writers \subseteq Busy
  BY DEF Writers, Busy
<1>2. ASSUME NEW a \in Busy
      PROVE  /\ Contents = actor[a].copy /\ Busy = {a}
             /\ actor[a].phase = "computed" => Writers = {}
  <2>1. Busy = {a}
    BY DEF Alone
  <2>2. actor[a].phase \in {"computed", "writing"} /\ a \in Actors
    BY DEF TypeOK, Busy
  <2>3. CASE actor[a].phase = "computed"
    <3>1. Writers = {} /\ actor[a].copy = file
      BY <1>1, <2>1, <2>3 DEF Alone, Writers
    <3> QED BY <2>1, <3>1 DEF Contents
  <2>4. CASE actor[a].phase = "writing"
    <3>1. Writers = {a}
      BY <1>1, <2>1, <2>2, <2>4 DEF Writers
    <3>2. (CHOOSE b \in Writers : TRUE) = a
      BY <3>1
    <3> QED BY <2>1, <2>4, <3>1, <3>2 DEF Contents
  <2> QED BY <2>2, <2>3, <2>4
<1> QED BY <1>1, <1>2 DEF Contents

(* What a step makes of an unharmed file: nothing, unless the one actor at  *)
(* work on it writes its list.                                             *)
Sole(a) == harm = "none" /\ a \in Actors /\ Busy = {a} /\ Contents = actor[a].copy

ContentsStays == harm = "none" /\ Contents' = Contents
Replaced(a) == Finish(a) /\ Sole(a) /\ Contents' = actor[a].list

LEMMA ContentsStep ==
    ASSUME TypeOK, Alone, [Next]_vars
    PROVE  /\ Alone'
           /\ \A a \in Actors : Finish(a) /\ harm' = "none" => Replaced(a)
           /\ \A a \in Actors, op \in Operations :
                 Read(a, op) /\ harm' = "none" => ContentsStays
           /\ harm' = "none" => ContentsStays \/ \E a \in Actors : Replaced(a)
<1>a. TypeOK' /\ Writers' \subseteq Busy' /\ Writers \subseteq Busy
  BY TypeStep DEF Writers, Busy
<1>b. ASSUME harm' = "none", Busy' = {}, Starters' # {} => file' = <<>>
      PROVE  Alone' /\ Contents' = file'
  <2>1. Alone'
    BY <1>b DEF Alone
  <2>2. Writers' = {}
    BY <1>a, <1>b
  <2> QED BY <2>1, <2>2 DEF Contents
<1>c. ASSUME harm' # "none" PROVE Alone'
  BY <1>c DEF Alone
<1>d. /\ process' = process => Starters' = Starters
      /\ process' = Disturbed => (Starters' # {} => Starters # {})
  BY DEF Starters, Disturbed, TypeOK
<1>1. ASSUME NEW a \in Actors, NEW op \in Operations, Read(a, op), harm' = "none"
      PROVE  Alone' /\ ContentsStays
  <2>1. harm = "none" /\ Busy = {} /\ Starters = {} /\ file' = file /\ process' = process
    BY <1>1 DEF Read, HarmOfRead, Worse
  <2>2. Contents = file /\ Starters' = {}
    BY <1>d, <2>1, ContentsIs
  <2>3. CASE Outcome(op, file).writes
    <3>1. /\ actor'[a].phase = "computed" /\ actor'[a].copy = file
          /\ \A b \in Actors : b # a => actor'[b] = actor[b]
      BY <1>1, <2>3, ReadActors
    <3>2. Busy' = {a} /\ Writers' = {}
      BY <2>1, <3>1 DEF Busy, Writers
    <3>3. Alone'
      BY <2>1, <2>2, <3>1, <3>2 DEF Alone
    <3> QED BY <2>1, <2>2, <3>2, <3>3 DEF Contents, ContentsStays
  <2>4. CASE ~ Outcome(op, file).writes
    <3>1. Busy' = {}
      BY <1>1, <2>1, <2>4, ReadActors DEF Busy
    <3> QED BY <1>1, <1>b, <2>1, <2>2, <3>1 DEF ContentsStays
  <2> QED BY <2>3, <2>4
<1>2. ASSUME UNCHANGED <<file, actor>>, harm' = harm, harm' = "none",
             Starters' # {} => Starters # {}
      PROVE  Alone' /\ ContentsStays
  BY <1>2 DEF Alone, Busy, Writers, Contents, ContentsStays
<1>3. ASSUME NEW a \in Actors, NEW op \in Operations, ReadRaises(a, op), harm' = "none"
      PROVE  Alone' /\ ContentsStays
  <2>1. harm = "none" /\ UNCHANGED <<file, actor, process>>
    BY <1>3 DEF ReadRaises, HarmOfRead, Worse
  <2> QED BY <1>2, <1>3, <1>d, <2>1
<1>4. ASSUME NEW a \in Actors, Truncate(a), harm' = "none"
      PROVE  Alone' /\ ContentsStays
  <2>1. harm = "none" /\ actor[a].phase = "computed" /\ Starters = {} /\ process' = Disturbed
    BY <1>4 DEF Truncate
  <2>2. a \in Busy /\ Starters' = {}
    BY <1>d, <2>1 DEF Busy
  <2>3. Busy = {a} /\ Contents = actor[a].copy
    BY <2>1, <2>2, ContentsIs
  <2>4. /\ actor'[a].phase = "writing" /\ actor'[a].copy = actor[a].copy
        /\ \A b \in Actors : b # a => actor'[b].phase = actor[b].phase
    BY <1>4, TruncateActors DEF Same, SameWork
  <2>5. Busy' = {a} /\ Writers' = {a}
    BY <2>2, <2>3, <2>4 DEF Busy, Writers
  <2>6. Alone'
    BY <2>2, <2>4, <2>5 DEF Alone
  <2>7. Contents' = actor'[a].copy
    BY <1>a, <1>4, <2>5, <2>6, ContentsIs DEF Contents
  <2> QED BY <2>1, <2>3, <2>4, <2>6, <2>7 DEF ContentsStays
<1>5. ASSUME NEW a \in Actors, WritePart(a), harm' = "none"
      PROVE  Alone' /\ ContentsStays
  BY <1>2, <1>5, <1>d DEF WritePart
<1>6. ASSUME NEW a \in Actors, Finish(a), harm' = "none"
      PROVE  Alone' /\ Replaced(a)
  <2>1. harm = "none" /\ a \in Busy /\ file' = actor[a].list /\ process' = process
    BY <1>6 DEF Finish, Busy
  <2>2. Busy = {a} /\ Contents = actor[a].copy /\ Starters' = {}
    BY <1>d, <2>1, ContentsIs DEF Alone
  <2>3. Busy' = {}
    BY <1>6, <2>2, FinishActors DEF Busy, Idle
  <2> QED BY <1>b, <1>6, <2>1, <2>2, <2>3 DEF Replaced, Sole
<1>7. ASSUME NEW p \in Processes, Start(p), harm' = "none"
      PROVE  Alone' /\ ContentsStays
  <2>1. harm = "none" /\ Busy = {} /\ file = <<>> /\ file' = <<>>
    BY <1>7 DEF Start, Worse, Writers, Busy
  <2>2. Busy' = {}
    BY <1>7, <2>1, StartActors DEF Busy, Same
  <2>3. Contents = file
    BY <2>1, ContentsIs
  <2> QED BY <1>b, <1>7, <2>1, <2>2, <2>3 DEF ContentsStays
<1>8. ASSUME NEW p \in Processes, Close(p), harm' = "none"
      PROVE  Alone' /\ ContentsStays
  <2>1. process' = [process EXCEPT ![p] = "down"]
    BY <1>8 DEF Close
  <2>2. Starters' # {} => Starters # {}
    BY <2>1 DEF Starters, TypeOK
  <2> QED BY <1>2, <1>8, <2>2 DEF Close
<1>9. ASSUME NEW p \in Processes, Crash(p), harm' = "none"
      PROVE  Alone' /\ ContentsStays
  <2>1. harm = "none" /\ Writers \cap Of(p) = {} /\ file' = file
    BY <1>9 DEF Crash
  <2>2. /\ \A b \in Of(p) : actor'[b] = Idle
        /\ \A b \in Actors \ Of(p) : actor'[b] = actor[b]
    BY <1>9, CrashActors
  <2>s. Starters' # {} => Starters # {}
    <3>1. process' = [process EXCEPT ![p] = "down"]
      BY <1>9 DEF Crash
    <3> QED BY <3>1 DEF Starters, TypeOK
  <2>3. CASE \E b \in Busy : b \notin Of(p)
    <3>1. PICK b \in Busy : b \notin Of(p)
      BY <2>3
    <3>2. Busy = {b} /\ b \in Actors /\ Starters' = {}
      BY <2>1, <2>s, <3>1, ContentsIs DEF Busy, Alone
    <3>3. actor'[b] = actor[b] /\ Busy' = {b} /\ Writers' = Writers
      BY <2>2, <3>1, <3>2 DEF Busy, Writers, Idle
    <3>4. Alone'
      BY <2>1, <3>1, <3>2, <3>3 DEF Alone
    <3>5. Contents' = actor'[b].copy /\ Contents = actor[b].copy
      <4>1. Contents = actor[b].copy
        BY <2>1, <3>1, ContentsIs
      <4>2. CASE Writers = {}
        BY <2>1, <3>1, <3>2, <3>3, <4>1, <4>2 DEF Contents
      <4>3. CASE Writers # {}
        <5>1. Writers = {b}
          BY <3>2, <4>3 DEF Writers, Busy
        <5> QED BY <3>3, <4>1, <5>1 DEF Contents
      <4> QED BY <4>2, <4>3
    <3> QED BY <2>1, <3>3, <3>4, <3>5 DEF ContentsStays
  <2>4. CASE \A b \in Busy : b \in Of(p)
    <3>1. Busy' = {}
      BY <2>2, <2>4 DEF Busy, Idle
    <3>2. Writers = {}
      BY <2>1, <2>4 DEF Busy, Writers
    <3>3. Contents = file
      BY <3>2 DEF Contents
    <3>4. Starters' # {} => file' = <<>>
      BY <2>1, <2>s DEF Alone
    <3> QED BY <1>b, <1>9, <2>1, <3>1, <3>3, <3>4 DEF ContentsStays
  <2> QED BY <2>3, <2>4
<1>10. ASSUME UNCHANGED vars, harm' = "none"
       PROVE  Alone' /\ ContentsStays
  BY <1>2, <1>10, <1>d DEF vars
<1>11. ASSUME NEW p \in Processes, Initialized(p), harm' = "none"
       PROVE  Alone' /\ ContentsStays
  <2>1. harm = "none" /\ Starters # {} /\ file' = <<>> /\ actor' = actor
    BY <1>11 DEF Initialized
  <2>2. Busy = {} /\ file = <<>>
    BY <2>1 DEF Alone
  <2>3. Busy' = {}
    BY <2>1, <2>2 DEF Busy
  <2>4. Contents = file
    BY <2>1, <2>2, ContentsIs
  <2> QED BY <1>b, <1>11, <2>1, <2>2, <2>3, <2>4 DEF ContentsStays
<1> QED BY <1>c, <1>1, <1>3, <1>4, <1>5, <1>6, <1>7, <1>8, <1>9, <1>10, <1>11 DEF Next

------------------------------------------------------------------------------
(* Where records come from: the call that made it has been answered or     *)
(* lost, for each record in the file and in the lists that were read.      *)
Making == Creating \cup Logging \cup {"create_tenant", "update_daily_stats"}

Made(list) ==
    \A i \in DOMAIN list :
        \E o \in Operations :
            o.kind \in Making /\ o.id = list[i].id /\ answer[o] # "none"

Origins == Made(file) /\ \A a \in Busy : Made(actor[a].copy)

(* Each file has one kind of call that makes its records.                  *)
LEMMA OneMaker ==
    ASSUME NEW o \in Operations, NEW q \in Operations, o.kind \in Making,
           q.kind \in Making, CollectionOf[o.kind] = CollectionOf[q.kind]
    PROVE  o.kind = q.kind
BY DEF Making, Creating, Logging, CollectionOf

LEMMA SetsIs ==
    ASSUME NEW l \in Seq(Record), NEW k, NEW v
    PROVE  LET m == [l EXCEPT ![k].value = v]
           IN  /\ DOMAIN m = DOMAIN l
               /\ \A i \in DOMAIN l : /\ m[i].id = l[i].id
                                      /\ m[i].value = IF i = k THEN v ELSE l[i].value
<1>1. \A i \in DOMAIN l : l[i] \in Record
  OBVIOUS
<1> QED BY <1>1 DEF Record

(* Every record of the new list has the id of one of the old list, or is   *)
(* the one that the call made.                                             *)
LEMMA OutcomeMade ==
    ASSUME NEW op \in Operations, NEW l \in Seq(Record), Outcome(op, l).writes
    PROVE  LET m == Outcome(op, l).list
           IN  \A j \in DOMAIN m : \/ \E i \in DOMAIN l : m[j].id = l[i].id
                                   \/ m[j].id = op.id /\ op.kind \in Making
<1> DEFINE m == Outcome(op, l).list
           longer == Append(l, RecordOf(op))
<1>1. longer \in Seq(Record) /\ RecordOf(op).id = op.id
  BY RecordOfType
<1>2. \A j \in DOMAIN longer : (\E i \in DOMAIN l : longer[j].id = l[i].id)
                               \/ longer[j].id = op.id
  BY <1>1
<1> SUFFICES \A j \in DOMAIN m : \/ \E i \in DOMAIN l : m[j].id = l[i].id
                                 \/ m[j].id = op.id /\ op.kind \in Making
  OBVIOUS
<1> HIDE DEF m, longer
<1>3. CASE Adds(op, l, m)
  BY <1>2, <1>3 DEF Adds, Making, longer
<1>4. CASE Logs(op, l, m)
  <2>1. op.kind \in Making /\ m = Trimmed(longer)
    BY <1>4 DEF Logs, Making, longer
  <2>2. \A j \in DOMAIN m : \E i \in DOMAIN longer : m[j] = longer[i]
    <3> SUFFICES ASSUME NEW j \in DOMAIN m PROVE \E i \in DOMAIN longer : m[j] = longer[i]
      OBVIOUS
    <3>1. Len(longer) \in Nat /\ DOMAIN longer = 1 .. Len(longer) /\ LogKept \in Nat
      BY <1>1, StorageAssumption
    <3>2. CASE Len(longer) > LogLimit
      <4>1. /\ Len(longer) - LogKept \in Nat /\ j \in 1 .. LogKept
            /\ m[j] = longer[Len(longer) - LogKept + j]
        BY <1>1, <2>1, <3>2, TrimmedIs
      <4>2. Len(longer) - LogKept + j \in DOMAIN longer
        BY <3>1, <4>1
      <4> QED BY <4>1, <4>2
    <3>3. CASE ~ (Len(longer) > LogLimit)
      <4>1. m = longer
        BY <1>1, <2>1, <3>3, TrimmedIs
      <4> QED BY <4>1
    <3> QED BY <3>2, <3>3
  <2> QED BY <1>2, <2>1, <2>2
<1>5. CASE Sets(op, l, m)
  BY <1>5, SetsIs DEF Sets
<1>6. CASE Uses(op, l, m)
  BY <1>6 DEF Uses
<1>7. CASE Drops(op, l, m)
  <2>1. KeptOf(l, op.id, Len(l), m)
    BY <1>7, OthersKept DEF Drops
  <2>2. DOMAIN l = 1 .. Len(l)
    OBVIOUS
  <2> QED BY <2>1, <2>2 DEF KeptOf
<1> QED BY <1>3, <1>4, <1>5, <1>6, <1>7, OutcomeIs DEF m

LEMMA MadeStays ==
    ASSUME TypeOK, Calls, [Next]_vars, NEW l, Made(l)
    PROVE  \A i \in DOMAIN l :
              \E o \in Operations :
                  o.kind \in Making /\ o.id = l[i].id /\ answer'[o] # "none"
BY AnswersStep DEF Made

(* The list that an actor read stays, or is the file.                      *)
LEMMA CopyStep ==
    ASSUME TypeOK, [Next]_vars
    PROVE  \A b \in Actors : \/ actor'[b].phase = "idle"
                             \/ b \in Busy /\ actor'[b].copy = actor[b].copy
                             \/ actor'[b].copy = file
<1>1. \A a \in Actors, op \in Operations : Begins(a, op) =>
         \A b \in Actors : \/ Same(b) \/ actor'[b].copy = file
  BY DEF Begins
<1>2. \A b \in Actors : Same(b) => \/ actor'[b].phase = "idle"
                                   \/ b \in Busy /\ actor'[b].copy = actor[b].copy
  BY DEF Same, SameWork, Busy
<1>3. Stays => \A b \in Actors : \/ actor'[b].phase = "idle"
                                 \/ b \in Busy /\ actor'[b].copy = actor[b].copy
  BY DEF Stays, SameWork, Busy
<1>4. \A a \in Actors : Ends(a) =>
         \A b \in Actors : Same(b) \/ actor'[b].phase = "idle"
  BY DEF Ends, Idle
<1>5. \A p \in Processes : Dies(p) =>
         \A b \in Actors : Same(b) \/ actor'[b].phase = "idle"
  BY DEF Dies, Idle
<1> QED BY Steps, <1>1, <1>2, <1>3, <1>4, <1>5

(* An actor comes to be at work by reading.                                *)
LEMMA BusyStep ==
    ASSUME TypeOK, [Next]_vars, NEW a \in Busy', a \notin Busy
    PROVE  \E op \in Operations : /\ Read(a, op) /\ Outcome(op, file).writes
                                  /\ actor'[a].list = Outcome(op, file).list
<1>0. a \in Actors /\ actor[a].phase = "idle" /\ actor'[a].phase # "idle"
  BY DEF Busy
<1>1. ASSUME NEW b \in Actors, NEW op \in Operations, Read(b, op)
      PROVE  /\ Outcome(op, file).writes /\ a = b
             /\ actor'[a].list = Outcome(op, file).list
  BY <1>0, <1>1, ReadActors
<1>2. ASSUME NEW b \in Actors, Truncate(b) PROVE FALSE
  <2>1. actor[b].phase = "computed"
    BY <1>2 DEF Truncate
  <2> QED BY <1>0, <1>2, <2>1, TruncateActors DEF Same
<1>3. ASSUME NEW b \in Actors, Finish(b) PROVE FALSE
  BY <1>0, <1>3, FinishActors DEF Idle
<1>4. ASSUME NEW p \in Processes, Start(p) PROVE FALSE
  BY <1>0, <1>4, StartActors DEF Same
<1>5. ASSUME NEW p \in Processes, Crash(p) PROVE FALSE
  BY <1>0, <1>5, CrashActors DEF Idle
<1> QED BY <1>0, <1>1, <1>2, <1>3, <1>4, <1>5
        DEF Next, vars, ReadRaises, WritePart, Initialized, Close

LEMMA OriginsStep ==
    ASSUME TypeOK, Calls, Origins, [Next]_vars
    PROVE  Origins'
<1> DEFINE MadeNow(l) == \A i \in DOMAIN l :
              \E o \in Operations :
                  o.kind \in Making /\ o.id = l[i].id /\ answer'[o] # "none"
<1>1. ASSUME NEW l, Made(l) PROVE MadeNow(l)
  BY <1>1, MadeStays
<1>2. MadeNow(<<>>)
  OBVIOUS
<1>3. \/ file' = file \/ file' = <<>>
      \/ \E a \in Actors : Finish(a) /\ file' = actor[a].list
  BY DEF Next, vars, Read, ReadRaises, Truncate, WritePart, Finish, Start,
         Initialized, Close, Crash
<1>4. ASSUME NEW a \in Actors, Finish(a) PROVE MadeNow(actor[a].list)
  <2>1. InCall(a) /\ a \in Busy /\ actor[a].copy \in Seq(Record)
    BY <1>4 DEF Calls, Finish, Busy, TypeOK
  <2>2. answer'[actor[a].op] = "true"
    BY <1>4, <2>1 DEF Finish, InCall, TypeOK
  <2>3. MadeNow(actor[a].copy)
    BY <1>1, <2>1 DEF Origins
  <2> HIDE DEF MadeNow
  <2>4. /\ actor[a].op \in Operations
        /\ \A j \in DOMAIN actor[a].list :
              \/ \E i \in DOMAIN actor[a].copy : actor[a].list[j].id = actor[a].copy[i].id
              \/ actor[a].list[j].id = actor[a].op.id /\ actor[a].op.kind \in Making
    BY <2>1, OutcomeMade DEF InCall
  <2> QED BY <2>2, <2>3, <2>4 DEF MadeNow
<1>5. MadeNow(file) /\ \A a \in Busy : MadeNow(actor[a].copy)
  BY <1>1 DEF Origins
<1>6. MadeNow(file')
  <2> HIDE DEF MadeNow
  <2> QED BY <1>2, <1>3, <1>4, <1>5
<1>8. \A b \in Busy' : MadeNow(actor'[b].copy)
  <2> HIDE DEF MadeNow
  <2> QED BY <1>5, CopyStep DEF Busy
<1> QED BY <1>6, <1>8 DEF Origins, Made

------------------------------------------------------------------------------
(* Where no id is created twice, no two records of a list have one id,     *)
(* however the operations interleave.                                      *)
NewIds ==
    \A o, q \in Operations :
        /\ o.kind \in Creating \cup Logging /\ CollectionOf[o.kind] = about
        /\ q.kind = o.kind /\ q.id = o.id
        => q = o

Unique ==
    NewIds => /\ ListsIn(UniqueLists)
              /\ \A a \in Busy : actor[a].copy \in UniqueLists

LEMMA NewId ==
    ASSUME Calls, NewIds, NEW op \in Operations, NEW l, Made(l), answer[op] = "none",
           op.kind \in Creating \cup Logging, CollectionOf[op.kind] = about
    PROVE  Found(l, op.id) = {}
<1> SUFFICES ASSUME NEW i \in DOMAIN l, l[i].id = op.id PROVE FALSE
  BY DEF Found
<1>1. PICK o \in Operations : o.kind \in Making /\ o.id = l[i].id /\ answer[o] # "none"
  BY DEF Made
<1>2. o.kind = op.kind
  BY <1>1, OneMaker DEF Calls, Making
<1> QED BY <1>1, <1>2 DEF NewIds

(* A list to which a new id is added still has each once.                  *)
LEMMA LongerUnique ==
    ASSUME NEW op \in Operations, NEW l \in UniqueLists, Found(l, op.id) = {}
    PROVE  Append(l, RecordOf(op)) \in UniqueLists
<1>1. \A i \in DOMAIN l : l[i].id # op.id
  BY DEF Found
<1>2. l \in Seq(Record) /\ \A i, j \in DOMAIN l : l[i].id = l[j].id => i = j
  BY DEF UniqueLists
<1> DEFINE longer == Append(l, RecordOf(op))
<1>3. /\ longer \in Seq(Record) /\ DOMAIN longer = DOMAIN l \cup {Len(l) + 1}
      /\ \A i \in DOMAIN l : longer[i] = l[i]
      /\ longer[Len(l) + 1] = RecordOf(op) /\ RecordOf(op).id = op.id
  BY <1>2, RecordOfType
<1> HIDE DEF longer
<1>4. \A i, j \in DOMAIN longer : longer[i].id = longer[j].id => i = j
  BY <1>1, <1>2, <1>3
<1> QED BY <1>3, <1>4 DEF UniqueLists, longer

LEMMA OutcomeUnique ==
    ASSUME NEW op \in Operations, NEW l \in UniqueLists, Outcome(op, l).writes,
           op.kind \in Creating \cup Logging => Found(l, op.id) = {}
    PROVE  Outcome(op, l).list \in UniqueLists
<1> DEFINE m == Outcome(op, l).list
           longer == Append(l, RecordOf(op))
<1>1. l \in Seq(Record) /\ \A i, j \in DOMAIN l : l[i].id = l[j].id => i = j
  BY DEF UniqueLists
<1>2. m \in Seq(Record)
  BY <1>1, OutcomeType
<1>3. CASE Adds(op, l, m)
  BY <1>3, LongerUnique DEF Adds
<1>4. CASE Logs(op, l, m)
  <2>1. longer \in UniqueLists /\ m = Trimmed(longer)
    BY <1>4, LongerUnique DEF Logs
  <2>2. longer \in Seq(Record) /\ \A i, j \in DOMAIN longer : longer[i].id = longer[j].id => i = j
    BY <2>1 DEF UniqueLists
  <2> HIDE DEF longer, m
  <2>3. Len(longer) \in Nat /\ DOMAIN longer = 1 .. Len(longer) /\ LogKept \in Nat
    BY <2>2, StorageAssumption
  <2>4. CASE Len(longer) > LogLimit
    <3>1. /\ Len(longer) - LogKept \in Nat /\ DOMAIN m = 1 .. LogKept
          /\ \A i \in 1 .. LogKept : m[i] = longer[Len(longer) - LogKept + i]
      BY <2>1, <2>2, <2>4, TrimmedIs
    <3>2. ASSUME NEW i \in DOMAIN m, NEW j \in DOMAIN m, m[i].id = m[j].id
          PROVE  i = j
      <4>1. /\ Len(longer) - LogKept + i \in DOMAIN longer
            /\ Len(longer) - LogKept + j \in DOMAIN longer
        BY <2>3, <3>1
      <4>2. Len(longer) - LogKept + i = Len(longer) - LogKept + j
        BY <2>2, <3>1, <3>2, <4>1
      <4> QED BY <2>3, <3>1, <4>2
    <3> QED BY <1>2, <3>2 DEF UniqueLists, m
  <2>5. CASE ~ (Len(longer) > LogLimit)
    BY <2>1, <2>2, <2>5, TrimmedIs DEF m
  <2> QED BY <2>4, <2>5
<1>5. CASE Sets(op, l, m)
  <2>1. DOMAIN m = DOMAIN l /\ \A i \in DOMAIN l : m[i].id = l[i].id
    BY <1>1, <1>5, SetsIs DEF Sets
  <2> HIDE DEF m
  <2>2. \A i, j \in DOMAIN m : m[i].id = m[j].id => i = j
    BY <1>1, <2>1
  <2> QED BY <1>2, <2>2 DEF UniqueLists, m
<1>6. CASE Uses(op, l, m)
  BY <1>6 DEF Uses
<1>7. CASE Drops(op, l, m)
  BY <1>1, <1>7, OthersKept DEF Drops, KeptOf
<1> QED BY <1>3, <1>4, <1>5, <1>6, <1>7, OutcomeIs

LEMMA UniqueStep ==
    ASSUME TypeOK, ActorsOK, Calls, Origins, Unique, [Next]_vars
    PROVE  Unique'
<1>1. NewIds' = NewIds /\ UniqueLists' = UniqueLists
  BY AnswersStep DEF NewIds, UniqueLists, Record
<1> SUFFICES ASSUME NewIds
             PROVE  /\ ListsIn(UniqueLists)'
                    /\ \A a \in Busy' : actor'[a].copy \in UniqueLists
  BY <1>1 DEF Unique
<1>2. file \in UniqueLists /\ ListsIn(UniqueLists)
  BY DEF Unique, ListsIn
<1>3. ASSUME NEW op \in Operations, Pending(op), Outcome(op, file).writes
      PROVE  Outcome(op, file).list \in UniqueLists
  <2>1. op.kind \in Creating \cup Logging => Found(file, op.id) = {}
    BY <1>3, NewId DEF Pending, Origins
  <2> QED BY <1>2, <1>3, <2>1, OutcomeUnique
<1>4. <<>> \in UniqueLists
  BY DEF UniqueLists
<1>5. ListsIn(UniqueLists)'
  <2> DEFINE L == UniqueLists
  <2>1. /\ <<>> \in L /\ ListsIn(L)
        /\ \A op \in Operations : Pending(op) /\ Outcome(op, file).writes
                                   => Outcome(op, file).list \in L
    BY <1>2, <1>3, <1>4
  <2> HIDE DEF L
  <2>2. file' \in L /\ \A a \in Actors : actor'[a].list \in L
    BY <2>1, ListsStay DEF ListsIn
  <2> QED BY <1>1, <2>2 DEF ListsIn, L
<1>6. \A a \in Busy' : actor'[a].copy \in UniqueLists
  BY <1>2, CopyStep DEF Unique, Busy
<1> QED BY <1>5, <1>6

(* Of a key that was revoked alone, neither the file nor any list in hand  *)
(* holds a record that is not marked.                                      *)
Marked(list, id) == \A i \in DOMAIN list : list[i].id = id => list[i].value = "revoked"

WasMade(id) ==
    \E o \in Operations : o.kind = "create_api_key" /\ o.id = id /\ answer[o] # "none"

KeysMarked ==
    \A id \in settled : /\ about = "api_keys" /\ WasMade(id) /\ Marked(file, id)
                         /\ \A a \in Busy : Marked(actor[a].list, id)

(* Ids are repeated in logs, agents and alerts only.                       *)
LEMMA KeysNew == about \notin {"agents", "alerts", "events", "audit"} => NewIds
<1>1. \A o \in Operations : o.kind \in Creating \cup Logging
           /\ CollectionOf[o.kind] \notin {"agents", "alerts", "events", "audit"}
                            => o.kind \in {"create_api_key", "create_webhook"}
  BY DEF Creating, Logging, CollectionOf
<1> QED BY <1>1, StorageAssumption DEF NewIds

LEMMA FirstIs ==
    ASSUME NEW l \in UniqueLists, NEW id, NEW i \in Found(l, id)
    PROVE  Found(l, id) = {i} /\ FirstOf(Found(l, id)) = i /\ LastOf(Found(l, id)) = i
<1>1. Found(l, id) = {i}
  BY DEF UniqueLists, Found
<1>2. l \in Seq(Record) /\ i \in DOMAIN l /\ DOMAIN l = 1 .. Len(l)
  BY DEF UniqueLists, Found
<1> QED BY <1>1, <1>2 DEF FirstOf, LastOf

(* What the calls on the keys leave of the marks.                          *)
LEMMA MarksStay ==
    ASSUME NEW op \in Operations, NEW l \in UniqueLists, NEW id,
           CollectionOf[op.kind] = "api_keys", Outcome(op, l).writes,
           (op.kind = "revoke_api_key" /\ op.id = id) \/ Marked(l, id),
           op.kind = "create_api_key" => op.id # id
    PROVE  Marked(Outcome(op, l).list, id)
<1> DEFINE m == Outcome(op, l).list
<1>1. l \in Seq(Record)
  BY DEF UniqueLists
<1>2. op.kind \in {"create_api_key", "validate_api_key", "revoke_api_key"}
  BY StorageAssumption DEF Operation, Kinds, CollectionOf
<1> HIDE DEF m
<1>3. CASE Adds(op, l, m)
  <2> DEFINE longer == Append(l, RecordOf(op))
  <2>1. op.kind = "create_api_key" /\ m = longer
    BY <1>2, <1>3 DEF Adds, Creating
  <2>2. /\ longer \in Seq(Record) /\ DOMAIN longer = DOMAIN l \cup {Len(l) + 1}
        /\ \A i \in DOMAIN l : longer[i] = l[i]
        /\ longer[Len(l) + 1] = RecordOf(op) /\ RecordOf(op).id = op.id
    BY <1>1, RecordOfType
  <2> HIDE DEF longer
  <2> QED BY <2>1, <2>2 DEF Marked, m
<1>4. CASE Sets(op, l, m)
  <2>1. op.kind = "revoke_api_key" /\ NewValue(op) = "revoked"
    BY <1>2, <1>4 DEF Sets, Updating, NewValue
  <2>2. PICK k \in Found(l, op.id) : m = [l EXCEPT ![k].value = "revoked"]
    <3>1. PICK k : k \in Found(l, op.id)
      BY <1>4 DEF Sets
    <3>2. FirstOf(Found(l, op.id)) = k
      BY <3>1, FirstIs
    <3> QED BY <1>4, <2>1, <3>1, <3>2 DEF Sets
  <2>3. PICK v : v = "revoked"
    OBVIOUS
  <2>4. /\ DOMAIN m = DOMAIN l
        /\ \A i \in DOMAIN l : /\ m[i].id = l[i].id
                               /\ m[i].value = IF i = k THEN "revoked" ELSE l[i].value
    BY <1>1, <2>2, <2>3, SetsIs
  <2>5. CASE op.id = id
    <3>0. Found(l, id) = {k}
      BY <2>5, FirstIs
    <3>1. \A i \in DOMAIN l : l[i].id = id => i = k
      BY <3>0 DEF Found
    <3> QED BY <2>4, <3>1 DEF Marked, m
  <2>6. CASE Marked(l, id)
    BY <2>4, <2>6 DEF Marked, m
  <2> QED BY <2>5, <2>6
<1>5. CASE Uses(op, l, m)
  BY <1>2, <1>5 DEF Uses, m
<1>6. ~ Logs(op, l, m) /\ ~ Drops(op, l, m)
  BY <1>2 DEF Logs, Drops, Logging
<1> QED BY <1>3, <1>4, <1>5, <1>6, OutcomeIs DEF m

LEMMA KeysStep ==
    ASSUME TypeOK, ActorsOK, Calls, Origins, Unique, KeysMarked, [Next]_vars
    PROVE  KeysMarked'
<1>0. about' = about /\ \A id : WasMade(id) => WasMade(id)'
  BY AnswersStep DEF WasMade
<1>1. ASSUME NEW id \in settled
      PROVE  /\ about = "api_keys" /\ WasMade(id)' /\ Marked(file', id)
             /\ \A a \in Busy' : Marked(actor'[a].list, id)
  <2>1. /\ about = "api_keys" /\ WasMade(id) /\ WasMade(id)' /\ Marked(file, id)
        /\ \A a \in Busy : Marked(actor[a].list, id)
    BY <1>0 DEF KeysMarked
  <2>2. Marked(<<>>, id)
    BY DEF Marked
  <2>3. Marked(file', id)
    <3>1. \/ file' \in {file, <<>>}
          \/ \E a \in Actors : Finish(a) /\ file' = actor[a].list
      BY DEF Next, vars, Read, ReadRaises, Truncate, WritePart, Finish, Start,
             Initialized, Close, Crash
    <3>2. \A a \in Actors : Finish(a) => a \in Busy
      BY DEF Finish, Busy
    <3> QED BY <2>1, <2>2, <3>1, <3>2
  <2>4. ASSUME NEW a \in Actors, NEW op \in Operations, Read(a, op),
               Outcome(op, file).writes
        PROVE  Marked(Outcome(op, file).list, id)
    <3>1. file \in UniqueLists
      BY <2>1, KeysNew DEF Unique, ListsIn
    <3>2. op.kind = "create_api_key" => op.id # id
      <4>1. answer[op] = "none"
        BY <2>4 DEF Read, Pending
      <4> QED BY <2>1, <4>1, StorageAssumption DEF WasMade
    <3>3. CollectionOf[op.kind] = "api_keys"
      BY <2>1, <2>4 DEF Read, Pending
    <3> QED BY <2>1, <2>4, <3>1, <3>2, <3>3, MarksStay
  <2>5. ASSUME NEW a \in Busy' PROVE Marked(actor'[a].list, id)
    <3>1. a \in Actors
      BY DEF Busy
    <3>2. CASE actor'[a].list = actor[a].list /\ a \in Busy
      BY <2>1, <3>2
    <3>3. CASE actor'[a].list = <<>>
      BY <2>2, <3>3
    <3>4. CASE \E op \in Operations : /\ Read(a, op) /\ Outcome(op, file).writes
                                      /\ actor'[a].list = Outcome(op, file).list
      BY <2>4, <3>1, <3>4
    <3> QED BY <3>1, <3>2, <3>3, <3>4, BusyStep, ActorsStep
  <2> QED BY <2>1, <2>3, <2>5
<1>2. ASSUME NEW id \in settled', id \notin settled
      PROVE  /\ about = "api_keys" /\ WasMade(id)' /\ Marked(file', id)
             /\ \A a \in Busy' : Marked(actor'[a].list, id)
  <2>1. PICK a \in Actors : /\ Finish(a) /\ Busy = {a} /\ id = actor[a].op.id
                            /\ actor[a].op.kind = "revoke_api_key"
    BY <1>2 DEF Next, vars, Read, ReadRaises, Truncate, WritePart, Finish, Start,
                Initialized, Close, Crash
  <2> DEFINE op == actor[a].op
             l == actor[a].copy
             m == actor[a].list
  <2>2. InCall(a) /\ a \in Busy /\ file' = m
    BY <2>1 DEF Finish, Calls, Busy
  <2>3. /\ op \in Operations /\ Outcome(op, l).writes /\ m = Outcome(op, l).list
        /\ CollectionOf[op.kind] = about
    BY <2>2 DEF InCall
  <2>4. about = "api_keys"
    BY <2>1, <2>3 DEF CollectionOf
  <2>5. l \in UniqueLists
    BY <2>2, <2>4, KeysNew DEF Unique
  <2>6. Marked(m, id)
    BY <2>1, <2>3, <2>4, <2>5, MarksStay
  <2>7. WasMade(id)
    <3>1. Found(l, id) # {}
      BY <2>1, <2>3, OutcomeIs DEF Adds, Logs, Sets, Uses, Drops, Creating, Logging
    <3>2. PICK i \in DOMAIN l : l[i].id = id
      BY <3>1 DEF Found
    <3>3. PICK o \in Operations : o.kind \in Making /\ o.id = id /\ answer[o] # "none"
      BY <2>2, <3>2 DEF Origins, Made
    <3>4. CollectionOf[o.kind] = "api_keys"
      BY <2>4, <3>3 DEF Calls
    <3>5. o.kind = "create_api_key"
      BY <3>3, <3>4 DEF Making, Creating, Logging, CollectionOf
    <3> QED BY <3>3, <3>5 DEF WasMade
  <2>8. Busy' = {}
    BY <2>1, FinishActors DEF Busy, Idle
  <2> QED BY <1>0, <2>2, <2>4, <2>6, <2>7, <2>8
<1> QED BY <1>0, <1>1, <1>2 DEF KeysMarked

------------------------------------------------------------------------------
(* The inductive invariant of the calls.                                   *)
Base == /\ TypeOK /\ ActorsOK /\ Calls /\ Alone /\ Origins /\ Unique /\ KeysMarked

LEMMA BaseInit == Init => Base
<1> SUFFICES ASSUME Init PROVE Base
  OBVIOUS
<1>1. /\ \A a \in Actors : actor[a] = Idle
      /\ file = <<>> /\ settled = {} /\ \A o \in Operations : answer[o] = "none"
  BY DEF Init
<1>2. Busy = {} /\ Writers = {} /\ Contents = <<>>
  BY <1>1 DEF Busy, Writers, Idle, Contents
<1>3. Calls
  BY <1>1, <1>2 DEF Calls, Idle
<1>4. Alone /\ Origins /\ KeysMarked
  BY <1>1, <1>2 DEF Alone, Origins, Made, KeysMarked
<1>5. Unique
  <2>1. <<>> \in UniqueLists
    BY DEF UniqueLists
  <2> QED BY <1>1, <1>2, <2>1 DEF Unique, ListsIn, Idle
<1> QED BY <1>3, <1>4, <1>5, TypeInit, TornInit DEF Base

LEMMA BaseStep == Base /\ [Next]_vars => Base'
BY TypeStep, ActorsStep, CallsStep, ContentsStep, OriginsStep, UniqueStep, KeysStep
   DEF Base

(* What is known of the calls under way, of the origin of the records and  *)
(* of the keys that were revoked holds throughout.                         *)
THEOREM BaseHolds == Spec => []Base
BY BaseInit, BaseStep, PTL DEF Spec

(* A key that was revoked while no other operation on the key file was     *)
(* under way is never accepted again, by any process, whatever overlaps,   *)
(* crashes and starts afterwards (validate_api_key, revoke_api_key).       *)
THEOREM RevokedKeysFail == Spec => RevocationHolds
<1>1. Base /\ [Next]_vars =>
        [\A op \in Operations :
          op.kind = "validate_api_key" /\ answer[op] = "none" /\ answer'[op] = "true"
          => op.id \notin settled]_vars
  <2> SUFFICES ASSUME Base, [Next]_vars,
                      NEW op \in Operations, op.kind = "validate_api_key",
                      answer[op] = "none", answer'[op] = "true", op.id \in settled
               PROVE  FALSE
    OBVIOUS
  <2>1. PICK a \in Actors : Finish(a) /\ actor[a].op = op
    BY TrueAnswers DEF Base, Reading
  <2> DEFINE l == actor[a].copy
  <2>2. InCall(a) /\ a \in Busy
    BY <2>1 DEF Base, Calls, Finish, Busy
  <2>3. Outcome(op, l).writes /\ actor[a].list = Outcome(op, l).list
    BY <2>1, <2>2 DEF InCall
  <2>4. Uses(op, l, actor[a].list)
    BY <2>3, OutcomeIs DEF Adds, Logs, Sets, Uses, Drops, Creating, Logging, Updating
  <2>5. PICK i \in Found(l, op.id) : l[i].value # "revoked"
    BY <2>4 DEF Uses
  <2>6. Marked(l, op.id)
    BY <2>2, <2>4 DEF Base, KeysMarked, Uses
  <2> QED BY <2>5, <2>6 DEF Marked, Found
<1> QED BY <1>1, BaseHolds, PTL DEF Spec, RevocationHolds

------------------------------------------------------------------------------
(* The storage implements RecordStore.                                     *)
Table == IF harm = "none" THEN TableOf(Contents) ELSE TableOf(<<>>)

LEMMA TableIs ==
    ASSUME NEW l \in UniqueLists
    PROVE  /\ DOMAIN TableOf(l) = {l[i].id : i \in DOMAIN l}
           /\ \A i \in DOMAIN l : TableOf(l)[l[i].id] = l[i].value
           /\ TableOf(l) = [id \in DOMAIN TableOf(l) |-> TableOf(l)[id]]
<1>1. TableOf(l) = [id \in {l[i].id : i \in DOMAIN l} |-> Shown(l, id).value]
  BY DEF TableOf
<1>2. ASSUME NEW i \in DOMAIN l PROVE Shown(l, l[i].id) = l[i]
  <2>1. i \in Found(l, l[i].id)
    BY DEF Found
  <2>2. FirstOf(Found(l, l[i].id)) = i /\ LastOf(Found(l, l[i].id)) = i
    BY <2>1, FirstIs
  <2> QED BY <2>2 DEF Shown
<1>3. \A i \in DOMAIN l : TableOf(l)[l[i].id] = l[i].value
  BY <1>1, <1>2
<1> QED BY <1>1, <1>3

(* A record is set while some are forgotten; records are dropped.          *)
Replaces(T, U, gone, id0, v) ==
    U = [id \in (DOMAIN T \ gone) \cup {id0} |-> IF id = id0 THEN v ELSE T[id]]

LEMMA TableSet ==
    ASSUME NEW l \in UniqueLists, NEW m \in UniqueLists, NEW id0, NEW v, NEW gone,
           \A j \in DOMAIN m : m[j].id # id0 =>
              \E i \in DOMAIN l : l[i].id = m[j].id /\ l[i].value = m[j].value
                                  /\ l[i].id \notin gone,
           \A i \in DOMAIN l : l[i].id # id0 /\ l[i].id \notin gone =>
              \E j \in DOMAIN m : m[j].id = l[i].id,
           \E j \in DOMAIN m : m[j].id = id0,
           \A j \in DOMAIN m : m[j].id = id0 => m[j].value = v
    PROVE  Replaces(TableOf(l), TableOf(m), gone, id0, v)
<1> DEFINE T == TableOf(l)
           U == TableOf(m)
           new == [id \in (DOMAIN T \ gone) \cup {id0} |-> IF id = id0 THEN v ELSE T[id]]
<1>1. /\ DOMAIN T = {l[i].id : i \in DOMAIN l}
      /\ \A i \in DOMAIN l : T[l[i].id] = l[i].value
  BY TableIs
<1>2. /\ DOMAIN U = {m[i].id : i \in DOMAIN m}
      /\ \A i \in DOMAIN m : U[m[i].id] = m[i].value
      /\ U = [id \in DOMAIN U |-> U[id]]
  BY TableIs
<1> HIDE DEF T, U
<1>3. DOMAIN U = (DOMAIN T \ gone) \cup {id0}
  BY <1>1, <1>2
<1>4. ASSUME NEW id \in DOMAIN U PROVE U[id] = new[id]
  <2>1. PICK j \in DOMAIN m : id = m[j].id
    BY <1>2
  <2>2. CASE id = id0
    BY <1>2, <1>3, <2>1, <2>2
  <2>3. CASE id # id0
    <3>1. PICK i \in DOMAIN l : l[i].id = id /\ l[i].value = m[j].value
      BY <2>1, <2>3
    <3>2. U[id] = m[j].value /\ T[id] = m[j].value
      BY <1>1, <1>2, <2>1, <3>1
    <3> QED BY <1>3, <2>3, <3>2
  <2> QED BY <2>2, <2>3
<1>5. U = new
  <2>1. new = [id \in DOMAIN U |-> new[id]]
    BY <1>3
  <2> HIDE DEF new
  <2> QED BY <1>2, <1>4, <2>1
<1> QED BY <1>5 DEF T, U, Replaces

Loses(T, U, id0) == U = [id \in DOMAIN T \ {id0} |-> T[id]]

LEMMA TableDrop ==
    ASSUME NEW l \in UniqueLists, NEW m \in UniqueLists, NEW id0,
           \A j \in DOMAIN m : m[j].id # id0 /\ \E i \in DOMAIN l : m[j] = l[i],
           \A i \in DOMAIN l : l[i].id # id0 => \E j \in DOMAIN m : m[j] = l[i]
    PROVE  Loses(TableOf(l), TableOf(m), id0)
<1> DEFINE T == TableOf(l)
           U == TableOf(m)
<1>1. /\ DOMAIN T = {l[i].id : i \in DOMAIN l}
      /\ \A i \in DOMAIN l : T[l[i].id] = l[i].value
  BY TableIs
<1>2. /\ DOMAIN U = {m[i].id : i \in DOMAIN m}
      /\ \A i \in DOMAIN m : U[m[i].id] = m[i].value
      /\ U = [id \in DOMAIN U |-> U[id]]
  BY TableIs
<1> HIDE DEF T, U
<1>3. DOMAIN U = DOMAIN T \ {id0}
  BY <1>1, <1>2
<1>4. \A id \in DOMAIN U : U[id] = T[id]
  BY <1>1, <1>2
<1> QED BY <1>2, <1>3, <1>4 DEF T, U, Loses

(* What the store finds in the table.                                      *)
LEMMA PresentIs ==
    ASSUME NEW l \in Seq(Record), Table = TableOf(l), NEW op
    PROVE  /\ Store!Present(op) <=> Found(l, op.id) # {}
           /\ op.id \in DOMAIN Table <=> Found(l, op.id) # {}
           /\ l \in UniqueLists => \A i \in Found(l, op.id) : Table[op.id] = l[i].value
           /\ Table = [id \in DOMAIN Table |-> Table[id]]
<1>0. Table = [id \in {l[i].id : i \in DOMAIN l} |-> Shown(l, id).value]
  BY DEF TableOf
<1>1. op.id \in DOMAIN Table <=> Found(l, op.id) # {}
  BY <1>0 DEF Found
<1>2. l \in UniqueLists => \A i \in Found(l, op.id) : Table[op.id] = l[i].value
  BY TableIs DEF Found
<1> QED BY <1>0, <1>1, <1>2 DEF Store!Present, Table

LEMMA SameCardinality == \A S : Store!Cardinality(S) = Cardinality(S)
BY DEF Store!Cardinality, Cardinality

(* What a trim leaves of a log with a new entry: its end.                  *)
EndOf(longer, size, m, n, skipped) ==
    /\ n >= 1 /\ DOMAIN m = 1 .. n /\ skipped + n = size
    /\ \A j \in 1 .. n : m[j] = longer[skipped + j]
    /\ skipped = 0 \/ n = LogKept

LEMMA LogSuffix ==
    ASSUME NEW op \in Operations, NEW l \in Seq(Record), NEW m,
           m = Trimmed(Append(l, RecordOf(op)))
    PROVE  \E n \in Nat, skipped \in Nat :
              EndOf(Append(l, RecordOf(op)), Len(l) + 1, m, n, skipped)
<1> DEFINE longer == Append(l, RecordOf(op))
<1>2. longer \in Seq(Record) /\ Len(l) \in Nat /\ Len(longer) = Len(l) + 1
  BY RecordOfType
<1>3. LogKept \in Nat /\ LogLimit \in Nat /\ LogKept >= 1 /\ LogKept <= LogLimit
  BY StorageAssumption
<1> SUFFICES \E n \in Nat, skipped \in Nat : EndOf(longer, Len(l) + 1, m, n, skipped)
  OBVIOUS
<1> HIDE DEF longer
<1>4. CASE Len(longer) > LogLimit
  <2>1. /\ Len(longer) - LogKept \in Nat /\ DOMAIN m = 1 .. LogKept
        /\ \A j \in 1 .. LogKept : m[j] = longer[(Len(longer) - LogKept) + j]
    BY <1>2, <1>4, TrimmedIs DEF longer
  <2>2. (Len(longer) - LogKept) + LogKept = Len(l) + 1
    BY <1>2, <1>3
  <2>3. PICK skipped \in Nat : skipped = Len(longer) - LogKept
    BY <2>1
  <2>4. EndOf(longer, Len(l) + 1, m, LogKept, skipped)
    BY <1>3, <2>1, <2>2, <2>3 DEF EndOf
  <2> QED BY <1>3, <2>4
<1>5. CASE ~ (Len(longer) > LogLimit)
  <2>1. m = longer
    BY <1>2, <1>5, TrimmedIs DEF longer
  <2>2. /\ DOMAIN m = 1 .. Len(l) + 1 /\ 0 + (Len(l) + 1) = Len(l) + 1
        /\ \A j \in 1 .. Len(l) + 1 : m[j] = longer[0 + j]
    BY <1>2, <2>1
  <2>3. PICK n \in Nat : n = Len(l) + 1 /\ n >= 1
    BY <1>2
  <2>4. EndOf(longer, Len(l) + 1, m, n, 0) /\ 0 \in Nat
    BY <2>2, <2>3 DEF EndOf
  <2> QED BY <2>4
<1> QED BY <1>4, <1>5

(* What a log forgets when it is trimmed, if no id is repeated.            *)
LEMMA LogEffect ==
    ASSUME NEW op \in Operations, NEW l \in UniqueLists, NEW m \in UniqueLists,
           Table = TableOf(l), Table' = TableOf(m),
           Found(l, op.id) = {}, m = Trimmed(Append(l, RecordOf(op)))
    PROVE  Store!Logged(op)
<1> DEFINE longer == Append(l, RecordOf(op))
<1>1. l \in Seq(Record) /\ m \in Seq(Record)
  BY DEF UniqueLists
<1>2. /\ longer \in Seq(Record) /\ Len(l) \in Nat /\ DOMAIN l = 1 .. Len(l)
      /\ Len(longer) = Len(l) + 1
      /\ \A i \in DOMAIN l : longer[i] = l[i]
      /\ longer[Len(l) + 1] = RecordOf(op) /\ RecordOf(op).id = op.id
      /\ RecordOf(op).value = op.value
  BY <1>1, RecordOfType DEF RecordOf
<1>3. LogKept \in Nat /\ LogLimit \in Nat /\ LogKept >= 1 /\ LogKept <= LogLimit
  BY StorageAssumption
<1>4. \A i \in DOMAIN l : l[i].id # op.id
  BY DEF Found
<1>e. \E n \in Nat, skipped \in Nat : EndOf(longer, Len(l) + 1, m, n, skipped)
  BY <1>1, LogSuffix
<1> HIDE DEF longer
<1>5. PICK n \in Nat, skipped \in Nat :
          /\ n >= 1 /\ DOMAIN m = 1 .. n /\ skipped + n = Len(l) + 1
          /\ \A j \in 1 .. n : m[j] = longer[skipped + j]
          /\ skipped = 0 \/ n = LogKept
  BY <1>e DEF EndOf
<1> DEFINE ids == {m[j].id : j \in 1 .. n - 1}
           gone == DOMAIN Table \ ids
<1>7. /\ m[n].id = op.id /\ m[n].value = op.value
      /\ \A j \in 1 .. n - 1 : /\ m[j] = l[skipped + j] /\ skipped + j \in DOMAIN l
                               /\ m[j].id # op.id
  <2>1. m[n] = longer[Len(l) + 1]
    BY <1>2, <1>5
  <2>2. ASSUME NEW j \in 1 .. n - 1
        PROVE  m[j] = l[skipped + j] /\ skipped + j \in DOMAIN l
    BY <1>2, <1>5
  <2> QED BY <1>2, <1>4, <2>1, <2>2
<1>8. DOMAIN Table = {l[i].id : i \in DOMAIN l}
  BY TableIs
<1>9. ids \subseteq DOMAIN Table /\ DOMAIN Table \ gone = ids
  BY <1>7, <1>8
<1>10. gone = {} \/ Cardinality(DOMAIN Table \ gone) + 1 >= LogKept
  <2>1. CASE skipped = 0
    <3>1. \A i \in DOMAIN l : i \in 1 .. n - 1 /\ m[i] = l[i]
      BY <1>2, <1>5, <1>7, <2>1
    <3>2. gone = {}
      BY <1>8, <3>1
    <3> QED BY <3>2
  <2>2. CASE n = LogKept
    <3> DEFINE f == [j \in 1 .. n - 1 |-> m[j].id]
    <3>1. f \in Bijection(1 .. n - 1, ids)
      <4>1. f \in [1 .. n - 1 -> ids]
        OBVIOUS
      <4>2. \A i, j \in 1 .. n - 1 : f[i] = f[j] => i = j
        <5>1. \A i, j \in DOMAIN m : m[i].id = m[j].id => i = j
          BY DEF UniqueLists
        <5>2. \A i \in 1 .. n - 1 : i \in DOMAIN m /\ f[i] = m[i].id
          BY <1>5
        <5> HIDE DEF f
        <5> QED BY <5>1, <5>2
      <4>3. \A x \in ids : \E j \in 1 .. n - 1 : f[j] = x
        OBVIOUS
      <4> QED BY <4>1, <4>2, <4>3 DEF Bijection, Injection, Surjection, IsInjective
    <3>2. IsFiniteSet(1 .. n - 1) /\ Cardinality(1 .. n - 1) = n - 1
      <4>1. n - 1 \in Nat
        BY <1>5
      <4>2. /\ IsFiniteSet(1 .. n - 1)
            /\ Cardinality(1 .. n - 1) = IF 1 > n - 1 THEN 0 ELSE (n - 1) - 1 + 1
        BY <4>1, FS_Interval
      <4> QED BY <1>5, <4>1, <4>2
    <3> HIDE DEF f, ids
    <3>3. Cardinality(ids) = n - 1
      <4>1. ExistsBijection(1 .. n - 1, ids)
        BY <3>1 DEF ExistsBijection
      <4> QED BY <3>2, <4>1, FS_Bijection
    <3> QED BY <1>3, <1>9, <2>2, <3>3
  <2> QED BY <1>5, <2>1, <2>2
<1>11. PICK g : g = gone
  OBVIOUS
<1>12. PICK id0, v : id0 = op.id /\ v = op.value
  OBVIOUS
<1>13. Replaces(TableOf(l), TableOf(m), g, id0, v)
  <2>1. ASSUME NEW j \in DOMAIN m, m[j].id # id0
        PROVE  \E i \in DOMAIN l : l[i].id = m[j].id /\ l[i].value = m[j].value
                                  /\ l[i].id \notin g
    <3>1. j \in 1 .. n - 1
      BY <1>5, <1>7, <1>12, <2>1
    <3>2. m[j].id \in ids
      BY <3>1
    <3> QED BY <1>7, <1>11, <3>1, <3>2
  <2>2. ASSUME NEW i \in DOMAIN l, l[i].id # id0 /\ l[i].id \notin g
        PROVE  \E j \in DOMAIN m : m[j].id = l[i].id
    <3>1. l[i].id \in ids
      BY <1>8, <1>11, <2>2
    <3>2. PICK j \in 1 .. n - 1 : m[j].id = l[i].id
      BY <3>1
    <3>3. j \in DOMAIN m
      BY <1>5
    <3> QED BY <3>2, <3>3
  <2>3. \E j \in DOMAIN m : m[j].id = id0
    BY <1>5, <1>7, <1>12
  <2>4. \A j \in DOMAIN m : m[j].id = id0 => m[j].value = v
    BY <1>5, <1>7, <1>12
  <2> QED BY <2>1, <2>2, <2>3, <2>4, TableSet
<1>14. g \in SUBSET DOMAIN Table
  BY <1>11
<1>15. g = {} \/ Cardinality(DOMAIN Table \ g) + 1 >= LogKept
  BY <1>10, <1>11
<1> HIDE DEF gone, ids
<1>16. Table' = [id \in (DOMAIN Table \ g) \cup {op.id} |->
                    IF id = op.id THEN op.value ELSE Table[id]]
  BY <1>12, <1>13 DEF Replaces
<1>17. g = {} \/ Store!Cardinality(DOMAIN Table \ g) + 1 >= LogKept
  BY <1>15, SameCardinality
<1>18. \E forgotten \in SUBSET DOMAIN Table :
         /\ \/ forgotten = {} \/ Store!Repeated(op.kind)
            \/ Store!Cardinality(DOMAIN Table \ forgotten) + 1 >= LogKept
         /\ Table' = [id \in (DOMAIN Table \ forgotten) \cup {op.id} |->
                       IF id = op.id THEN op.value ELSE Table[id]]
  BY <1>14, <1>16, <1>17, Zenon
<1>19. Store!Logged(op) <=>
       \E forgotten \in SUBSET DOMAIN Table :
         /\ \/ forgotten = {} \/ Store!Repeated(op.kind)
            \/ Store!Cardinality(DOMAIN Table \ forgotten) + 1 >= LogKept
         /\ Table' = [id \in (DOMAIN Table \ forgotten) \cup {op.id} |->
                       IF id = op.id THEN op.value ELSE Table[id]]
  BY DEF Store!Logged, Table
<1> QED BY <1>18, <1>19

(* A call that writes does to the table what the store does.               *)
LEMMA WriteEffect ==
    ASSUME NEW op \in Operations, NEW l \in UniqueLists, NEW m \in UniqueLists,
           Table = TableOf(l), Table' = TableOf(m),
           Outcome(op, l).writes, m = Outcome(op, l).list,
           op.kind \in Creating \cup Logging => Found(l, op.id) = {}
    PROVE  Store!Effect(op, "true")
<1>0. l \in Seq(Record) /\ m \in Seq(Record)
  BY DEF UniqueLists
<1>1. /\ Store!Present(op) <=> Found(l, op.id) # {}
      /\ op.id \in DOMAIN Table <=> Found(l, op.id) # {}
  BY <1>0, PresentIs
<1>2. ASSUME NEW v, Replaces(Table, Table', {}, op.id, v)
      PROVE  Table' = [id \in DOMAIN Table \cup {op.id} |-> IF id = op.id THEN v ELSE Table[id]]
  <2>1. DOMAIN Table \ {} = DOMAIN Table
    OBVIOUS
  <2> QED BY <1>2, <2>1 DEF Replaces
<1>3. CASE Adds(op, l, m)
  <2>1. /\ op.kind \in Creating \cup {"create_tenant", "update_daily_stats"}
        /\ Found(l, op.id) = {} /\ m = Append(l, RecordOf(op))
    BY <1>3 DEF Adds
  <2> DEFINE longer == Append(l, RecordOf(op))
  <2>2. /\ longer \in Seq(Record) /\ DOMAIN longer = DOMAIN l \cup {Len(l) + 1}
        /\ \A i \in DOMAIN l : longer[i] = l[i]
        /\ longer[Len(l) + 1] = RecordOf(op)
        /\ RecordOf(op).id = op.id /\ RecordOf(op).value = op.value
    BY <1>0, RecordOfType DEF RecordOf
  <2>3. \A i \in DOMAIN l : l[i].id # op.id
    BY <2>1 DEF Found
  <2> HIDE DEF longer
  <2>4. PICK id0, v : id0 = op.id /\ v = op.value
    OBVIOUS
  <2>5. Replaces(TableOf(l), TableOf(m), {}, id0, v)
    <3>1. \A j \in DOMAIN m : m[j].id # id0 =>
              \E i \in DOMAIN l : l[i].id = m[j].id /\ l[i].value = m[j].value
                                  /\ l[i].id \notin {}
      BY <2>1, <2>2, <2>4 DEF longer
    <3>2. \A i \in DOMAIN l : l[i].id # id0 /\ l[i].id \notin {} =>
              \E j \in DOMAIN m : m[j].id = l[i].id
      BY <2>1, <2>2 DEF longer
    <3>3. \E j \in DOMAIN m : m[j].id = id0
      BY <2>1, <2>2, <2>4 DEF longer
    <3>4. \A j \in DOMAIN m : m[j].id = id0 => m[j].value = v
      BY <2>1, <2>2, <2>3, <2>4 DEF longer
    <3> QED BY <3>1, <3>2, <3>3, <3>4, TableSet
  <2>6. Table' = [id \in DOMAIN Table \cup {op.id} |->
                    IF id = op.id THEN op.value ELSE Table[id]]
    BY <1>2, <2>4, <2>5
  <2>7. Table' = Store!With(op)
    BY <2>6 DEF Store!With, Table
  <2>8. CASE op.kind \in Creating
    BY <1>1, <2>1, <2>7, <2>8 DEF Store!Effect, Store!Creating, Creating, Table
  <2>9. CASE op.kind = "create_tenant"
    BY <1>1, <2>1, <2>7, <2>9 DEF Store!Effect, Table
  <2>10. CASE op.kind = "update_daily_stats"
    BY <2>7, <2>10 DEF Store!Effect, Table
  <2> QED BY <2>1, <2>8, <2>9, <2>10
<1>4. CASE Logs(op, l, m)
  <2>1. op.kind \in Logging /\ m = Trimmed(Append(l, RecordOf(op)))
    BY <1>4 DEF Logs
  <2>2. Store!Logged(op)
    BY <2>1, LogEffect
  <2> QED BY <2>1, <2>2 DEF Store!Effect, Store!Logging, Logging
<1>5. CASE Sets(op, l, m)
  <2>1. PICK k \in Found(l, op.id) : TRUE
    BY <1>5 DEF Sets
  <2>2. PICK v : v = NewValue(op)
    OBVIOUS
  <2>a. Found(l, op.id) = {k} /\ FirstOf(Found(l, op.id)) = k
    BY <2>1, FirstIs
  <2>3. m = [l EXCEPT ![k].value = v] /\ Found(l, op.id) = {k}
    BY <1>5, <2>2, <2>a DEF Sets
  <2>4. /\ DOMAIN m = DOMAIN l
        /\ \A i \in DOMAIN l : /\ m[i].id = l[i].id
                               /\ m[i].value = IF i = k THEN v ELSE l[i].value
    BY <1>0, <2>3, SetsIs
  <2>5. \A i \in DOMAIN l : l[i].id = op.id <=> i = k
    BY <2>3 DEF Found
  <2>6. PICK id0 : id0 = op.id
    OBVIOUS
  <2>7. Replaces(TableOf(l), TableOf(m), {}, id0, v)
    <3>1. \A j \in DOMAIN m : m[j].id # id0 =>
              \E i \in DOMAIN l : l[i].id = m[j].id /\ l[i].value = m[j].value
                                  /\ l[i].id \notin {}
      BY <2>4, <2>5, <2>6
    <3>2. \A i \in DOMAIN l : l[i].id # id0 /\ l[i].id \notin {} =>
              \E j \in DOMAIN m : m[j].id = l[i].id
      BY <2>4
    <3>3. \E j \in DOMAIN m : m[j].id = id0
      BY <2>1, <2>4, <2>6 DEF Found
    <3>4. \A j \in DOMAIN m : m[j].id = id0 => m[j].value = v
      BY <2>4, <2>5, <2>6
    <3> HIDE <2>3
    <3> QED BY <3>1, <3>2, <3>3, <3>4, TableSet
  <2>8. Table' = [id \in DOMAIN Table \cup {op.id} |-> IF id = op.id THEN v ELSE Table[id]]
    BY <1>2, <2>6, <2>7
  <2>9. Store!Present(op) /\ op.kind \in Updating \cup {"revoke_api_key", "update_daily_stats"}
    BY <1>1, <1>5 DEF Sets
  <2>10. CASE op.kind = "revoke_api_key"
    <3> DEFINE marked == [op EXCEPT !.value = "revoked"]
    <3>1. op \in Operation /\ v = "revoked"
      BY <2>2, <2>10, StorageAssumption DEF NewValue
    <3>2. marked.id = op.id /\ marked.value = "revoked"
      BY <3>1 DEF Operation
    <3> HIDE DEF marked
    <3>3. Table' = Store!With(marked)
      BY <2>8, <3>1, <3>2 DEF Store!With, Table
    <3> QED BY <2>9, <2>10, <3>3 DEF Store!Effect, Table, marked
  <2>11. CASE op.kind # "revoke_api_key"
    <3>1. Table' = Store!With(op)
      BY <2>2, <2>8, <2>11 DEF NewValue, Store!With, Table
    <3>2. CASE op.kind \in Updating
      BY <2>9, <3>1, <3>2 DEF Store!Effect, Store!Updating, Updating, Table
    <3>3. CASE op.kind = "update_daily_stats"
      BY <3>1, <3>3 DEF Store!Effect, Table
    <3> QED BY <2>9, <2>11, <3>2, <3>3
  <2> QED BY <2>10, <2>11
<1>6. CASE Uses(op, l, m)
  <2>1. PICK i \in Found(l, op.id) : l[i].value # "revoked"
    BY <1>6 DEF Uses
  <2>2. Table[op.id] # "revoked" /\ Store!Present(op)
    BY <1>0, <1>1, <2>1, PresentIs
  <2>3. op.kind = "validate_api_key" /\ Table' = Table
    BY <1>6 DEF Uses
  <2> QED BY <2>2, <2>3 DEF Store!Effect, Table
<1>7. CASE Drops(op, l, m)
  <2>1. /\ op.kind = "delete_webhook" /\ Store!Present(op)
        /\ KeptOf(l, op.id, Len(l), m)
    BY <1>0, <1>1, <1>7, OthersKept DEF Drops
  <2>2. DOMAIN l = 1 .. Len(l)
    BY <1>0
  <2>3. PICK id0 : id0 = op.id
    OBVIOUS
  <2>4. Loses(TableOf(l), TableOf(m), id0)
    <3>1. \A j \in DOMAIN m : m[j].id # id0 /\ \E i \in DOMAIN l : m[j] = l[i]
      BY <2>1, <2>2, <2>3 DEF KeptOf
    <3>2. \A i \in DOMAIN l : l[i].id # id0 => \E j \in DOMAIN m : m[j] = l[i]
      BY <2>1, <2>2, <2>3 DEF KeptOf
    <3> QED BY <3>1, <3>2, TableDrop
  <2>5. Table' = Store!Without({op.id})
    BY <2>3, <2>4 DEF Loses, Store!Without, Table
  <2> QED BY <2>1, <2>5 DEF Store!Effect, Table
<1> QED BY <1>3, <1>4, <1>5, <1>6, <1>7, OutcomeIs

(* The first and the last record of an id.                                 *)
LEMMA EndsOf ==
    ASSUME NEW l \in Seq(Record), NEW id, Found(l, id) # {}
    PROVE  /\ FirstOf(Found(l, id)) \in Found(l, id)
           /\ \A i \in Found(l, id) : FirstOf(Found(l, id)) <= i
           /\ LastOf(Found(l, id)) \in Found(l, id)
           /\ \A i \in Found(l, id) : i <= LastOf(Found(l, id))
<1>1. Len(l) \in Nat /\ Found(l, id) \subseteq 1 .. Len(l) /\ Found(l, id) \subseteq Nat
  BY DEF Found
<1>2. \E i \in Found(l, id) : \A j \in Found(l, id) : i <= j
  BY <1>1, LeastExists
<1>3. \E i \in Found(l, id) : \A j \in Found(l, id) : j <= i
  <2> DEFINE D == {n \in Nat : Len(l) - n \in Found(l, id)}
  <2>1. PICK k : k \in Found(l, id)
    OBVIOUS
  <2>2. Len(l) - k \in D
    <3>1. Len(l) - (Len(l) - k) = k /\ Len(l) - k \in Nat
      BY <1>1, <2>1
    <3> QED BY <2>1, <3>1
  <2>3. PICK d \in D : \A n \in D : d <= n
    <3>1. D \subseteq Nat /\ D # {}
      BY <2>2
    <3> HIDE DEF D
    <3> QED BY <3>1, LeastExists
  <2>4. ASSUME NEW j \in Found(l, id) PROVE j <= Len(l) - d
    <3>1. Len(l) - (Len(l) - j) = j /\ Len(l) - j \in Nat
      BY <1>1, <2>4
    <3>2. Len(l) - j \in D
      BY <2>4, <3>1
    <3>3. d <= Len(l) - j
      BY <2>3, <3>2
    <3> QED BY <1>1, <2>3, <3>3
  <2> QED BY <2>3, <2>4
<1> QED BY <1>2, <1>3 DEF FirstOf, LastOf

LEMMA FirstUnique ==
    ASSUME NEW l \in Seq(Record), NEW id, NEW i \in Found(l, id),
           \A j \in Found(l, id) : i <= j
    PROVE  FirstOf(Found(l, id)) = i
<1>1. Found(l, id) \subseteq Nat
  BY DEF Found
<1> QED BY <1>1, EndsOf

LEMMA LastUnique ==
    ASSUME NEW l \in Seq(Record), NEW id, NEW i \in Found(l, id),
           \A j \in Found(l, id) : j <= i
    PROVE  LastOf(Found(l, id)) = i
<1>1. Found(l, id) \subseteq Nat
  BY DEF Found
<1> QED BY <1>1, EndsOf

(* The tables of lists in which ids may be repeated.                       *)
IdsOf(l) == {l[i].id : i \in DOMAIN l}

LEMMA TableAny ==
    ASSUME NEW l, NEW m, NEW id0, NEW v, NEW gone,
           IdsOf(m) = (IdsOf(l) \ gone) \cup {id0},
           Shown(m, id0).value = v,
           \A id \in IdsOf(m) : id # id0 => Shown(m, id).value = Shown(l, id).value
    PROVE  Replaces(TableOf(l), TableOf(m), gone, id0, v)
BY DEF TableOf, IdsOf, Replaces

(* A log that is added to and trimmed, with ids repeated.                  *)
LEMMA LogEffectAny ==
    ASSUME NEW op \in Operations, NEW l \in Seq(Record), NEW m \in Seq(Record),
           Table = TableOf(l), Table' = TableOf(m), about \in {"events", "audit"},
           m = Trimmed(Append(l, RecordOf(op))), Store!Repeated(op.kind)
    PROVE  Store!Logged(op)
<1> DEFINE longer == Append(l, RecordOf(op))
<1>1. /\ longer \in Seq(Record) /\ Len(l) \in Nat /\ DOMAIN l = 1 .. Len(l)
      /\ DOMAIN longer = DOMAIN l \cup {Len(l) + 1}
      /\ \A i \in DOMAIN l : longer[i] = l[i]
      /\ longer[Len(l) + 1] = RecordOf(op) /\ RecordOf(op).id = op.id
      /\ RecordOf(op).value = op.value
  BY RecordOfType DEF RecordOf
<1>e. \E n \in Nat, skipped \in Nat : EndOf(longer, Len(l) + 1, m, n, skipped)
  BY LogSuffix
<1> HIDE DEF longer
<1>2. PICK n \in Nat, skipped \in Nat :
          /\ n >= 1 /\ DOMAIN m = 1 .. n /\ skipped + n = Len(l) + 1
          /\ \A j \in 1 .. n : m[j] = longer[skipped + j]
  BY <1>e DEF EndOf
<1>3. m[n] = longer[Len(l) + 1] /\ n \in Found(m, op.id)
  <2>1. n \in 1 .. n /\ skipped + n = Len(l) + 1
    BY <1>2
  <2> QED BY <1>1, <1>2, <2>1 DEF Found
<1>4. Shown(m, op.id).value = op.value
  <2>1. \A j \in Found(m, op.id) : j <= n
    BY <1>2 DEF Found
  <2>2. LastOf(Found(m, op.id)) = n
    BY <1>3, <2>1, LastUnique
  <2> QED BY <1>1, <1>3, <2>2 DEF Shown
<1>5. ASSUME NEW id \in IdsOf(m), id # op.id
      PROVE  id \in IdsOf(l) /\ Shown(m, id).value = Shown(l, id).value
  <2>1. Found(m, id) # {}
    BY <1>5 DEF IdsOf, Found
  <2> DEFINE k == LastOf(Found(m, id))
  <2>2. k \in Found(m, id) /\ \A j \in Found(m, id) : j <= k
    BY <2>1, EndsOf
  <2> HIDE DEF k
  <2>3. k \in 1 .. n /\ m[k].id = id /\ m[k] = longer[skipped + k]
    BY <1>2, <2>2 DEF Found
  <2>4. k # n
    BY <1>1, <1>3, <1>5, <2>3
  <2>5. skipped + k \in DOMAIN l /\ l[skipped + k] = m[k]
    <3>1. skipped + k \in 1 .. Len(l)
      BY <1>1, <1>2, <2>3, <2>4
    <3> QED BY <1>1, <2>3, <3>1
  <2>6. skipped + k \in Found(l, id)
    BY <2>3, <2>5 DEF Found
  <2>7. ASSUME NEW j \in Found(l, id) PROVE j <= skipped + k
    <3>1. j \in 1 .. Len(l) /\ longer[j].id = id
      BY <1>1 DEF Found
    <3>2. CASE j <= skipped
      BY <1>2, <2>3, <3>1, <3>2
    <3>3. CASE j > skipped
      <4>1. j - skipped \in 1 .. n /\ skipped + (j - skipped) = j
        BY <1>1, <1>2, <3>1, <3>3
      <4>2. j - skipped \in Found(m, id)
        <5>1. m[j - skipped] = longer[j]
          BY <1>2, <4>1
        <5> QED BY <1>2, <3>1, <4>1, <5>1 DEF Found
      <4>3. j - skipped <= k
        BY <2>2, <4>2
      <4> QED BY <1>2, <2>3, <3>1, <4>3
    <3> QED BY <1>2, <3>1, <3>2, <3>3
  <2>8. LastOf(Found(l, id)) = skipped + k
    BY <2>6, <2>7, LastUnique
  <2>9. Shown(m, id) = m[k] /\ Shown(l, id) = l[skipped + k]
    BY <2>8 DEF Shown, k
  <2> QED BY <2>3, <2>5, <2>9 DEF IdsOf
<1> DEFINE gone == DOMAIN Table \ IdsOf(m)
<1>6. DOMAIN Table = IdsOf(l) /\ gone \in SUBSET DOMAIN Table
  BY DEF TableOf, IdsOf
<1>7. op.id \in IdsOf(m)
  BY <1>3 DEF IdsOf, Found
<1>8. IdsOf(m) = (IdsOf(l) \ gone) \cup {op.id}
  BY <1>5, <1>6, <1>7
<1> HIDE DEF gone
<1>9. PICK id0, v : id0 = op.id /\ v = op.value
  OBVIOUS
<1>10. Replaces(TableOf(l), TableOf(m), gone, id0, v)
  BY <1>4, <1>5, <1>8, <1>9, TableAny
<1>11. Table' = [id \in (DOMAIN Table \ gone) \cup {op.id} |->
                    IF id = op.id THEN op.value ELSE Table[id]]
  BY <1>9, <1>10 DEF Replaces
<1>12. \E forgotten \in SUBSET DOMAIN Table :
         /\ \/ forgotten = {} \/ Store!Repeated(op.kind)
            \/ Store!Cardinality(DOMAIN Table \ forgotten) + 1 >= LogKept
         /\ Table' = [id \in (DOMAIN Table \ forgotten) \cup {op.id} |->
                       IF id = op.id THEN op.value ELSE Table[id]]
  BY <1>6, <1>11, Zenon
<1>13. Store!Logged(op) <=>
       \E forgotten \in SUBSET DOMAIN Table :
         /\ \/ forgotten = {} \/ Store!Repeated(op.kind)
            \/ Store!Cardinality(DOMAIN Table \ forgotten) + 1 >= LogKept
         /\ Table' = [id \in (DOMAIN Table \ forgotten) \cup {op.id} |->
                       IF id = op.id THEN op.value ELSE Table[id]]
  BY DEF Store!Logged, Table
<1> QED BY <1>12, <1>13

(* Agents and alerts, whose ids may be repeated as well: a second record   *)
(* of an id is not found, and an update changes the first.                 *)
LEMMA WriteEffectAny ==
    ASSUME NEW op \in Operations, NEW l \in Seq(Record), NEW m \in Seq(Record),
           Table = TableOf(l), Table' = TableOf(m), about \notin {"events", "audit"},
           op.kind \in Creating \cup Updating,
           Outcome(op, l).writes, m = Outcome(op, l).list
    PROVE  Store!Effect(op, "true")
<1>1. /\ Store!Present(op) <=> Found(l, op.id) # {}
      /\ DOMAIN Table = IdsOf(l) /\ op.id \in DOMAIN Table <=> Found(l, op.id) # {}
      /\ Table = [id \in DOMAIN Table |-> Table[id]]
  <2>1. DOMAIN Table = IdsOf(l)
    BY DEF TableOf, IdsOf
  <2> QED BY <2>1, PresentIs
<1>2. \A list, id : Shown(list, id) = list[FirstOf(Found(list, id))]
  BY DEF Shown
<1>3. CASE Adds(op, l, m)
  <2> DEFINE longer == Append(l, RecordOf(op))
  <2>1. /\ op.kind \in Creating /\ m = longer
        /\ longer \in Seq(Record) /\ DOMAIN longer = DOMAIN l \cup {Len(l) + 1}
        /\ DOMAIN l = 1 .. Len(l) /\ Len(l) \in Nat
        /\ \A i \in DOMAIN l : longer[i] = l[i]
        /\ longer[Len(l) + 1] = RecordOf(op)
        /\ RecordOf(op).id = op.id /\ RecordOf(op).value = op.value
    BY <1>3, RecordOfType DEF RecordOf, Adds, Creating, Updating
  <2> HIDE DEF longer
  <2>2. IdsOf(m) = IdsOf(l) \cup {op.id}
    BY <2>1 DEF IdsOf
  <2>3. ASSUME NEW id, Found(l, id) # {}
        PROVE  Shown(m, id).value = Shown(l, id).value
    <3> DEFINE k == FirstOf(Found(l, id))
    <3>1. k \in Found(l, id) /\ \A j \in Found(l, id) : k <= j
      BY <2>3, EndsOf
    <3> HIDE DEF k
    <3>2. k \in Found(m, id) /\ m[k] = l[k] /\ k <= Len(l)
      BY <2>1, <3>1 DEF Found
    <3>3. \A j \in Found(m, id) : k <= j
      BY <2>1, <3>1, <3>2 DEF Found
    <3>4. FirstOf(Found(m, id)) = k
      BY <2>1, <3>2, <3>3, FirstUnique
    <3> QED BY <1>2, <3>2, <3>4 DEF k
  <2>4. \A id \in IdsOf(l) : Found(l, id) # {}
    BY DEF IdsOf, Found
  <2>5. CASE Found(l, op.id) # {}
    <3>1. IdsOf(m) = IdsOf(l)
      BY <1>1, <2>2, <2>5
    <3>2. Table' = [id \in IdsOf(l) |-> Shown(m, id).value]
      BY <3>1 DEF TableOf, IdsOf
    <3>3. Table = [id \in IdsOf(l) |-> Shown(l, id).value]
      BY DEF TableOf, IdsOf
    <3>4. Table' = Table
      BY <2>3, <2>4, <3>2, <3>3
    <3> QED BY <1>1, <2>1, <2>5, <3>4 DEF Store!Effect, Store!Creating, Creating, Table
  <2>6. CASE Found(l, op.id) = {}
    <3>1. Found(m, op.id) = {Len(l) + 1}
      BY <2>1, <2>6 DEF Found
    <3>2. Shown(m, op.id).value = op.value
      <4>1. FirstOf(Found(m, op.id)) = Len(l) + 1
        BY <2>1, <3>1 DEF FirstOf
      <4> QED BY <1>2, <2>1, <4>1
    <3>3. PICK id0, v, gone : id0 = op.id /\ v = op.value /\ gone = {}
      OBVIOUS
    <3>4. Replaces(TableOf(l), TableOf(m), gone, id0, v)
      <4>1. IdsOf(m) = (IdsOf(l) \ gone) \cup {id0}
        BY <2>2, <3>3
      <4>2. \A id \in IdsOf(m) : id # id0 => Shown(m, id).value = Shown(l, id).value
        BY <2>2, <2>3, <2>4, <3>3
      <4>3. Shown(m, id0).value = v
        BY <3>2, <3>3
      <4> QED BY <4>1, <4>2, <4>3, TableAny
    <3>5. Table' = Store!With(op)
      <4>1. DOMAIN Table \ gone = DOMAIN Table
        BY <3>3
      <4> QED BY <3>3, <3>4, <4>1 DEF Replaces, Store!With, Table
    <3> QED BY <1>1, <2>1, <2>6, <3>5 DEF Store!Effect, Store!Creating, Creating, Table
  <2> QED BY <2>5, <2>6
<1>4. CASE Sets(op, l, m)
  <2>1. PICK v : v = op.value
    OBVIOUS
  <2>2. op.kind \in Updating /\ NewValue(op) = v /\ Found(l, op.id) # {}
    BY <1>4, <2>1 DEF Sets, NewValue, Creating, Updating
  <2> DEFINE k == FirstOf(Found(l, op.id))
  <2>3. k \in Found(l, op.id) /\ m = [l EXCEPT ![k].value = v]
    BY <1>4, <2>2, EndsOf DEF Sets
  <2> HIDE DEF k
  <2>4. /\ DOMAIN m = DOMAIN l
        /\ \A i \in DOMAIN l : /\ m[i].id = l[i].id
                               /\ m[i].value = IF i = k THEN v ELSE l[i].value
    BY <2>3, SetsIs
  <2>5. \A id : Found(m, id) = Found(l, id)
    BY <2>4 DEF Found
  <2>6. IdsOf(m) = IdsOf(l) /\ op.id \in IdsOf(l)
    BY <2>2, <2>4 DEF IdsOf, Found
  <2>7. Shown(m, op.id).value = v
    <3>1. Shown(m, op.id) = m[k]
      BY <1>2, <2>5 DEF k
    <3>2. k \in DOMAIN l
      BY <2>3 DEF Found
    <3> QED BY <2>4, <3>1, <3>2
  <2>8. ASSUME NEW id \in IdsOf(m), id # op.id
        PROVE  Shown(m, id).value = Shown(l, id).value
    <3>1. Found(l, id) # {}
      BY <2>6 DEF IdsOf, Found
    <3>2. PICK i : i = FirstOf(Found(l, id))
      OBVIOUS
    <3>3. i \in Found(l, id)
      BY <3>1, <3>2, EndsOf
    <3>4. i # k /\ i \in DOMAIN l
      BY <2>3, <2>8, <3>3 DEF Found
    <3>5. Shown(m, id) = m[i] /\ Shown(l, id) = l[i]
      BY <1>2, <2>5, <3>2
    <3> QED BY <2>4, <3>4, <3>5
  <2>9. PICK id0, gone : id0 = op.id /\ gone = {}
    OBVIOUS
  <2>10. Replaces(TableOf(l), TableOf(m), gone, id0, v)
    <3>1. IdsOf(m) = (IdsOf(l) \ gone) \cup {id0}
      BY <2>6, <2>9
    <3>2. \A id \in IdsOf(m) : id # id0 => Shown(m, id).value = Shown(l, id).value
      BY <2>8, <2>9
    <3>3. Shown(m, id0).value = v
      BY <2>7, <2>9
    <3> QED BY <3>1, <3>2, <3>3, TableAny
  <2>11. Table' = Store!With(op)
    <3>1. DOMAIN Table \ gone = DOMAIN Table
      BY <2>9
    <3> QED BY <2>1, <2>9, <2>10, <3>1 DEF Replaces, Store!With, Table
  <2> QED BY <1>1, <2>2, <2>11 DEF Store!Effect, Store!Updating, Updating, Table
<1>5. ~ Logs(op, l, m) /\ ~ Uses(op, l, m) /\ ~ Drops(op, l, m)
  BY DEF Logs, Uses, Drops, Logging, Creating, Updating
<1> QED BY <1>3, <1>4, <1>5, OutcomeIs

(* A call that does not write answers what the store answers.              *)
LEMMA ReadEffect ==
    ASSUME NEW op \in Operations, NEW l \in Seq(Record),
           op.kind = "validate_api_key" => l \in UniqueLists,
           Table = TableOf(l), Table' = Table, ~ Outcome(op, l).writes
    PROVE  Store!Effect(op, Outcome(op, l).reply)
<1> DEFINE reply == Outcome(op, l).reply
<1>1. /\ Store!Present(op) <=> Found(l, op.id) # {}
      /\ op.id \in DOMAIN Table <=> Found(l, op.id) # {}
      /\ op.kind = "validate_api_key" =>
            \A i \in Found(l, op.id) : Table[op.id] = l[i].value
  BY PresentIs
<1> SUFFICES Store!Effect(op, reply)
  OBVIOUS
<1> HIDE DEF reply
<1>2. CASE op.kind = "create_tenant" /\ Found(l, op.id) # {} /\ reply = "error"
  BY <1>1, <1>2 DEF Store!Effect, Table
<1>3. CASE /\ op.kind \in Updating \cup {"revoke_api_key", "delete_webhook"}
           /\ Found(l, op.id) = {} /\ reply = "false"
  <2>1. ~ Store!Present(op) /\ op.id \notin DOMAIN Table
    BY <1>1, <1>3
  <2>2. CASE op.kind \in Updating
    BY <1>3, <2>1, <2>2 DEF Store!Effect, Store!Updating, Updating, Table
  <2>3. CASE op.kind = "revoke_api_key"
    BY <1>3, <2>1, <2>3 DEF Store!Effect, Table
  <2>4. CASE op.kind = "delete_webhook"
    <3>1. Table = [id \in DOMAIN Table |-> Table[id]]
      BY PresentIs
    <3>2. DOMAIN Table \ {op.id} = DOMAIN Table
      BY <2>1
    <3>3. Store!Without({op.id}) = Table
      BY <3>1, <3>2 DEF Store!Without, Table
    <3> QED BY <1>3, <2>1, <2>4, <3>3 DEF Store!Effect, Table
  <2> QED BY <1>3, <2>2, <2>3, <2>4
<1>4. CASE /\ op.kind = "validate_api_key" /\ reply = "false"
           /\ \A i \in Found(l, op.id) : l[i].value = "revoked"
  <2>1. ~ (Store!Present(op) /\ Table[op.id] # "revoked")
    BY <1>1, <1>4
  <2> QED BY <1>4, <2>1 DEF Store!Effect, Table
<1>5. CASE /\ op.kind \in Reading
           /\ reply = IF Found(l, op.id) = {} THEN "false" ELSE "true"
  BY <1>1, <1>5 DEF Store!Effect, Store!Reading, Reading, Table
<1> QED BY <1>2, <1>3, <1>4, <1>5, OutcomeIs DEF reply

------------------------------------------------------------------------------
(* The steps of the store.                                                 *)
StoreStep == Store!Next \/ UNCHANGED Store!vars

LEMMA StoreDoes ==
    ASSUME TypeOK, harm = "none", harm' = "none", NEW op \in Operations,
           answer[op] = "none", NEW reply \in {"true", "false", "error"},
           answer' = [answer EXCEPT ![op] = reply], Store!Effect(op, reply)
    PROVE  StoreStep
<1>1. Store!Do(op)
  BY DEF Store!Do, Store!Answers
<1> QED BY <1>1 DEF StoreStep, Store!Next

LEMMA StoreDamaged ==
    ASSUME TypeOK', harm' # "none"
    PROVE  StoreStep
<1>1. Table' = Store!Empty
  BY DEF Table, TableOf, Store!Empty
<1>2. answer' \in [Operations -> {"none", "true", "false", "error", "lost"}]
  BY DEF TypeOK
<1>3. Store!Damage
  BY <1>1, <1>2 DEF Store!Damage, Store!Answers, Table
<1> QED BY <1>3 DEF StoreStep, Store!Next

LEMMA StoreStill ==
    ASSUME harm = "none", harm' = "none", Contents' = Contents, answer' = answer,
           about' = about
    PROVE  StoreStep
<1>1. Table' = Table
  BY DEF Table, TableOf, Shown
<1> QED BY <1>1 DEF StoreStep, Store!vars, Table

LEMMA StoreLoses ==
    ASSUME TypeOK', harm = "none", harm' = "none", Contents' = Contents, about' = about,
           \A op \in Operations : \/ answer'[op] = answer[op]
                                  \/ answer[op] = "none" /\ answer'[op] = "lost"
    PROVE  StoreStep
<1>1. Table' = Table
  BY DEF Table, TableOf, Shown
<1>2. answer' \in [Operations -> {"none", "true", "false", "error", "lost"}]
  BY DEF TypeOK
<1>3. Store!Lose
  BY <1>1, <1>2 DEF Store!Lose, Store!Answers, Table
<1> QED BY <1>3 DEF StoreStep, Store!Next

LEMMA StoreSteps ==
    ASSUME Base, Base', TornInv, [Next]_vars
    PROVE  StoreStep
<1>1. CASE harm' # "none"
  BY <1>1, StoreDamaged DEF Base
<1>2. CASE harm' = "none"
  <2> USE <1>2
  <2>2. ASSUME NEW a \in Actors, Finish(a)
        PROVE  StoreStep
    <3> DEFINE op == actor[a].op
               l == actor[a].copy
               m == actor[a].list
    <3>1. Replaced(a)
      BY <2>2, ContentsStep DEF Base
    <3>2. /\ harm = "none" /\ Contents = l /\ Contents' = m /\ InCall(a)
          /\ answer' = [answer EXCEPT ![op] = "true"]
      BY <2>2, <3>1 DEF Replaced, Sole, Finish, Base, Calls
    <3>3. /\ op \in Operations /\ answer[op] = "none" /\ Outcome(op, l).writes
          /\ m = Outcome(op, l).list /\ CollectionOf[op.kind] = about
      BY <3>2 DEF InCall
    <3>4. a \in Busy /\ l \in Seq(Record) /\ m \in Seq(Record)
      BY <2>2, <3>1 DEF Base, TypeOK, Replaced, Sole
    <3>5. about' = about
      BY AnswersStep DEF Base
    <3>6. Table = TableOf(l) /\ Table' = TableOf(m)
      BY <3>2, <3>5 DEF Table, TableOf, Shown
    <3>7. ASSUME NewIds PROVE Store!Effect(op, "true")
      <4>1. l \in UniqueLists /\ Made(l)
        BY <3>4, <3>7 DEF Base, Unique, Origins
      <4>2. op.kind \in Creating \cup Logging => Found(l, op.id) = {}
        BY <3>3, <3>7, <4>1, NewId DEF Base
      <4>3. m \in UniqueLists
        BY <3>3, <4>1, <4>2, OutcomeUnique
      <4> QED BY <3>3, <3>6, <4>1, <4>2, <4>3, WriteEffect
    <3>8. ASSUME ~ NewIds PROVE Store!Effect(op, "true")
      <4>1. about \in {"agents", "alerts", "events", "audit"}
        BY <3>8, KeysNew
      <4>2. op.kind \in Creating \cup Updating \cup Logging \cup Reading
        BY <3>3, <4>1, StorageAssumption
           DEF Operation, Kinds, CollectionOf, Creating, Updating, Logging, Reading
      <4>3. op.kind \notin Reading
        BY <3>3, OutcomeIs
           DEF Adds, Logs, Sets, Uses, Drops, Creating, Updating, Logging, Reading
      <4>4. CASE about \in {"events", "audit"}
        <5>1. op.kind \in Logging
          BY <3>3, <4>2, <4>3, <4>4 DEF CollectionOf, Creating, Updating, Logging, Reading
        <5>2. m = Trimmed(Append(l, RecordOf(op)))
          BY <3>3, <5>1, OutcomeIs
             DEF Adds, Logs, Sets, Uses, Drops, Creating, Updating, Logging
        <5>3. Store!Repeated(op.kind)
          <6>1. PICK o \in Operations, q \in Operations :
                   /\ o.kind \in Creating \cup Logging /\ CollectionOf[o.kind] = about
                   /\ q.kind = o.kind /\ q.id = o.id /\ q # o
            BY <3>8 DEF NewIds
          <6>2. o.kind = op.kind
            BY <3>3, <5>1, <6>1, OneMaker DEF Making
          <6> QED BY <6>1, <6>2 DEF Store!Repeated
        <5>4. Store!Logged(op)
          BY <3>3, <3>4, <3>6, <4>4, <5>2, <5>3, LogEffectAny
        <5> QED BY <5>1, <5>4 DEF Store!Effect, Store!Logging, Logging
      <4>5. CASE about \notin {"events", "audit"}
        <5>1. op.kind \in Creating \cup Updating
          BY <3>3, <4>2, <4>3, <4>5 DEF CollectionOf, Logging
        <5> QED BY <3>3, <3>4, <3>6, <4>5, <5>1, WriteEffectAny
      <4> QED BY <4>4, <4>5
    <3>9. Store!Effect(op, "true")
      BY <3>7, <3>8
    <3> QED BY <3>2, <3>3, <3>9, StoreDoes DEF Base
  <2>3. ASSUME NEW a \in Actors, NEW op \in Operations, Read(a, op)
        PROVE  StoreStep
    <3>1. harm = "none" /\ Busy = {} /\ answer[op] = "none" /\ about' = about
      BY <2>3 DEF Read, HarmOfRead, Worse, Pending
    <3>2. Contents = file
      BY <3>1, ContentsIs DEF Base
    <3>3. Contents' = Contents
      BY <2>3, ContentsStep DEF Base, ContentsStays
    <3>4. CASE Outcome(op, file).writes
      BY <2>3, <3>1, <3>3, <3>4, ReadActors, StoreStill DEF Base
    <3>5. CASE ~ Outcome(op, file).writes
      <4>1. file \in Seq(Record) /\ (op.kind = "validate_api_key" => file \in UniqueLists)
        <5>1. op.kind = "validate_api_key" => about = "api_keys"
          BY <2>3 DEF Read, Pending, CollectionOf
        <5> QED BY <5>1, KeysNew DEF Base, TypeOK, Unique, ListsIn
      <4>2. Table = TableOf(file) /\ Table' = Table
        BY <3>1, <3>2, <3>3 DEF Table, TableOf, Shown
      <4>3. Store!Effect(op, Outcome(op, file).reply)
        BY <3>5, <4>1, <4>2, ReadEffect
      <4>4. answer' = [answer EXCEPT ![op] = Outcome(op, file).reply]
        BY <2>3, <3>5, ReadActors DEF Base
      <4> QED BY <3>1, <4>3, <4>4, OutcomeIs, StoreDoes DEF Base
    <3> QED BY <3>4, <3>5
  <2>4. ASSUME NEW a \in Actors, NEW op \in Operations, ReadRaises(a, op)
        PROVE  FALSE
    <3>1. harm = "none" /\ Busy = {} /\ Starters = {}
      BY <2>4 DEF ReadRaises, HarmOfRead, Worse
    <3>2. Writers = {}
      BY <3>1 DEF Writers, Busy
    <3> QED BY <2>4, <3>1, <3>2 DEF ReadRaises, TornInv, TornOnlyByCollision
  <2>5. ASSUME NEW p \in Processes, Crash(p)
        PROVE  StoreStep
    <3>1. harm = "none" /\ Contents' = Contents
      <4>1. harm = "none"
        BY <2>5 DEF Crash
      <4>a. crashes' # crashes
        BY <2>5, StorageAssumption DEF Crash, Base, TypeOK
      <4>3. ~ \E a \in Actors : Replaced(a)
        BY <4>a DEF Replaced, Finish
      <4> QED BY <4>1, <4>3, ContentsStep DEF Base, ContentsStays
    <3>2. \A op \in Operations : \/ answer'[op] = answer[op]
                                 \/ answer[op] = "none" /\ answer'[op] = "lost"
      <4>1. \A op \in Operations : answer'[op] = answer[op] \/ answer'[op] = "lost"
        BY <2>5 DEF Crash
      <4>2. \A op \in Operations : answer'[op] # answer[op] => answer[op] = "none"
        BY AnswersStep DEF Base
      <4> QED BY <4>1, <4>2
    <3> QED BY <3>1, <3>2, StoreLoses, AnswersStep DEF Base
  <2>6. ASSUME UNCHANGED answer, ContentsStays
        PROVE  StoreStep
    BY <2>6, StoreStill, AnswersStep DEF ContentsStays, Base
  <2>7. ASSUME ~ \E a \in Actors : Finish(a)
        PROVE  ContentsStays
    BY <2>7, ContentsStep DEF Base, Replaced
  <2>8. ASSUME NEW a \in Actors, Truncate(a) \/ WritePart(a)
        PROVE  answer' = answer
    BY <2>8 DEF Truncate, WritePart
  <2>9. ASSUME NEW p \in Processes, Start(p) \/ Initialized(p) \/ Close(p)
        PROVE  answer' = answer
    BY <2>9 DEF Start, Initialized, Close
  <2>10. UNCHANGED vars => answer' = answer
    BY DEF vars
  <2> QED BY <2>2, <2>3, <2>4, <2>5, <2>6, <2>7, <2>8, <2>9, <2>10 DEF Next
<1> QED BY <1>1, <1>2

(* As long as operations on a file do not overlap, and no process starts   *)
(* once the file holds records, each call takes effect on the records at   *)
(* one moment and answers as StorageBackend promises, for any threads and  *)
(* processes, any ids (repeated ones too) and crashes that break off no    *)
(* write.                                                                  *)
THEOREM StorageImplementsStore == Spec => ImplementsStore
<1>1. ASSUME Init PROVE Store!Init
  <2>1. /\ \A a \in Actors : actor[a] = Idle
        /\ file = <<>> /\ harm = "none" /\ answer = [op \in Operations |-> "none"]
    BY <1>1 DEF Init
  <2>2. Contents = <<>>
    BY <2>1 DEF Contents, Writers, Idle
  <2>3. Table = Store!Empty
    BY <2>1, <2>2 DEF Table, TableOf, Store!Empty
  <2> QED BY <2>1, <2>3 DEF Store!Init, Table
<1>2. Base /\ Base' /\ TornInv /\ [Next]_vars => [Store!Next]_(Store!vars)
  BY StoreSteps DEF StoreStep
<1>3. ActorsOK /\ TornInv /\ [Next]_vars => (ActorsOK /\ TornInv)'
  BY ActorsStep, TornStep
<1> QED BY <1>1, <1>2, <1>3, TornInit, BaseHolds, PTL DEF Spec, ImplementsStore, Store!Spec

==============================================================================
