------------------------ MODULE PostgresStorage_proofs ------------------------
(***************************************************************************)
(* Proofs about PostgresStorage.  A step of an actor is read as what it    *)
(* does to its transaction (Turn, Lands, Aborts).  The inductive invariant *)
(* (Base) says what is known in each phase of a transaction: what became   *)
(* of its call, which rows it has written and that no other has, and what  *)
(* it wrote of them.  From it follow what the calls return, how many rows  *)
(* a day can get, and that the rows, as long as no day has two, are a      *)
(* RecordStore.                                                            *)
(***************************************************************************)
EXTENDS PostgresStorage, FiniteSetTheorems, FunctionTheorems, TLAPS

(* The shape of the state.                                                 *)
Phases == {"idle", "open", "insert", "aim", "update", "commit"}
Changes == UNION {[S -> Row] : S \in SUBSET Operations}
Outcomes == {"none", "true", "false", "error", "lost"}

Session == [phase : Phases, op : Operations \cup {NoOperation},
            targets : SUBSET Operations, change : Changes,
            reply : {"none", "true", "false"}]

Types ==
    /\ about \in Collections /\ created \in BOOLEAN
    /\ rows \in Changes
    /\ process \in [Processes -> {"down", "creating", "up"}]
    /\ session \in [Actors -> Session]
    /\ answer \in [Operations -> Outcomes]
    /\ settled \in [Operations -> Outcomes]
    /\ starts \in 0 .. MaxStarts /\ failures \in 0 .. MaxFailures

(* The transaction s, field by field.                                      *)
Is(s, ph, op, tg, ch, re) ==
    /\ s \in Session
    /\ s.phase = ph /\ s.op = op /\ s.targets = tg /\ s.change = ch /\ s.reply = re

(* The transaction of an actor becomes this one, the others stay.          *)
Becomes(a, ph, op, tg, ch, re) ==
    /\ session' \in [Actors -> Session]
    /\ Is(session'[a], ph, op, tg, ch, re)
    /\ \A b \in Actors : b # a => session'[b] = session[b]

(* Sets of rows with what is written of them.                              *)
LEMMA ChangesAre ==
    /\ NoRows \in Changes
    /\ \A f \in Changes : /\ DOMAIN f \subseteq Operations /\ f \in [DOMAIN f -> Row]
                          /\ \A r \in DOMAIN f : f[r] \in Row
    /\ \A S \in SUBSET Operations : \A f \in [S -> Row] : f \in Changes
<1>1. \A S \in SUBSET Operations : \A f \in [S -> Row] : f \in Changes
  BY Zenon DEF Changes
<1>2. ASSUME NEW f \in Changes
      PROVE  DOMAIN f \subseteq Operations /\ f \in [DOMAIN f -> Row]
  <2>1. PICK S \in SUBSET Operations : f \in [S -> Row]
    BY Zenon DEF Changes
  <2> QED BY <2>1
<1>3. NoRows \in [{} -> Row]
  BY DEF NoRows
<1> QED BY <1>1, <1>2, <1>3

LEMMA IdleSession == Idle \in Session
BY ChangesAre DEF Idle, Session, Phases, NoRows

(* What EXCEPT makes of a transaction.                                     *)
LEMMA Edited ==
    ASSUME NEW s \in Session, NEW ph \in Phases, NEW tg \in SUBSET Operations,
           NEW ch \in Changes, NEW re \in {"none", "true", "false"}
    PROVE  /\ Is(s, s.phase, s.op, s.targets, s.change, s.reply)
           /\ Is([s EXCEPT !.phase = ph], ph, s.op, s.targets, s.change, s.reply)
           /\ Is([s EXCEPT !.phase = ph, !.reply = re],
                 ph, s.op, s.targets, s.change, re)
           /\ Is([s EXCEPT !.phase = ph, !.targets = tg],
                 ph, s.op, tg, s.change, s.reply)
           /\ Is([s EXCEPT !.phase = ph, !.reply = re, !.change = ch],
                 ph, s.op, s.targets, ch, re)
<1>1. Is([s EXCEPT !.phase = ph], ph, s.op, s.targets, s.change, s.reply)
  BY DEF Session, Is
<1>2. Is([s EXCEPT !.phase = ph, !.reply = re], ph, s.op, s.targets, s.change, re)
  BY DEF Session, Is
<1>3. Is([s EXCEPT !.phase = ph, !.targets = tg], ph, s.op, tg, s.change, s.reply)
  BY DEF Session, Is
<1>4. Is([s EXCEPT !.phase = ph, !.reply = re, !.change = ch],
         ph, s.op, s.targets, ch, re)
  BY DEF Session, Is
<1>5. Is(s, s.phase, s.op, s.targets, s.change, s.reply)
  BY DEF Is
<1> QED BY <1>1, <1>2, <1>3, <1>4, <1>5

LEMMA SessionIn ==
    ASSUME Types, NEW a \in Actors
    PROVE  /\ session[a] \in Session
           /\ session[a].phase \in Phases /\ Op(a) \in Operations \cup {NoOperation}
           /\ session[a].targets \in SUBSET Operations /\ session[a].change \in Changes
           /\ session[a].reply \in {"none", "true", "false"}
BY DEF Types, Session, Op

LEMMA GoesTo ==
    ASSUME Types, NEW a \in Actors, NEW s, NEW ph, NEW op, NEW tg, NEW ch, NEW re,
           Is(s, ph, op, tg, ch, re), Goes(a, s)
    PROVE  Becomes(a, ph, op, tg, ch, re)
<1>1. session' = [session EXCEPT ![a] = s] /\ session \in [Actors -> Session]
  BY DEF Goes, Types
<1>2. s \in Session
  BY DEF Is
<1>3. session' \in [Actors -> Session] /\ session'[a] = s
      /\ \A b \in Actors : b # a => session'[b] = session[b]
  BY <1>1, <1>2
<1> QED BY <1>3 DEF Becomes

(* What the steps make of the transaction of their actor.                  *)
LEMMA BeginGoes ==
    ASSUME Types, NEW a \in Actors, NEW op \in Operations, Begin(a, op)
    PROVE  Becomes(a, "open", op, {}, NoRows, "none")
<1> DEFINE s == [Idle EXCEPT !.phase = "open", !.op = op]
<1>1. Is(s, "open", op, {}, NoRows, "none")
  BY ChangesAre DEF Idle, Is, Session, Phases
<1>2. Goes(a, s)
  BY DEF Begin
<1> QED BY <1>1, <1>2, GoesTo

LEMMA ReturnsGoes ==
    ASSUME Types, NEW a \in Actors, NEW reply, Returns(a, reply)
    PROVE  Becomes(a, "idle", NoOperation, {}, NoRows, "none")
<1>1. Is(Idle, "idle", NoOperation, {}, NoRows, "none")
  BY IdleSession DEF Idle, Is
<1>2. Goes(a, Idle)
  BY DEF Returns
<1> QED BY <1>1, <1>2, GoesTo

------------------------------------------------------------------------------
(* The inductive invariant.                                                *)
InsertingKinds == Creating \cup Logging \cup {"create_tenant", "update_daily_stats"}
UpdatingKinds == Updating \cup {"revoke_api_key", "delete_webhook",
                                "update_daily_stats", "validate_api_key"}

(* What became of a call before it updates: a key is valid once it is found. *)
Foreseen(op) == IF op.kind = "validate_api_key" THEN "true" ELSE "none"

(* The transactions that wait for their commit.                            *)
InsertsRow(a) ==
    /\ Op(a).kind \in InsertingKinds
    /\ session[a].change = [r \in {Op(a)} |-> [value |-> Op(a).value, active |-> TRUE]]
    /\ session[a].reply = "true" /\ settled[Op(a)] = "none"

UpdatesRows(a) ==
    /\ Op(a).kind \in UpdatingKinds
    /\ DOMAIN session[a].change # {}
    /\ DOMAIN session[a].change \subseteq Matching(Op(a))
    /\ \A r \in DOMAIN session[a].change :
          session[a].change[r] = Written(Op(a), rows[r])
    /\ session[a].reply = "true" /\ settled[Op(a)] = Foreseen(Op(a))

ChangesNothing(a) ==
    /\ DOMAIN session[a].change = {}
    /\ session[a].reply \in {"true", "false"} /\ settled[Op(a)] = session[a].reply

InPhase(a) ==
    /\ session[a].phase \in {"open", "insert"} => settled[Op(a)] = "none"
    /\ session[a].phase = "insert" =>
          Op(a).kind \in {"create_tenant", "update_daily_stats"}
    /\ session[a].phase = "aim" =>
          /\ Op(a).kind = "validate_api_key" /\ settled[Op(a)] = "true"
          /\ Matching(Op(a)) # {}
    /\ session[a].phase = "update" =>
          /\ Op(a).kind \in UpdatingKinds /\ settled[Op(a)] = Foreseen(Op(a))
          /\ session[a].targets # {}
          /\ DOMAIN session[a].change \subseteq session[a].targets
          /\ \A r \in DOMAIN session[a].change :
                session[a].change[r] = Written(Op(a), rows[r])
    /\ session[a].phase = "commit" =>
          InsertsRow(a) \/ UpdatesRows(a) \/ ChangesNothing(a)

SessionOK(a) ==
    /\ session[a].phase = "idle" => session[a] = Idle
    /\ session[a].phase # "idle" =>
          /\ Op(a) \in Operations /\ CollectionOf[Op(a).kind] = about
          /\ answer[Op(a)] = "none"
    /\ session[a].phase \notin {"update", "commit"} => DOMAIN session[a].change = {}
    /\ session[a].targets \subseteq Matching(Op(a))
    /\ InPhase(a)

SessionsOK == \A a \in Actors : SessionOK(a)

(* A row is of a call that has returned, and only keys and webhooks can be *)
(* inactive.                                                               *)
RowsOK ==
    \A r \in DOMAIN rows :
        /\ CollectionOf[r.kind] = about /\ answer[r] # "none"
        /\ rows[r].value # "revoked"
        /\ rows[r].active \/ about \in {"api_keys", "webhooks"}

(* Two transactions are about two calls and write different rows.          *)
Apart ==
    \A a, b \in Actors : a # b =>
        /\ a \in Open /\ b \in Open => Op(a) # Op(b)
        /\ DOMAIN session[a].change \cap DOMAIN session[b].change = {}

(* What became of a call is known before it returns only in its transaction. *)
Underway ==
    \A op \in Operations : settled[op] # "none" /\ answer[op] = "none"
                          => \E a \in Actors : Op(a) = op

Base == Types /\ SessionsOK /\ RowsOK /\ Apart /\ Underway

------------------------------------------------------------------------------
(* What a statement does, in its cases.                                    *)
Ends(a) == Becomes(a, "idle", NoOperation, {}, NoRows, "none")
MovesTo(a, ph) == Becomes(a, ph, Op(a), session[a].targets, session[a].change, session[a].reply)

Reads(a, reply) ==
    /\ session[a].phase = "open"
    /\ Op(a).kind \in Reading \cup {"validate_api_key"}
    /\ reply = IF Selected(Op(a)) # {} THEN "true" ELSE "false"
    /\ Becomes(a, "commit", Op(a), session[a].targets, session[a].change, reply)
    /\ settled' = [settled EXCEPT ![Op(a)] = reply] /\ answer' = answer

Finds(a) ==
    /\ session[a].phase = "open" /\ Op(a).kind = "validate_api_key"
    /\ Selected(Op(a)) # {}
    /\ MovesTo(a, "aim")
    /\ settled' = [settled EXCEPT ![Op(a)] = "true"] /\ answer' = answer

Conflicts(a, outcome) ==
    /\ session[a].phase \in {"open", "insert"}
    /\ Ends(a)
    /\ \/ outcome = "lost"
       \/ outcome = "error" /\ Op(a).kind = "create_tenant" /\ Matching(Op(a)) # {}
    /\ settled' = [settled EXCEPT ![Op(a)] = outcome]
    /\ answer' = [answer EXCEPT ![Op(a)] = "error"]

WillInsert(a) ==
    /\ session[a].phase = "open"
    /\ Op(a).kind \in {"create_tenant", "update_daily_stats"} /\ Matching(Op(a)) = {}
    /\ MovesTo(a, "insert")
    /\ settled' = settled /\ answer' = answer

Inserts(a) ==
    /\ session[a].phase \in {"open", "insert"} /\ Op(a).kind \in InsertingKinds
    /\ session[a].phase = "insert" \/ about # "stats"
    /\ Becomes(a, "commit", Op(a), session[a].targets,
               [r \in {Op(a)} |-> [value |-> Op(a).value, active |-> TRUE]], "true")
    /\ settled' = settled /\ answer' = answer

Aims(a) ==
    /\ session[a].phase \in {"open", "aim"} /\ Op(a).kind \in UpdatingKinds
    /\ session[a].phase = "aim" \/ Op(a).kind # "validate_api_key"
    /\ Matching(Op(a)) # {}
    /\ Becomes(a, "update", Op(a), Matching(Op(a)), session[a].change, session[a].reply)
    /\ settled' = settled /\ answer' = answer

Misses(a) ==
    /\ session[a].phase = "open"
    /\ Op(a).kind \in Updating \cup {"revoke_api_key", "delete_webhook"}
    /\ Matching(Op(a)) = {}
    /\ Becomes(a, "commit", Op(a), session[a].targets, session[a].change, "false")
    /\ settled' = [settled EXCEPT ![Op(a)] = "false"] /\ answer' = answer

WritesOneMore(a, ch) ==
    \E r \in session[a].targets \ Locked(a) :
        /\ DOMAIN ch = DOMAIN session[a].change \cup {r}
        /\ \A q \in DOMAIN ch : ch[q] = IF q = r THEN Written(Op(a), rows[r])
                                        ELSE session[a].change[q]

Updates(a) ==
    /\ session[a].phase = "update"
    /\ \E ph \in {"update", "commit"}, ch \in Changes :
          /\ WritesOneMore(a, ch)
          /\ Becomes(a, ph, Op(a), session[a].targets, ch, "true")
    /\ settled' = settled /\ answer' = answer

Turn(a) ==
    \/ \E reply \in {"true", "false"} : Reads(a, reply)
    \/ Finds(a) \/ WillInsert(a) \/ Inserts(a) \/ Aims(a) \/ Misses(a) \/ Updates(a)
    \/ \E outcome \in {"lost", "error"} : Conflicts(a, outcome)

LEMMA OpenCall ==
    ASSUME Types, SessionsOK, NEW a \in Actors, session[a].phase # "idle"
    PROVE  /\ Op(a) \in Operations /\ Op(a).kind \in Kinds
           /\ Op(a).id \in STRING /\ Op(a).value \in STRING \ {"revoked"}
           /\ answer[Op(a)] = "none" /\ CollectionOf[Op(a).kind] = about
BY PostgresAssumption DEF SessionsOK, SessionOK, Operation

LEMMA WrittenRow ==
    ASSUME NEW op, op.value \in STRING \ {"revoked"}, NEW row \in Row,
           row.value # "revoked"
    PROVE  /\ Written(op, row) \in Row
           /\ Written(op, row).value # "revoked"
           /\ op.kind \notin {"revoke_api_key", "delete_webhook"} /\ row.active =>
                 Written(op, row).active
<1>1. row \in Row /\ [row EXCEPT !.active = FALSE] \in Row
      /\ [row EXCEPT !.active = FALSE].value = row.value
  BY DEF Row
<1>2. row.active \in BOOLEAN /\ Restores(op) \in BOOLEAN
  BY DEF Row, Restores
<1>3. ASSUME NEW live \in BOOLEAN
      PROVE  /\ [value |-> op.value, active |-> live] \in Row
             /\ [value |-> op.value, active |-> live].value = op.value
             /\ [value |-> op.value, active |-> live].active = live
  BY DEF Row
<1> QED BY <1>1, <1>2, <1>3 DEF Written

LEMMA SelectTurn ==
    ASSUME Base, NEW a \in Actors, Select(a)
    PROVE  Turn(a)
<1> USE DEF Base
<1>1. /\ session[a].phase = "open" /\ settled[Op(a)] = "none" /\ session[a] \in Session
      /\ Op(a) = session[a].op
  BY SessionIn DEF Select, SessionsOK, SessionOK, InPhase, Op
<1>2. ASSUME NEW reply, reply = (IF Selected(Op(a)) # {} THEN "true" ELSE "false"),
             Op(a).kind \in Reading \cup {"validate_api_key"},
             Settle(Op(a), reply), answer' = answer,
             Goes(a, [session[a] EXCEPT !.phase = "commit", !.reply = reply])
      PROVE  Turn(a)
  <2>1. reply \in {"true", "false"}
    BY <1>2
  <2>2. Becomes(a, "commit", Op(a), session[a].targets, session[a].change, reply)
    BY <1>1, <1>2, <2>1, SessionIn, Edited, GoesTo DEF Phases
  <2>3. Reads(a, reply)
    BY <1>1, <1>2, <2>2 DEF Reads, Settle
  <2> QED BY <2>1, <2>3 DEF Turn
<1>3. ASSUME Op(a).kind = "validate_api_key", Selected(Op(a)) # {},
             Settle(Op(a), "true"), answer' = answer,
             Goes(a, [session[a] EXCEPT !.phase = "aim"])
      PROVE  Turn(a)
  <2>1. MovesTo(a, "aim")
    BY <1>1, <1>3, SessionIn, Edited, GoesTo DEF Phases, MovesTo
  <2> QED BY <1>1, <1>3, <2>1 DEF Turn, Finds, Settle
<1>4. ASSUME Op(a).kind = "create_tenant", Selected(Op(a)) # {},
             Settle(Op(a), "error"), Returns(a, "error")
      PROVE  Turn(a)
  <2>1. Ends(a)
    BY <1>4, ReturnsGoes DEF Ends
  <2>2. Matching(Op(a)) # {}
    BY <1>4 DEF Selected
  <2>3. Conflicts(a, "error")
    BY <1>1, <1>4, <2>1, <2>2 DEF Conflicts, Settle, Returns
  <2> QED BY <2>3 DEF Turn
<1>5. ASSUME Op(a).kind = "create_tenant", Selected(Op(a)) = {},
             Goes(a, [session[a] EXCEPT !.phase = "insert"]), UNCHANGED <<answer, settled>>
      PROVE  Turn(a)
  <2>1. MovesTo(a, "insert")
    BY <1>1, <1>5, SessionIn, Edited, GoesTo DEF Phases, MovesTo
  <2>2. Matching(Op(a)) = {}
    BY <1>5 DEF Selected
  <2> QED BY <1>1, <1>5, <2>1, <2>2 DEF Turn, WillInsert
<1> QED BY <1>2, <1>3, <1>4, <1>5 DEF Select

LEMMA InsertTurn ==
    ASSUME Base, NEW a \in Actors, Insert(a)
    PROVE  Turn(a)
<1> USE DEF Base
<1>1. /\ session[a].phase \in {"open", "insert"} /\ settled[Op(a)] = "none"
      /\ Op(a).kind \in InsertingKinds
      /\ session[a].phase = "insert" \/ Op(a).kind \in Creating \cup Logging
      /\ session[a] \in Session /\ Op(a) = session[a].op
  BY SessionIn DEF Insert, SessionsOK, SessionOK, InPhase, Op, InsertingKinds
<1>2. session[a].phase = "insert" \/ about # "stats"
  BY <1>1, OpenCall DEF CollectionOf, Creating, Logging
<1>3. Op(a) \in Operations /\ Op(a).value \in STRING
  BY <1>1, OpenCall
<1> DEFINE same == {r \in Operations : Op(a).kind \in Keyed /\ r.id = Op(a).id}
           new == [r \in {Op(a)} |-> [value |-> Op(a).value, active |-> TRUE]]
<1>4. ASSUME same \cap DOMAIN rows # {},
             Settle(Op(a), IF Op(a).kind = "create_tenant" THEN "error" ELSE "lost"),
             Returns(a, "error")
      PROVE  Turn(a)
  <2>1. Ends(a)
    BY <1>4, ReturnsGoes DEF Ends
  <2>2. Matching(Op(a)) # {}
    BY <1>4 DEF Matching
  <2>3. Conflicts(a, IF Op(a).kind = "create_tenant" THEN "error" ELSE "lost")
    BY <1>1, <1>4, <2>1, <2>2 DEF Conflicts, Settle, Returns
  <2> QED BY <2>3 DEF Turn
<1>5. ASSUME Goes(a, [session[a] EXCEPT !.phase = "commit", !.reply = "true",
                                        !.change = new]),
             UNCHANGED <<answer, settled>>
      PROVE  Turn(a)
  <2>1. new \in [{Op(a)} -> Row]
    BY <1>3 DEF Row
  <2>2. new \in Changes
    BY <2>1, <1>3, ChangesAre
  <2> HIDE DEF new
  <2>3. Becomes(a, "commit", Op(a), session[a].targets, new, "true")
    BY <1>1, <1>5, <2>2, SessionIn, Edited, GoesTo DEF Phases
  <2> QED BY <1>1, <1>2, <1>5, <2>3 DEF Turn, Inserts, new
<1> QED BY <1>4, <1>5 DEF Insert

LEMMA AimTurn ==
    ASSUME Base, NEW a \in Actors, Aim(a)
    PROVE  Turn(a)
<1> USE DEF Base
<1>1. /\ session[a] \in Session /\ Op(a) = session[a].op
      /\ \/ /\ session[a].phase = "open" /\ settled[Op(a)] = "none"
            /\ Op(a).kind \in Updating \cup
                  {"revoke_api_key", "delete_webhook", "update_daily_stats"}
         \/ /\ session[a].phase = "aim" /\ Matching(Op(a)) # {}
            /\ Op(a).kind = "validate_api_key"
      /\ Op(a).kind \in UpdatingKinds
  BY SessionIn DEF Aim, SessionsOK, SessionOK, InPhase, Op, UpdatingKinds
<1>2. ASSUME Matching(Op(a)) # {}, UNCHANGED <<answer, settled>>,
             Goes(a, [session[a] EXCEPT !.phase = "update", !.targets = Matching(Op(a))])
      PROVE  Turn(a)
  <2>1. Matching(Op(a)) \in SUBSET Operations
    BY ChangesAre DEF Matching, Types
  <2> DEFINE s == [session[a] EXCEPT !.phase = "update", !.targets = Matching(Op(a))]
  <2>0. Is(s, "update", Op(a), Matching(Op(a)), session[a].change, session[a].reply)
    BY <1>1, <2>1, SessionIn, Edited DEF Phases
  <2>2. Becomes(a, "update", Op(a), Matching(Op(a)), session[a].change, session[a].reply)
    <3> HIDE DEF s
    <3>1. Goes(a, s)
      BY <1>2 DEF s
    <3> QED BY <2>0, <3>1, GoesTo
  <2>3. Op(a).kind = "validate_api_key" => session[a].phase = "aim"
    BY <1>1 DEF Updating
  <2> QED BY <1>1, <1>2, <2>2, <2>3 DEF Turn, Aims
<1>3. ASSUME Matching(Op(a)) = {}, Op(a).kind = "update_daily_stats",
             UNCHANGED <<answer, settled>>,
             Goes(a, [session[a] EXCEPT !.phase = "insert"])
      PROVE  Turn(a)
  <2>1. MovesTo(a, "insert")
    BY <1>1, <1>3, SessionIn, Edited, GoesTo DEF Phases, MovesTo
  <2> QED BY <1>1, <1>3, <2>1 DEF Turn, WillInsert
<1>4. ASSUME Matching(Op(a)) = {}, Op(a).kind # "update_daily_stats",
             Settle(Op(a), "false"), UNCHANGED answer,
             Goes(a, [session[a] EXCEPT !.phase = "commit", !.reply = "false"])
      PROVE  Turn(a)
  <2>1. Becomes(a, "commit", Op(a), session[a].targets, session[a].change, "false")
    BY <1>1, <1>4, SessionIn, Edited, GoesTo DEF Phases
  <2> QED BY <1>1, <1>4, <2>1 DEF Turn, Misses, Settle
<1> QED BY <1>2, <1>3, <1>4 DEF Aim

LEMMA UpdateTurn ==
    ASSUME Base, NEW a \in Actors, Update(a)
    PROVE  Turn(a)
<1> USE DEF Base
<1>1. session[a].phase = "update" /\ session[a] \in Session /\ Op(a) = session[a].op
      /\ session[a].targets \subseteq DOMAIN rows
  BY SessionIn DEF Update, SessionsOK, SessionOK, Op, Matching
<1>2. Op(a).value \in STRING \ {"revoked"}
  BY <1>1, OpenCall
<1>3. PICK r \in Remaining(a) \ Locked(a) :
         Goes(a, [session[a] EXCEPT
             !.phase = IF Remaining(a) = {r} THEN "commit" ELSE "update",
             !.reply = "true",
             !.change = [q \in DOMAIN session[a].change \cup {r} |->
                IF q = r THEN Written(Op(a), rows[r]) ELSE session[a].change[q]]])
  BY DEF Update
<1> DEFINE new == [q \in DOMAIN session[a].change \cup {r} |->
                    IF q = r THEN Written(Op(a), rows[r]) ELSE session[a].change[q]]
           next == IF Remaining(a) = {r} THEN "commit" ELSE "update"
<1>4. r \in session[a].targets /\ r \in DOMAIN rows /\ r \in Operations
  BY <1>1, <1>3, SessionIn DEF Remaining
<1>5. Written(Op(a), rows[r]) \in Row
  BY <1>2, <1>4, WrittenRow, ChangesAre DEF Types, RowsOK
<1>6. new \in Changes
  <2>1. /\ DOMAIN session[a].change \subseteq Operations
        /\ \A q \in DOMAIN session[a].change : session[a].change[q] \in Row
    BY SessionIn, ChangesAre
  <2>2. new \in [DOMAIN session[a].change \cup {r} -> Row]
    BY <1>5, <2>1
  <2>3. DOMAIN session[a].change \cup {r} \in SUBSET Operations
    BY <1>4, <2>1
  <2> HIDE DEF new
  <2> QED BY <2>2, <2>3, ChangesAre
<1>7. WritesOneMore(a, new)
  BY <1>3, <1>4 DEF WritesOneMore
<1>8. next \in {"update", "commit"}
  OBVIOUS
<1>9. Goes(a, [session[a] EXCEPT !.phase = next, !.reply = "true", !.change = new])
  BY <1>3
<1> HIDE DEF new, next
<1>10. Becomes(a, next, Op(a), session[a].targets, new, "true")
  <2>1. next \in Phases /\ "true" \in {"none", "true", "false"}
    BY <1>8 DEF Phases
  <2>2. Is([session[a] EXCEPT !.phase = next, !.reply = "true", !.change = new],
           next, Op(a), session[a].targets, new, "true")
    BY <1>6, <2>1, SessionIn, Edited DEF Op
  <2> QED BY <1>1, <1>9, <2>2, GoesTo
<1>11. UNCHANGED <<answer, settled>>
  BY DEF Update
<1> QED BY <1>1, <1>6, <1>7, <1>8, <1>10, <1>11 DEF Turn, Updates

LEMMA StatementTurn ==
    ASSUME Base, NEW a \in Actors, Statement(a)
    PROVE  /\ Turn(a) /\ a \in Open
           /\ UNCHANGED <<about, created, rows, process, starts, failures>>
<1>1. Turn(a)
  BY SelectTurn, InsertTurn, AimTurn, UpdateTurn DEF Statement
<1>2. UNCHANGED <<about, created, rows, process, starts, failures>>
  BY DEF Statement, Select, Insert, Aim, Update
<1>3. a \in Open
  BY DEF Statement, Select, Insert, Aim, Update, Open
<1> QED BY <1>1, <1>2, <1>3

------------------------------------------------------------------------------
(* The end of a transaction.                                               *)
Lands(a) ==
    /\ session[a].phase = "commit" /\ Ends(a)
    /\ rows' = [r \in DOMAIN rows \cup DOMAIN session[a].change |->
          IF r \in DOMAIN session[a].change THEN session[a].change[r] ELSE rows[r]]
    /\ settled' = IF settled[Op(a)] = "none"
                  THEN [settled EXCEPT ![Op(a)] = session[a].reply] ELSE settled
    /\ \E reply \in {session[a].reply, "error"} :
          answer' = [answer EXCEPT ![Op(a)] = reply]
    /\ UNCHANGED <<about, created, process, starts>>

Aborts(a) ==
    /\ a \in Open /\ Ends(a)
    /\ settled' = IF settled[Op(a)] = "none"
                  THEN [settled EXCEPT ![Op(a)] = "lost"] ELSE settled
    /\ answer' = [answer EXCEPT ![Op(a)] = "error"]
    /\ UNCHANGED <<about, created, rows, process, starts>>

LEMMA LandsOrAborts ==
    ASSUME Base, NEW a \in Actors
    PROVE  /\ Commit(a) \/ CommitUnheard(a) => Lands(a)
           /\ Break(a) \/ Deadlock(a) => Aborts(a)
<1> USE DEF Base
<1>1. ASSUME NEW reply, Returns(a, reply)
      PROVE  Ends(a) /\ answer' = [answer EXCEPT ![Op(a)] = reply]
  BY <1>1, ReturnsGoes DEF Ends, Returns
<1>2. Commit(a) => Lands(a)
  BY <1>1 DEF Commit, Committed, Settle, Lands
<1>3. CommitUnheard(a) => Lands(a)
  BY <1>1 DEF CommitUnheard, Committed, Settle, Lands
<1>4. Break(a) => Aborts(a)
  BY <1>1 DEF Break, Settle, Aborts
<1>5. Deadlock(a) => Aborts(a)
  <2>1. Deadlock(a) => a \in Open
    BY DEF Deadlock, WaitsFor, Remaining, SessionsOK, SessionOK, Idle, Open
  <2> QED BY <1>1, <2>1 DEF Deadlock, Settle, Aborts
<1> QED BY <1>2, <1>3, <1>4, <1>5

(* A step of the system is one of these.                                   *)
Quiet == UNCHANGED <<about, rows, session, answer, settled>>

Begins(a, op) ==
    /\ a \notin Open /\ Pending(op)
    /\ Cardinality(Connections(ProcessOf[a])) < PoolSize
    /\ Becomes(a, "open", op, {}, NoRows, "none")
    /\ UNCHANGED <<about, rows, answer, settled>>

TimesOut(op) ==
    /\ Pending(op)
    /\ answer' = [answer EXCEPT ![op] = "error"]
    /\ settled' = IF settled[op] = "none" THEN [settled EXCEPT ![op] = "lost"] ELSE settled
    /\ UNCHANGED <<about, rows, session>>

Falls(p) ==
    /\ session' = [a \in Actors |-> IF ProcessOf[a] = p THEN Idle ELSE session[a]]
    /\ LET broken == {Op(a) : a \in Connections(p)}
       IN  /\ answer' = [op \in Operations |->
                 IF op \in broken THEN "lost" ELSE answer[op]]
           /\ settled' = [op \in Operations |->
                 IF op \in broken /\ settled[op] = "none" THEN "lost" ELSE settled[op]]
    /\ UNCHANGED <<about, rows>>

LEMMA Steps ==
    ASSUME Base, [Next]_vars
    PROVE  \/ Quiet
           \/ \E a \in Actors, op \in Operations : Begins(a, op)
           \/ \E op \in Operations : TimesOut(op)
           \/ \E a \in Actors : a \in Open /\ Turn(a) /\ UNCHANGED <<about, rows>>
           \/ \E a \in Actors : Lands(a) \/ Aborts(a)
           \/ \E p \in Processes : Falls(p)
<1>1. ASSUME NEW a \in Actors, NEW op \in Operations, Begin(a, op)
      PROVE  Begins(a, op)
  BY <1>1, BeginGoes DEF Begin, Begins, Base
<1>2. ASSUME NEW a \in Actors, NEW op \in Operations, PoolTimeout(a, op)
      PROVE  TimesOut(op)
  BY <1>2 DEF PoolTimeout, TimesOut, Settle
<1>3. ASSUME NEW p \in Processes, Crash(p)
      PROVE  Falls(p)
  BY <1>3 DEF Crash, Falls
<1>4. ASSUME NEW p \in Processes, Start(p) \/ Create(p) \/ Close(p)
      PROVE  Quiet
  BY <1>4 DEF Start, Create, Close, Quiet
<1>5. CASE UNCHANGED vars
  BY <1>5 DEF vars, Quiet
<1>6. ASSUME NEW a \in Actors, Statement(a)
      PROVE  a \in Open /\ Turn(a) /\ UNCHANGED <<about, rows>>
  BY <1>6, StatementTurn
<1> QED BY <1>1, <1>2, <1>3, <1>4, <1>5, <1>6, LandsOrAborts DEF Next

LEMMA NoCall == NoOperation \notin Operations
BY PostgresAssumption DEF NoOperation, Operation, Kinds, CollectionOf

(* The rows after a commit.                                                *)
LEMMA LandedRows ==
    ASSUME Base, NEW a \in Actors, Lands(a)
    PROVE  /\ rows' \in Changes
           /\ DOMAIN rows' = DOMAIN rows \cup DOMAIN session[a].change
           /\ \A r \in DOMAIN session[a].change : rows'[r] = session[a].change[r]
           /\ \A r \in DOMAIN rows \ DOMAIN session[a].change : rows'[r] = rows[r]
           /\ \A r \in DOMAIN session[a].change : r \in DOMAIN rows \/ r = Op(a)
<1> DEFINE ch == session[a].change
<1>1. ch \in Changes /\ rows \in Changes
  BY SessionIn DEF Base, Types
<1>2. /\ DOMAIN ch \subseteq Operations /\ \A r \in DOMAIN ch : ch[r] \in Row
      /\ DOMAIN rows \subseteq Operations /\ \A r \in DOMAIN rows : rows[r] \in Row
  BY <1>1, ChangesAre
<1>3. rows' = [r \in DOMAIN rows \cup DOMAIN ch |->
                  IF r \in DOMAIN ch THEN ch[r] ELSE rows[r]]
  BY DEF Lands
<1>4. \A r \in DOMAIN ch : r \in DOMAIN rows \/ r = Op(a)
  <2>1. InsertsRow(a) \/ UpdatesRows(a) \/ ChangesNothing(a)
    BY DEF Lands, Base, SessionsOK, SessionOK, InPhase
  <2>2. InsertsRow(a) => DOMAIN ch = {Op(a)}
    BY DEF InsertsRow
  <2>3. UpdatesRows(a) => DOMAIN ch \subseteq DOMAIN rows
    BY DEF UpdatesRows, Matching
  <2>4. ChangesNothing(a) => DOMAIN ch = {}
    BY DEF ChangesNothing
  <2> HIDE DEF ch
  <2> QED BY <2>1, <2>2, <2>3, <2>4
<1> HIDE DEF ch
<1>5. rows' \in [DOMAIN rows \cup DOMAIN ch -> Row]
  BY <1>2, <1>3
<1>6. rows' \in Changes
  BY <1>2, <1>5, ChangesAre
<1>7. /\ DOMAIN rows' = DOMAIN rows \cup DOMAIN ch
      /\ \A r \in DOMAIN ch : rows'[r] = ch[r]
      /\ \A r \in DOMAIN rows \ DOMAIN ch : rows'[r] = rows[r]
  BY <1>3
<1> QED BY <1>4, <1>6, <1>7 DEF ch

(* What a step makes of the bounded counters.                              *)
Counted ==
    /\ starts' = starts \/ (starts < MaxStarts /\ starts' = starts + 1)
    /\ failures' = failures \/ (failures < MaxFailures /\ failures' = failures + 1)

LEMMA TypesStep ==
    ASSUME Base, [Next]_vars
    PROVE  Types'
<1>1. /\ about' \in Collections /\ created' \in BOOLEAN
      /\ process' \in [Processes -> {"down", "creating", "up"}]
  <2>1. /\ about \in Collections /\ created \in BOOLEAN
        /\ process \in [Processes -> {"down", "creating", "up"}]
    BY DEF Base, Types
  <2>2. CASE UNCHANGED <<about, created, process>>
    BY <2>1, <2>2
  <2>3. ASSUME NEW p \in Processes, Start(p) \/ Create(p) \/ Close(p) \/ Crash(p)
        PROVE  /\ about' \in Collections /\ created' \in BOOLEAN
               /\ process' \in [Processes -> {"down", "creating", "up"}]
    BY <2>1, <2>3 DEF Start, Create, Close, Crash
  <2>4. ASSUME NEW a \in Actors,
               \/ Statement(a) \/ Deadlock(a) \/ Commit(a) \/ CommitUnheard(a) \/ Break(a)
               \/ \E op \in Operations : Begin(a, op) \/ PoolTimeout(a, op)
        PROVE  UNCHANGED <<about, created, process>>
    BY <2>4 DEF Begin, PoolTimeout, Statement, Select, Insert, Aim, Update,
                Deadlock, Commit, CommitUnheard, Committed, Break
  <2>5. UNCHANGED vars => UNCHANGED <<about, created, process>>
    BY DEF vars
  <2> QED BY <2>2, <2>3, <2>4, <2>5 DEF Next
<1>2. starts' \in 0 .. MaxStarts /\ failures' \in 0 .. MaxFailures
  <2>1. ASSUME NEW a \in Actors,
               \/ Statement(a) \/ Deadlock(a) \/ Commit(a) \/ CommitUnheard(a) \/ Break(a)
               \/ \E op \in Operations : Begin(a, op) \/ PoolTimeout(a, op)
        PROVE  Counted
    BY <2>1 DEF Counted, Begin, PoolTimeout, Statement, Select, Insert, Aim, Update,
                Deadlock, Commit, CommitUnheard, Committed, Break
  <2>2. ASSUME NEW p \in Processes, Start(p) \/ Create(p) \/ Close(p) \/ Crash(p)
        PROVE  Counted
    BY <2>2 DEF Counted, Start, Create, Close, Crash
  <2>3. UNCHANGED vars => Counted
    BY DEF vars, Counted
  <2>4. Counted
    BY <2>1, <2>2, <2>3 DEF Next
  <2> QED BY <2>4, PostgresAssumption DEF Base, Types, Counted
<1>3. rows' \in Changes
  BY Steps, LandedRows DEF Base, Types, Quiet, Begins, TimesOut, Aborts, Falls
<1>4. session' \in [Actors -> Session]
  <2>1. ASSUME NEW a \in Actors, Turn(a)
        PROVE  session' \in [Actors -> Session]
    BY <2>1 DEF Turn, Reads, Finds, Conflicts, WillInsert, Inserts, Aims, Misses,
                Updates, MovesTo, Ends, Becomes
  <2>2. ASSUME NEW a \in Actors, Lands(a) \/ Aborts(a)
        PROVE  session' \in [Actors -> Session]
    BY <2>2 DEF Lands, Aborts, Ends, Becomes
  <2>3. ASSUME NEW p \in Processes, Falls(p)
        PROVE  session' \in [Actors -> Session]
    BY <2>3, IdleSession DEF Base, Types, Falls
  <2>4. ASSUME NEW a \in Actors, NEW op \in Operations, Begins(a, op)
        PROVE  session' \in [Actors -> Session]
    BY <2>4 DEF Begins, Becomes
  <2>5. session \in [Actors -> Session]
    BY DEF Base, Types
  <2> QED BY <2>1, <2>2, <2>3, <2>4, <2>5, Steps DEF Quiet, TimesOut
<1>5. answer' \in [Operations -> Outcomes] /\ settled' \in [Operations -> Outcomes]
  <2>0. answer \in [Operations -> Outcomes] /\ settled \in [Operations -> Outcomes]
        /\ \A a \in Actors : session[a].reply \in {"none", "true", "false"}
    BY SessionIn DEF Base, Types
  <2>1. ASSUME NEW a \in Actors, Turn(a)
        PROVE  answer' \in [Operations -> Outcomes] /\ settled' \in [Operations -> Outcomes]
    BY <2>0, <2>1 DEF Turn, Reads, Finds, Conflicts, WillInsert, Inserts, Aims, Misses,
                Updates, Outcomes
  <2>2. ASSUME NEW a \in Actors, Lands(a) \/ Aborts(a)
        PROVE  answer' \in [Operations -> Outcomes] /\ settled' \in [Operations -> Outcomes]
    BY <2>0, <2>2 DEF Lands, Aborts, Outcomes
  <2>3. ASSUME NEW p \in Processes, Falls(p)
        PROVE  answer' \in [Operations -> Outcomes] /\ settled' \in [Operations -> Outcomes]
    BY <2>0, <2>3 DEF Falls, Outcomes
  <2>4. ASSUME NEW op \in Operations, TimesOut(op)
        PROVE  answer' \in [Operations -> Outcomes] /\ settled' \in [Operations -> Outcomes]
    BY <2>0, <2>4 DEF TimesOut, Outcomes
  <2> QED BY <2>0, <2>1, <2>2, <2>3, <2>4, Steps DEF Quiet, Begins
<1> QED BY <1>1, <1>2, <1>3, <1>4, <1>5 DEF Types

(* A transaction is not disturbed by the others.                           *)
LEMMA Undisturbed ==
    ASSUME Base, NEW b \in Actors, session'[b] = session[b], about' = about,
           b \in Open => /\ answer'[Op(b)] = answer[Op(b)]
                         /\ settled'[Op(b)] = settled[Op(b)],
           DOMAIN rows \subseteq DOMAIN rows',
           \A r \in DOMAIN session[b].change \cap DOMAIN rows : rows'[r] = rows[r]
    PROVE  SessionOK(b)'
<1>1. SessionOK(b)
  BY DEF Base, SessionsOK
<1>2. Op(b)' = Op(b) /\ session'[b] = session[b]
  BY DEF Op
<1>3. Matching(Op(b)) \subseteq Matching(Op(b))'
  BY <1>2 DEF Matching
<1>4. CASE b \notin Open
  <2>1. session[b] = Idle
    BY <1>1, <1>4 DEF SessionOK, Open
  <2> QED BY <1>2, <2>1 DEF SessionOK, InPhase, Idle, NoRows
<1>5. CASE b \in Open
  <2>1. answer'[Op(b)] = answer[Op(b)] /\ settled'[Op(b)] = settled[Op(b)]
    BY <1>5
  <2>2. InsertsRow(b) => InsertsRow(b)'
    BY <1>2, <2>1 DEF InsertsRow
  <2>3. UpdatesRows(b) => UpdatesRows(b)'
    <3> SUFFICES ASSUME UpdatesRows(b) PROVE UpdatesRows(b)'
      OBVIOUS
    <3>1. DOMAIN session[b].change \subseteq Matching(Op(b))
          /\ Matching(Op(b)) \subseteq DOMAIN rows
      BY DEF UpdatesRows, Matching
    <3>2. \A r \in DOMAIN session[b].change : rows'[r] = rows[r]
      BY <3>1
    <3>3. \A r \in DOMAIN session'[b].change :
             session'[b].change[r] = Written(Op(b)', rows'[r])
      BY <1>2, <3>2 DEF UpdatesRows
    <3> QED BY <1>2, <1>3, <2>1, <3>1, <3>3 DEF UpdatesRows, Written
  <2>4. ChangesNothing(b) => ChangesNothing(b)'
    BY <1>2, <2>1 DEF ChangesNothing
  <2>a. ASSUME session[b].phase = "update"
        PROVE  \A r \in DOMAIN session'[b].change :
                  session'[b].change[r] = Written(Op(b)', rows'[r])
    <3>1. /\ DOMAIN session[b].change \subseteq DOMAIN rows
          /\ \A r \in DOMAIN session[b].change :
                session[b].change[r] = Written(Op(b), rows[r])
      BY <1>1, <2>a DEF SessionOK, InPhase, Matching
    <3>2. \A r \in DOMAIN session[b].change : rows'[r] = rows[r]
      BY <3>1
    <3> QED BY <1>2, <3>1, <3>2
  <2>5. InPhase(b)'
    BY <1>1, <1>2, <1>3, <2>1, <2>2, <2>3, <2>4, <2>a DEF SessionOK, InPhase, Written
  <2> QED BY <1>1, <1>2, <1>3, <2>1, <2>5 DEF SessionOK
<1> QED BY <1>4, <1>5

(* Who is under way is about a call that has not returned, and about that  *)
(* one alone.                                                              *)
LEMMA OthersOpen ==
    ASSUME Base, NEW a \in Actors, NEW b \in Actors, a # b, b \in Open,
           Op(a) \in Operations
    PROVE  Op(b) \in Operations /\ Op(b) # Op(a)
<1>1. Op(b) \in Operations
  BY OpenCall DEF Base, Open
<1>2. a \in Open
  BY NoCall DEF Base, SessionsOK, SessionOK, Open, Idle, Op
<1> QED BY <1>1, <1>2 DEF Base, Apart

LEMMA TurnSession ==
    ASSUME Base, NEW a \in Actors, a \in Open, Turn(a), UNCHANGED <<about, rows>>
    PROVE  SessionOK(a)'
<1> USE DEF Base
<1>1. /\ Op(a) \in Operations /\ CollectionOf[Op(a).kind] = about
      /\ answer[Op(a)] = "none" /\ settled \in [Operations -> Outcomes]
      /\ answer \in [Operations -> Outcomes]
  BY OpenCall DEF Open, Types
<1>2. SessionOK(a)
  BY DEF SessionsOK
<1>4. \A op : Matching(op)' = Matching(op)
  BY DEF Matching
<1>5. Op(a)' = session'[a].op
  BY DEF Op
<1>6. DOMAIN NoRows = {}
  BY DEF NoRows
<1>7. ASSUME NEW reply \in {"true", "false"}, Reads(a, reply)
      PROVE  SessionOK(a)'
  <2>1. /\ session'[a].phase = "commit" /\ session'[a].op = Op(a)
        /\ session'[a].targets = session[a].targets
        /\ session'[a].change = session[a].change /\ session'[a].reply = reply
        /\ settled'[Op(a)] = reply /\ answer' = answer
        /\ DOMAIN session[a].change = {}
    BY <1>1, <1>2, <1>7 DEF Reads, Becomes, Is, SessionOK
  <2>2. ChangesNothing(a)'
    BY <1>5, <2>1 DEF ChangesNothing
  <2> QED BY <1>1, <1>2, <1>4, <1>5, <2>1, <2>2 DEF SessionOK, InPhase
<1>8. ASSUME Finds(a)
      PROVE  SessionOK(a)'
  <2>1. /\ session'[a].phase = "aim" /\ session'[a].op = Op(a)
        /\ session'[a].targets = session[a].targets
        /\ session'[a].change = session[a].change
        /\ settled'[Op(a)] = "true" /\ answer' = answer
        /\ DOMAIN session[a].change = {} /\ Op(a).kind = "validate_api_key"
    BY <1>1, <1>2, <1>8 DEF Finds, MovesTo, Becomes, Is, SessionOK
  <2>2. Matching(Op(a)) # {}
    BY <1>8 DEF Finds, Selected
  <2> QED BY <1>1, <1>2, <1>4, <1>5, <2>1, <2>2 DEF SessionOK, InPhase
<1>9. ASSUME NEW outcome, Conflicts(a, outcome)
      PROVE  SessionOK(a)'
  <2>1. /\ session'[a].phase = "idle" /\ session'[a].op = NoOperation
        /\ session'[a].targets = {} /\ session'[a].change = NoRows
        /\ session'[a].reply = "none" /\ session'[a] \in Session
    BY <1>9 DEF Conflicts, Ends, Becomes, Is
  <2>2. session'[a] = Idle
    BY <2>1 DEF Session, Idle
  <2> QED BY <1>6, <2>1, <2>2 DEF SessionOK, InPhase
<1>10. ASSUME WillInsert(a)
       PROVE  SessionOK(a)'
  <2>1. /\ session'[a].phase = "insert" /\ session'[a].op = Op(a)
        /\ session'[a].targets = session[a].targets
        /\ session'[a].change = session[a].change
        /\ settled' = settled /\ answer' = answer
        /\ DOMAIN session[a].change = {} /\ settled[Op(a)] = "none"
        /\ Op(a).kind \in {"create_tenant", "update_daily_stats"}
    BY <1>1, <1>2, <1>10 DEF WillInsert, MovesTo, Becomes, Is, SessionOK, InPhase
  <2> QED BY <1>1, <1>2, <1>4, <1>5, <2>1 DEF SessionOK, InPhase
<1>11. ASSUME Inserts(a)
       PROVE  SessionOK(a)'
  <2>1. /\ session'[a].phase = "commit" /\ session'[a].op = Op(a)
        /\ session'[a].targets = session[a].targets
        /\ session'[a].change = [r \in {Op(a)} |-> [value |-> Op(a).value, active |-> TRUE]]
        /\ session'[a].reply = "true"
        /\ settled' = settled /\ answer' = answer /\ settled[Op(a)] = "none"
        /\ Op(a).kind \in InsertingKinds
    BY <1>1, <1>2, <1>11 DEF Inserts, Becomes, Is, SessionOK, InPhase
  <2>2. InsertsRow(a)'
    BY <1>5, <2>1 DEF InsertsRow
  <2> QED BY <1>1, <1>2, <1>4, <1>5, <2>1, <2>2 DEF SessionOK, InPhase
<1>12. ASSUME Aims(a)
       PROVE  SessionOK(a)'
  <2>1. /\ session'[a].phase = "update" /\ session'[a].op = Op(a)
        /\ session'[a].targets = Matching(Op(a)) /\ Matching(Op(a)) # {}
        /\ session'[a].change = session[a].change
        /\ settled' = settled /\ answer' = answer
        /\ DOMAIN session[a].change = {} /\ settled[Op(a)] = Foreseen(Op(a))
        /\ Op(a).kind \in UpdatingKinds
    BY <1>1, <1>2, <1>12 DEF Aims, Becomes, Is, SessionOK, InPhase, Foreseen
  <2> QED BY <1>1, <1>2, <1>4, <1>5, <2>1 DEF SessionOK, InPhase
<1>13. ASSUME Misses(a)
       PROVE  SessionOK(a)'
  <2>1. /\ session'[a].phase = "commit" /\ session'[a].op = Op(a)
        /\ session'[a].targets = session[a].targets
        /\ session'[a].change = session[a].change /\ session'[a].reply = "false"
        /\ settled'[Op(a)] = "false" /\ answer' = answer
        /\ DOMAIN session[a].change = {}
    BY <1>1, <1>2, <1>13 DEF Misses, Becomes, Is, SessionOK
  <2>2. ChangesNothing(a)'
    BY <1>5, <2>1 DEF ChangesNothing
  <2> QED BY <1>1, <1>2, <1>4, <1>5, <2>1, <2>2 DEF SessionOK, InPhase
<1>14. ASSUME Updates(a)
       PROVE  SessionOK(a)'
  <2>0. PICK ph \in {"update", "commit"}, ch \in Changes :
           /\ WritesOneMore(a, ch)
           /\ Becomes(a, ph, Op(a), session[a].targets, ch, "true")
    BY <1>14 DEF Updates
  <2>1. /\ session'[a].phase = ph /\ session'[a].op = Op(a)
        /\ session'[a].targets = session[a].targets
        /\ session'[a].change = ch /\ session'[a].reply = "true"
    BY <2>0 DEF Becomes, Is
  <2>2. /\ settled' = settled /\ answer' = answer /\ settled[Op(a)] = Foreseen(Op(a))
        /\ Op(a).kind \in UpdatingKinds
        /\ session[a].targets # {} /\ session[a].targets \subseteq Matching(Op(a))
        /\ DOMAIN session[a].change \subseteq session[a].targets
        /\ \A q \in DOMAIN session[a].change : session[a].change[q] = Written(Op(a), rows[q])
    BY <1>2, <1>14 DEF Updates, SessionOK, InPhase
  <2>3. PICK r \in session[a].targets :
           /\ DOMAIN ch = DOMAIN session[a].change \cup {r}
           /\ \A q \in DOMAIN ch : ch[q] = IF q = r THEN Written(Op(a), rows[r])
                                           ELSE session[a].change[q]
    BY <2>0 DEF WritesOneMore
  <2>4. /\ DOMAIN ch # {} /\ DOMAIN ch \subseteq session[a].targets
        /\ \A q \in DOMAIN ch : ch[q] = Written(Op(a), rows[q])
    BY <2>2, <2>3
  <2>5. Op(a)' = Op(a) /\ rows' = rows
    BY <1>5, <2>1
  <2>6. UpdatesRows(a)'
    BY <1>4, <2>1, <2>2, <2>4, <2>5 DEF UpdatesRows, Written
  <2> QED BY <1>1, <1>2, <1>4, <2>1, <2>2, <2>4, <2>5, <2>6 DEF SessionOK, InPhase, Written
<1> QED BY <1>7, <1>8, <1>9, <1>10, <1>11, <1>12, <1>13, <1>14 DEF Turn

LEMMA EndedSession ==
    ASSUME NEW a \in Actors, Ends(a)
    PROVE  SessionOK(a)' /\ session'[a] = Idle
<1>1. /\ session'[a].phase = "idle" /\ session'[a].op = NoOperation
      /\ session'[a].targets = {} /\ session'[a].change = NoRows
      /\ session'[a].reply = "none" /\ session'[a] \in Session
  BY DEF Ends, Becomes, Is
<1>2. session'[a] = Idle
  BY <1>1 DEF Session, Idle
<1> QED BY <1>1, <1>2 DEF SessionOK, InPhase, NoRows

LEMMA SessionsStep ==
    ASSUME Base, [Next]_vars
    PROVE  SessionsOK'
<1> USE DEF Base
<1>0. SessionsOK' = \A b \in Actors : SessionOK(b)'
  BY DEF SessionsOK
<1>1. CASE Quiet
  BY <1>0, <1>1, Undisturbed DEF Quiet
<1>2. ASSUME NEW a \in Actors, NEW op \in Operations, Begins(a, op)
      PROVE  SessionsOK'
  <2>1. SessionOK(a)'
    <3>1. /\ session'[a].phase = "open" /\ session'[a].op = op
          /\ session'[a].targets = {} /\ session'[a].change = NoRows
          /\ answer' = answer /\ settled' = settled /\ about' = about
      BY <1>2 DEF Begins, Becomes, Is
    <3>2. CollectionOf[op.kind] = about /\ answer[op] = "none" /\ settled[op] = "none"
      BY <1>2 DEF Begins, Pending, Underway
    <3>3. Op(a)' = op
      BY <3>1 DEF Op
    <3> QED BY <3>1, <3>2, <3>3 DEF SessionOK, InPhase, NoRows
  <2>2. ASSUME NEW b \in Actors, b # a
        PROVE  SessionOK(b)'
    BY <1>2, <2>2, Undisturbed DEF Begins, Becomes
  <2> QED BY <1>0, <2>1, <2>2
<1>3. ASSUME NEW op \in Operations, TimesOut(op)
      PROVE  SessionsOK'
  <2>1. ASSUME NEW b \in Actors
        PROVE  SessionOK(b)'
    <3>1. b \in Open => Op(b) \in Operations /\ Op(b) # op
      BY <1>3, OpenCall DEF Open, TimesOut, Pending
    <3>2. b \in Open => answer'[Op(b)] = answer[Op(b)] /\ settled'[Op(b)] = settled[Op(b)]
      BY <1>3, <3>1 DEF TimesOut, Types
    <3> QED BY <1>3, <3>2, Undisturbed DEF TimesOut
  <2> QED BY <1>0, <2>1
<1>4. ASSUME NEW a \in Actors, a \in Open, Turn(a), UNCHANGED <<about, rows>>
      PROVE  SessionsOK'
  <2>1. ASSUME NEW b \in Actors, b # a
        PROVE  SessionOK(b)'
    <3>0. Op(a) \in Operations
      BY <1>4, OpenCall DEF Open
    <3>1. b \in Open => Op(b) \in Operations /\ Op(b) # Op(a)
      BY <2>1, <3>0, OthersOpen
    <3>2. session'[b] = session[b]
      BY <1>4, <2>1 DEF Turn, Reads, Finds, Conflicts, WillInsert, Inserts, Aims,
                        Misses, Updates, Ends, MovesTo, Becomes
    <3>3. b \in Open => answer'[Op(b)] = answer[Op(b)] /\ settled'[Op(b)] = settled[Op(b)]
      BY <1>4, <3>0, <3>1 DEF Turn, Reads, Finds, Conflicts, WillInsert, Inserts, Aims,
                        Misses, Updates, Types
    <3> QED BY <1>4, <3>2, <3>3, Undisturbed
  <2> QED BY <1>0, <1>4, <2>1, TurnSession
<1>5. ASSUME NEW a \in Actors, Lands(a) \/ Aborts(a)
      PROVE  SessionsOK'
  <2>0. Op(a) \in Operations /\ Ends(a) /\ about' = about
    BY <1>5, OpenCall DEF Open, Lands, Aborts
  <2>1. ASSUME NEW b \in Actors, b # a
        PROVE  SessionOK(b)'
    <3>1. b \in Open => Op(b) \in Operations /\ Op(b) # Op(a)
      BY <2>0, <2>1, OthersOpen
    <3>2. session'[b] = session[b]
      BY <2>0, <2>1 DEF Ends, Becomes
    <3>3. b \in Open => answer'[Op(b)] = answer[Op(b)] /\ settled'[Op(b)] = settled[Op(b)]
      BY <1>5, <2>0, <3>1 DEF Lands, Aborts, Types
    <3>4. CASE Lands(a)
      <4>1. DOMAIN rows \subseteq DOMAIN rows'
            /\ \A r \in DOMAIN rows \ DOMAIN session[a].change : rows'[r] = rows[r]
        BY <3>4, LandedRows
      <4>2. DOMAIN session[a].change \cap DOMAIN session[b].change = {}
        BY <2>1 DEF Apart
      <4>3. \A r \in DOMAIN session[b].change \cap DOMAIN rows : rows'[r] = rows[r]
        BY <4>1, <4>2
      <4> QED BY <2>0, <3>2, <3>3, <4>1, <4>3, Undisturbed
    <3>5. CASE Aborts(a)
      <4>1. rows' = rows
        BY <3>5 DEF Aborts
      <4> QED BY <2>0, <3>2, <3>3, <4>1, Undisturbed
    <3> QED BY <1>5, <3>4, <3>5
  <2> QED BY <1>0, <2>0, <2>1, EndedSession
<1>6. ASSUME NEW p \in Processes, Falls(p)
      PROVE  SessionsOK'
  <2>1. ASSUME NEW b \in Actors, ProcessOf[b] = p
        PROVE  SessionOK(b)'
    BY <1>6, <2>1 DEF Falls, SessionOK, InPhase, Idle, NoRows
  <2>2. ASSUME NEW b \in Actors, ProcessOf[b] # p
        PROVE  SessionOK(b)'
    <3>1. session'[b] = session[b]
      BY <1>6, <2>2 DEF Falls
    <3>2. b \in Open => Op(b) \in Operations
      BY OpenCall DEF Open
    <3>3. b \in Open => Op(b) \notin {Op(a) : a \in Connections(p)}
      BY <2>2 DEF Connections, Apart, Open
    <3>4. b \in Open => answer'[Op(b)] = answer[Op(b)] /\ settled'[Op(b)] = settled[Op(b)]
      BY <1>6, <3>2, <3>3 DEF Falls
    <3> QED BY <1>6, <3>1, <3>4, Undisturbed DEF Falls
  <2> QED BY <1>0, <2>1, <2>2
<1> QED BY <1>1, <1>2, <1>3, <1>4, <1>5, <1>6, Steps

(* What a call returned, and what became of it, is never revised; and a    *)
(* reply but an error is what became of it.                                *)
LEMMA HistoryStays ==
    ASSUME Base, [Next]_vars, NEW op \in Operations
    PROVE  /\ answer[op] # "none" => answer'[op] = answer[op]
           /\ settled[op] # "none" => settled'[op] = settled[op]
           /\ answer[op] = "none" /\ answer'[op] \in {"true", "false"}
              => answer'[op] = settled'[op]
<1> DEFINE Goal == /\ answer[op] # "none" => answer'[op] = answer[op]
                   /\ settled[op] # "none" => settled'[op] = settled[op]
                   /\ answer[op] = "none" /\ answer'[op] \in {"true", "false"}
                      => answer'[op] = settled'[op]
<1>0. answer \in [Operations -> Outcomes] /\ settled \in [Operations -> Outcomes]
  BY DEF Base, Types
<1>1. ASSUME NEW a \in Actors, a \in Open, Turn(a)
      PROVE  Goal
  <2>1. Op(a) \in Operations /\ answer[Op(a)] = "none"
        /\ (session[a].phase \in {"open", "insert"} => settled[Op(a)] = "none")
    BY <1>1, OpenCall DEF Base, Open, SessionsOK, SessionOK, InPhase
  <2> QED BY <1>0, <1>1, <2>1 DEF Turn, Reads, Finds, Conflicts, WillInsert, Inserts,
             Aims, Misses, Updates
<1>2. ASSUME NEW a \in Actors, Lands(a)
      PROVE  Goal
  <2>1. Op(a) \in Operations /\ answer[Op(a)] = "none" /\ session[a].phase = "commit"
    BY <1>2, OpenCall DEF Base, Lands
  <2>2. settled[Op(a)] \in {"none", session[a].reply}
    BY <2>1 DEF Base, SessionsOK, SessionOK, InPhase, InsertsRow, UpdatesRows,
                ChangesNothing, Foreseen
  <2> QED BY <1>0, <1>2, <2>1, <2>2 DEF Lands
<1>3. ASSUME NEW a \in Actors, Aborts(a)
      PROVE  Goal
  <2>1. Op(a) \in Operations /\ answer[Op(a)] = "none"
    BY <1>3, OpenCall DEF Base, Open, Aborts
  <2> QED BY <1>0, <1>3, <2>1 DEF Aborts
<1>4. ASSUME NEW p \in Processes, Falls(p)
      PROVE  Goal
  <2>1. \A a \in Connections(p) : answer[Op(a)] = "none"
    BY OpenCall DEF Base, Open, Connections
  <2> QED BY <1>0, <1>4, <2>1 DEF Falls
<1>5. ASSUME NEW o \in Operations, TimesOut(o)
      PROVE  Goal
  BY <1>0, <1>5 DEF TimesOut, Pending
<1> QED BY <1>1, <1>2, <1>3, <1>4, <1>5, Steps DEF Quiet, Begins

LEMMA RowsStep ==
    ASSUME Base, [Next]_vars
    PROVE  RowsOK'
<1> USE DEF Base
<1>0. about' = about /\ DOMAIN rows \subseteq Operations
  BY Steps, ChangesAre DEF Quiet, Begins, TimesOut, Lands, Aborts, Falls, Types
<1>1. CASE rows' = rows
  BY <1>0, <1>1, HistoryStays DEF RowsOK
<1>2. ASSUME NEW a \in Actors, Lands(a)
      PROVE  RowsOK'
  <2>1. /\ Op(a) \in Operations /\ CollectionOf[Op(a).kind] = about
        /\ Op(a).value \in STRING \ {"revoked"}
        /\ session[a].phase = "commit" /\ answer \in [Operations -> Outcomes]
    BY <1>2, OpenCall DEF Lands, Types
  <2>2. InsertsRow(a) \/ UpdatesRows(a) \/ ChangesNothing(a)
    BY <2>1 DEF SessionsOK, SessionOK, InPhase
  <2>3. answer'[Op(a)] # "none"
    <3>1. session[a].reply # "none"
      BY <2>2 DEF InsertsRow, UpdatesRows, ChangesNothing
    <3> QED BY <1>2, <2>1, <3>1 DEF Lands
  <2>4. ASSUME NEW r \in DOMAIN session[a].change
        PROVE  /\ session[a].change[r].value # "revoked"
               /\ session[a].change[r].active \/ about \in {"api_keys", "webhooks"}
    <3>1. CASE InsertsRow(a)
      BY <2>1, <2>4, <3>1 DEF InsertsRow
    <3>2. CASE UpdatesRows(a)
      <4>1. r \in DOMAIN rows /\ session[a].change[r] = Written(Op(a), rows[r])
        BY <3>2 DEF UpdatesRows, Matching
      <4>2. rows[r] \in Row /\ rows[r].value # "revoked"
            /\ (rows[r].active \/ about \in {"api_keys", "webhooks"})
        BY <4>1, ChangesAre DEF Types, RowsOK
      <4>3. Op(a).kind \in {"revoke_api_key", "delete_webhook"}
            => about \in {"api_keys", "webhooks"}
        BY <2>1 DEF CollectionOf
      <4> QED BY <2>1, <4>1, <4>2, <4>3, WrittenRow
    <3>3. CASE ChangesNothing(a)
      BY <2>4, <3>3 DEF ChangesNothing
    <3> QED BY <2>2, <3>1, <3>2, <3>3
  <2>5. ASSUME NEW r \in DOMAIN rows'
        PROVE  /\ CollectionOf[r.kind] = about /\ answer'[r] # "none"
               /\ rows'[r].value # "revoked"
               /\ rows'[r].active \/ about \in {"api_keys", "webhooks"}
    <3>1. r \in DOMAIN rows \/ r = Op(a)
      BY <1>2, LandedRows
    <3>2. CollectionOf[r.kind] = about /\ answer'[r] # "none"
      BY <1>0, <2>1, <2>3, <3>1, HistoryStays DEF RowsOK
    <3>3. CASE r \in DOMAIN session[a].change
      BY <1>2, <2>4, <3>2, <3>3, LandedRows
    <3>4. CASE r \notin DOMAIN session[a].change
      <4>1. r \in DOMAIN rows /\ rows'[r] = rows[r]
        BY <1>2, <3>4, LandedRows
      <4> QED BY <3>2, <4>1 DEF RowsOK
    <3> QED BY <3>3, <3>4
  <2> QED BY <1>0, <2>5 DEF RowsOK
<1> QED BY <1>1, <1>2, Steps DEF Quiet, Begins, TimesOut, Aborts, Falls

LEMMA TurnChange ==
    ASSUME Base, NEW a \in Actors, a \in Open, Turn(a), NEW b \in Actors, b # a
    PROVE  /\ session'[b] = session[b]
           /\ Op(a)' \in {Op(a), NoOperation}
           /\ DOMAIN session'[a].change \cap DOMAIN session[b].change = {}
<1>1. session'[b] = session[b]
  BY DEF Turn, Reads, Finds, Conflicts, WillInsert, Inserts, Aims, Misses, Updates,
         Ends, MovesTo, Becomes
<1>2. Op(a)' \in {Op(a), NoOperation}
  BY DEF Turn, Reads, Finds, Conflicts, WillInsert, Inserts, Aims, Misses, Updates,
         Ends, MovesTo, Becomes, Is, Op
<1>3. \/ session'[a].change \in {session[a].change, NoRows}
      \/ DOMAIN session'[a].change = {Op(a)}
      \/ \E r \in session[a].targets \ Locked(a) :
            DOMAIN session'[a].change = DOMAIN session[a].change \cup {r}
  <2>1. Inserts(a) => DOMAIN session'[a].change = {Op(a)}
    BY DEF Inserts, Becomes, Is
  <2>2. Updates(a) => \E r \in session[a].targets \ Locked(a) :
                         DOMAIN session'[a].change = DOMAIN session[a].change \cup {r}
    BY DEF Updates, WritesOneMore, Becomes, Is
  <2> QED BY <2>1, <2>2 DEF Turn, Reads, Finds, Conflicts, WillInsert, Aims, Misses,
         Ends, MovesTo, Becomes, Is
<1>4. DOMAIN session[a].change \cap DOMAIN session[b].change = {}
  BY DEF Base, Apart
<1>5. DOMAIN NoRows = {}
  BY DEF NoRows
<1>6. DOMAIN session[b].change \subseteq Locked(a)
  BY DEF Locked
<1>7. Op(a) \notin DOMAIN session[b].change
  <2>1. Op(a) \in Operations /\ Op(a) \notin DOMAIN rows
    BY OpenCall DEF Open, Base, RowsOK
  <2>2. b \in Open => Op(b) # Op(a)
    BY DEF Base, Apart
  <2>3. b \notin Open => DOMAIN session[b].change = {}
    BY DEF Open, Base, SessionsOK, SessionOK
  <2>4. b \in Open /\ InsertsRow(b) => DOMAIN session[b].change = {Op(b)}
    BY DEF InsertsRow
  <2>5. UpdatesRows(b) => DOMAIN session[b].change \subseteq DOMAIN rows
    BY DEF UpdatesRows, Matching
  <2>6. ChangesNothing(b) => DOMAIN session[b].change = {}
    BY DEF ChangesNothing
  <2>8. session[b].phase = "update" => DOMAIN session[b].change \subseteq DOMAIN rows
    BY DEF Base, SessionsOK, SessionOK, InPhase, Matching
  <2>7. b \in Open => \/ DOMAIN session[b].change = {} \/ session[b].phase = "update"
                      \/ InsertsRow(b) \/ UpdatesRows(b) \/ ChangesNothing(b)
    BY DEF Base, SessionsOK, SessionOK, InPhase
  <2> QED BY <2>1, <2>2, <2>3, <2>4, <2>5, <2>6, <2>7, <2>8
<1>8. DOMAIN session'[a].change \cap DOMAIN session[b].change = {}
  BY <1>3, <1>4, <1>5, <1>6, <1>7
<1> QED BY <1>1, <1>2, <1>8

LEMMA ApartStep ==
    ASSUME Base, [Next]_vars
    PROVE  Apart'
<1> USE DEF Base
<1>0. DOMAIN NoRows = {} /\ Idle.change = NoRows /\ Idle.phase = "idle"
  BY DEF NoRows, Idle
<1>1. CASE session' = session
  BY <1>1 DEF Apart, Open, Op
<1>2. ASSUME NEW a \in Actors, NEW op \in Operations, Begins(a, op)
      PROVE  Apart'
  <2>1. /\ DOMAIN session'[a].change = {} /\ Op(a)' = op
        /\ \A b \in Actors : b # a => session'[b] = session[b] /\ Op(b) # op
    BY <1>0, <1>2 DEF Begins, Becomes, Is, Op, Pending
  <2> QED BY <2>1 DEF Apart, Open, Op
<1>3. ASSUME NEW a \in Actors, a \in Open, Turn(a)
      PROVE  Apart'
  <2>1. ASSUME NEW b \in Actors, b # a
        PROVE  /\ session'[b] = session[b]
               /\ Op(a)' \in {Op(a), NoOperation}
               /\ DOMAIN session'[a].change \cap DOMAIN session[b].change = {}
               /\ b \in Open => Op(b) \in Operations /\ Op(b) # Op(a)
    <3>1. Op(a) \in Operations
      BY <1>3, OpenCall DEF Open
    <3> QED BY <1>3, <2>1, <3>1, TurnChange, OthersOpen
  <2>2. \A b \in Actors : b # a /\ b \in Open => Op(b) # Op(a)'
    BY <2>1, NoCall
  <2> QED BY <2>1, <2>2 DEF Apart, Open, Op
<1>4. ASSUME NEW a \in Actors, Lands(a) \/ Aborts(a)
      PROVE  Apart'
  <2>1. Ends(a)
    BY <1>4 DEF Lands, Aborts
  <2>2. session'[a] = Idle /\ \A b \in Actors : b # a => session'[b] = session[b]
    BY <2>1, EndedSession DEF Ends, Becomes
  <2> QED BY <1>0, <2>2 DEF Apart, Open, Op
<1>5. ASSUME NEW p \in Processes, Falls(p)
      PROVE  Apart'
  <2>1. \A b \in Actors : session'[b] \in {Idle, session[b]}
    BY <1>5 DEF Falls
  <2> QED BY <1>0, <2>1 DEF Apart, Open, Op
<1> QED BY <1>1, <1>2, <1>3, <1>4, <1>5, Steps DEF Quiet, TimesOut

LEMMA UnderwayStep ==
    ASSUME Base, [Next]_vars
    PROVE  Underway'
<1> USE DEF Base
<1> SUFFICES ASSUME NEW o \in Operations, settled'[o] # "none", answer'[o] = "none"
             PROVE  \E a \in Actors : Op(a)' = o
  BY DEF Underway
<1>0. answer[o] = "none" /\ answer \in [Operations -> Outcomes]
      /\ settled \in [Operations -> Outcomes]
  BY HistoryStays DEF Types
<1>1. settled[o] # "none" => \E b \in Actors : Op(b) = o /\ b \in Open
  BY <1>0, NoCall DEF Underway, SessionsOK, SessionOK, Open, Idle, Op
<1>2. CASE Quiet
  BY <1>1, <1>2 DEF Quiet, Op
<1>3. ASSUME NEW a \in Actors, NEW op \in Operations, Begins(a, op)
      PROVE  \E b \in Actors : Op(b)' = o
  BY <1>1, <1>3 DEF Begins, Becomes, Op
<1>4. ASSUME NEW op \in Operations, TimesOut(op)
      PROVE  \E b \in Actors : Op(b)' = o
  <2>1. o # op
    BY <1>0, <1>4 DEF TimesOut
  <2> QED BY <1>0, <1>1, <1>4, <2>1 DEF TimesOut, Op
<1>5. ASSUME NEW a \in Actors, a \in Open, Turn(a)
      PROVE  \E b \in Actors : Op(b)' = o
  <2>1. CASE o = Op(a)
    <3>1. \A outcome : ~Conflicts(a, outcome)
      BY <1>0, <2>1 DEF Conflicts
    <3>2. Op(a)' = Op(a)
      BY <1>5, <3>1 DEF Turn, Reads, Finds, WillInsert, Inserts, Aims, Misses, Updates,
                        MovesTo, Becomes, Is, Op
    <3> QED BY <2>1, <3>2
  <2>2. CASE o # Op(a)
    <3>1. settled'[o] = settled[o]
      BY <1>0, <1>5, <2>2 DEF Turn, Reads, Finds, Conflicts, WillInsert, Inserts, Aims,
                              Misses, Updates
    <3>2. PICK b \in Actors : Op(b) = o
      BY <1>1, <3>1
    <3>3. session'[b] = session[b]
      BY <1>5, <2>2, <3>2, TurnChange
    <3> QED BY <3>2, <3>3 DEF Op
  <2> QED BY <2>1, <2>2
<1>6. ASSUME NEW a \in Actors, Lands(a) \/ Aborts(a)
      PROVE  \E b \in Actors : Op(b)' = o
  <2>1. o # Op(a)
    <3>1. Lands(a) => session[a].reply # "none"
      BY DEF Lands, SessionsOK, SessionOK, InPhase, InsertsRow, UpdatesRows,
             ChangesNothing
    <3> QED BY <1>0, <1>6, <3>1 DEF Lands, Aborts
  <2>2. settled'[o] = settled[o]
    BY <1>0, <1>6, <2>1 DEF Lands, Aborts
  <2>3. PICK b \in Actors : Op(b) = o
    BY <1>1, <2>2
  <2>4. session'[b] = session[b]
    BY <1>6, <2>1, <2>3 DEF Lands, Aborts, Ends, Becomes
  <2> QED BY <2>3, <2>4 DEF Op
<1>7. ASSUME NEW p \in Processes, Falls(p)
      PROVE  \E b \in Actors : Op(b)' = o
  <2>1. o \notin {Op(a) : a \in Connections(p)}
    BY <1>7 DEF Falls
  <2>2. settled'[o] = settled[o]
    BY <1>0, <1>7, <2>1 DEF Falls
  <2>3. PICK b \in Actors : Op(b) = o /\ b \in Open
    BY <1>1, <2>2
  <2>4. session'[b] = session[b]
    BY <1>7, <2>1, <2>3 DEF Falls, Connections
  <2> QED BY <2>3, <2>4 DEF Op
<1> QED BY <1>2, <1>3, <1>4, <1>5, <1>6, <1>7, Steps

LEMMA BaseInit == Init => Base
<1> SUFFICES ASSUME Init PROVE Base
  OBVIOUS
<1>1. Types
  <2>1. about \in Collections /\ created \in BOOLEAN /\ rows \in Changes
    BY ChangesAre DEF Init
  <2>2. /\ process \in [Processes -> {"down", "creating", "up"}]
        /\ answer \in [Operations -> Outcomes] /\ settled \in [Operations -> Outcomes]
    BY DEF Init, Outcomes
  <2>3. session \in [Actors -> Session]
    BY IdleSession DEF Init
  <2>4. starts \in 0 .. MaxStarts /\ failures \in 0 .. MaxFailures
    BY PostgresAssumption DEF Init
  <2> QED BY <2>1, <2>2, <2>3, <2>4 DEF Types
<1>2. /\ rows = NoRows /\ DOMAIN NoRows = {}
      /\ \A a \in Actors : session[a] = Idle
      /\ \A op \in Operations : settled[op] = "none"
  BY DEF Init, NoRows
<1>3. Idle.phase = "idle" /\ Idle.change = NoRows /\ Idle.targets = {}
  BY DEF Idle
<1>4. SessionsOK
  BY <1>2, <1>3 DEF SessionsOK, SessionOK, InPhase
<1>5. RowsOK /\ Apart /\ Underway
  BY <1>2, <1>3 DEF RowsOK, Apart, Underway, Open
<1> QED BY <1>1, <1>4, <1>5 DEF Base

LEMMA BaseStep == Base /\ [Next]_vars => Base'
BY TypesStep, SessionsStep, RowsStep, ApartStep, UnderwayStep DEF Base

(* The inductive invariant of the transactions holds.                      *)
THEOREM BaseHolds == Spec => []Base
BY BaseInit, BaseStep, PTL DEF Spec

(* What a call returned, but for an error, is what became of it.           *)
THEOREM RepliesAreTrue == Spec => []RepliesTrue
<1>1. Init => RepliesTrue
  <2> SUFFICES ASSUME Init PROVE RepliesTrue
    OBVIOUS
  <2>1. \A op \in Operations : answer[op] = "none"
    BY DEF Init
  <2> QED BY <2>1 DEF RepliesTrue
<1>2. Base /\ RepliesTrue /\ [Next]_vars => RepliesTrue'
  <2> SUFFICES ASSUME Base, RepliesTrue, [Next]_vars, NEW op \in Operations,
                      answer'[op] \in {"true", "false"}
               PROVE  answer'[op] = settled'[op]
    BY DEF RepliesTrue
  <2>1. CASE answer[op] = "none"
    BY <2>1, HistoryStays
  <2>2. CASE answer[op] # "none"
    <3>1. answer'[op] = answer[op] /\ answer[op] = settled[op]
      BY <2>2, HistoryStays DEF RepliesTrue
    <3>2. settled'[op] = settled[op]
      BY <2>2, <3>1, HistoryStays
    <3> QED BY <3>1, <3>2
  <2> QED BY <2>1, <2>2
<1> QED BY <1>1, <1>2, BaseHolds, PTL DEF Spec

------------------------------------------------------------------------------
(* No process has more connections than its pool.                          *)
PoolsOK ==
    \A p \in Processes : /\ IsFiniteSet(Connections(p))
                         /\ Cardinality(Connections(p)) <= PoolSize

(* Only Begin takes a connection.                                          *)
LEMMA ConnectionsStep ==
    ASSUME Base, [Next]_vars, NEW p \in Processes
    PROVE  \/ Connections(p)' \subseteq Connections(p)
           \/ /\ Cardinality(Connections(p)) < PoolSize
              /\ \E a \in Actors : Connections(p)' = Connections(p) \cup {a}
<1>0. Idle.phase = "idle"
  BY DEF Idle
<1>1. ASSUME NEW a \in Actors, NEW op \in Operations, Begins(a, op)
      PROVE  \/ Connections(p)' \subseteq Connections(p)
             \/ /\ Cardinality(Connections(p)) < PoolSize
                /\ Connections(p)' = Connections(p) \cup {a}
  <2>1. session'[a].phase # "idle" /\ \A b \in Actors : b # a => session'[b] = session[b]
    BY <1>1 DEF Begins, Becomes, Is
  <2>2. ProcessOf[a] # p => Connections(p)' = Connections(p)
    BY <2>1 DEF Connections, Open
  <2>3. ProcessOf[a] = p => /\ Connections(p)' = Connections(p) \cup {a}
                            /\ Cardinality(Connections(p)) < PoolSize
    BY <1>1, <2>1 DEF Connections, Open, Begins
  <2> QED BY <2>2, <2>3
<1>2. ASSUME NEW a \in Actors, a \in Open, \A b \in Actors : b # a => session'[b] = session[b]
      PROVE  Connections(p)' \subseteq Connections(p)
  BY <1>2 DEF Connections, Open
<1>3. ASSUME NEW q \in Processes, Falls(q)
      PROVE  Connections(p)' \subseteq Connections(p)
  <2>1. \A b \in Actors : session'[b] \in {Idle, session[b]}
    BY <1>3 DEF Falls
  <2> QED BY <1>0, <2>1 DEF Connections, Open
<1>4. ASSUME session' = session
      PROVE  Connections(p)' \subseteq Connections(p)
  BY <1>4 DEF Connections, Open
<1>5. ASSUME NEW a \in Actors, Lands(a) \/ Aborts(a)
      PROVE  Connections(p)' \subseteq Connections(p)
  BY <1>2, <1>5 DEF Lands, Aborts, Open, Ends, Becomes
<1>6. ASSUME NEW a \in Actors, a \in Open, Turn(a)
      PROVE  Connections(p)' \subseteq Connections(p)
  BY <1>2, <1>6, TurnChange
<1> QED BY <1>1, <1>3, <1>4, <1>5, <1>6, Steps DEF Quiet, TimesOut

LEMMA PoolsStep ==
    ASSUME Base, PoolsOK, [Next]_vars
    PROVE  PoolsOK'
<1> SUFFICES ASSUME NEW p \in Processes
             PROVE  IsFiniteSet(Connections(p)') /\ Cardinality(Connections(p)') <= PoolSize
  BY DEF PoolsOK
<1>1. /\ IsFiniteSet(Connections(p)) /\ Cardinality(Connections(p)) <= PoolSize
      /\ Cardinality(Connections(p)) \in Nat /\ PoolSize \in Nat
  BY PostgresAssumption, FS_CardinalityType DEF PoolsOK
<1>2. CASE Connections(p)' \subseteq Connections(p)
  <2>1. IsFiniteSet(Connections(p)') /\ Cardinality(Connections(p)') <= Cardinality(Connections(p))
    BY <1>1, <1>2, FS_Subset
  <2>2. Cardinality(Connections(p)') \in Nat
    BY <2>1, FS_CardinalityType
  <2> QED BY <1>1, <2>1, <2>2
<1>3. ASSUME NEW a \in Actors, Connections(p)' = Connections(p) \cup {a},
             Cardinality(Connections(p)) < PoolSize
      PROVE  IsFiniteSet(Connections(p)') /\ Cardinality(Connections(p)') <= PoolSize
  <2>1. /\ IsFiniteSet(Connections(p)')
        /\ \/ Cardinality(Connections(p)') = Cardinality(Connections(p))
           \/ Cardinality(Connections(p)') = Cardinality(Connections(p)) + 1
    BY <1>1, <1>3, FS_AddElement
  <2> QED BY <1>1, <1>3, <2>1
<1> QED BY <1>2, <1>3, ConnectionsStep

LEMMA PoolsHold == Spec => []PoolsOK
<1>1. Init => PoolsOK
  <2> SUFFICES ASSUME Init, NEW p \in Processes
               PROVE  IsFiniteSet(Connections(p)) /\ Cardinality(Connections(p)) <= PoolSize
    BY DEF PoolsOK
  <2>1. Connections(p) = {}
    BY DEF Init, Connections, Open, Idle
  <2> QED BY <2>1, FS_EmptySet, PostgresAssumption
<1>2. Base /\ PoolsOK /\ [Next]_vars => PoolsOK'
  BY PoolsStep
<1> QED BY <1>1, <1>2, BaseHolds, PTL DEF Spec

(* The shape of the state; a pool has no connection too many, and no row    *)
(* is being written by two transactions.                                   *)
THEOREM TypeCorrect == Spec => []TypeOK
<1>1. Base /\ PoolsOK => TypeOK
  <2> SUFFICES ASSUME Base, PoolsOK PROVE TypeOK
    OBVIOUS
  <2>1. DOMAIN rows \subseteq Operations /\ Range(rows) \subseteq Row
    BY ChangesAre DEF Base, Types, Range
  <2>2. ASSUME NEW a \in Actors
        PROVE  /\ session[a].phase \in {"idle", "open", "insert", "aim", "update", "commit"}
               /\ session[a].op \in Operations \cup {NoOperation}
               /\ session[a].targets \subseteq DOMAIN rows
               /\ DOMAIN session[a].change \cap Locked(a) = {}
               /\ session[a].reply \in {"none", "true", "false"}
    <3>1. session[a].targets \subseteq DOMAIN rows
      BY DEF Base, SessionsOK, SessionOK, Matching
    <3>2. DOMAIN session[a].change \cap Locked(a) = {}
      BY DEF Base, Apart, Locked
    <3> QED BY <3>1, <3>2, SessionIn DEF Base, Op, Phases
  <2> QED BY <2>1, <2>2 DEF Base, Types, PoolsOK, TypeOK, Outcomes
<1> QED BY <1>1, BaseHolds, PoolsHold, PTL

------------------------------------------------------------------------------
(* The rows of a day.  A call that will insert one found none.             *)
Inserters ==
    {a \in Actors : session[a].phase = "insert" \/ Op(a) \in DOMAIN session[a].change}

DayCalls(id) ==
    {r \in DOMAIN rows : r.id = id} \cup {Op(a) : a \in {b \in Inserters : Op(b).id = id}}

DaysOK ==
    about = "stats" => \A id \in STRING :
        Cardinality(DayCalls(id)) <= PoolSize * Cardinality(Processes)

(* The transactions that are open, counted: each has a place in its pool.  *)
LEMMA OpenBounded ==
    ASSUME PoolsOK
    PROVE  /\ IsFiniteSet(Open)
           /\ Cardinality(Open) <= PoolSize * Cardinality(Processes)
<1> DEFINE Index(p) == CHOOSE f : f \in Injection(Connections(p), 1 .. PoolSize)
           place == [a \in Open |-> <<ProcessOf[a], Index(ProcessOf[a])[a]>>]
<1>1. PoolSize \in Nat /\ IsFiniteSet(Processes) /\ ProcessOf \in [Actors -> Processes]
  BY PostgresAssumption
<1>2. ASSUME NEW p \in Processes
      PROVE  Index(p) \in Injection(Connections(p), 1 .. PoolSize)
  <2> DEFINE n == Cardinality(Connections(p))
  <2>1. n \in Nat /\ n <= PoolSize /\ ExistsBijection(1 .. n, Connections(p))
    BY FS_CardinalityType DEF PoolsOK
  <2>2. ExistsBijection(Connections(p), 1 .. n)
    BY <2>1, Fun_ExistsBijSymmetric
  <2>3. PICK f : f \in Bijection(Connections(p), 1 .. n)
    BY <2>2 DEF ExistsBijection
  <2>4. 1 .. n \subseteq 1 .. PoolSize
    BY <1>1, <2>1
  <2> HIDE DEF n
  <2>5. f \in Injection(Connections(p), 1 .. PoolSize)
    BY <2>3, <2>4 DEF Bijection, Injection, IsInjective
  <2> QED BY <2>5
<1>3. place \in Injection(Open, Processes \X (1 .. PoolSize))
  <2>1. ASSUME NEW a \in Open
        PROVE  /\ ProcessOf[a] \in Processes /\ a \in Connections(ProcessOf[a])
               /\ Index(ProcessOf[a])[a] \in 1 .. PoolSize
    <3>1. ProcessOf[a] \in Processes /\ a \in Connections(ProcessOf[a])
      BY <1>1 DEF Open, Connections
    <3> HIDE DEF Index
    <3> QED BY <1>2, <3>1 DEF Injection
  <2>2. ASSUME NEW a \in Open, NEW b \in Open, ProcessOf[a] = ProcessOf[b],
               Index(ProcessOf[a])[a] = Index(ProcessOf[b])[b]
        PROVE  a = b
    <3> HIDE DEF Index
    <3>1. a \in Connections(ProcessOf[a]) /\ b \in Connections(ProcessOf[a])
          /\ ProcessOf[a] \in Processes
      BY <2>1, <2>2
    <3>2. Index(ProcessOf[a]) \in Injection(Connections(ProcessOf[a]), 1 .. PoolSize)
      BY <1>2, <3>1
    <3> QED BY <2>2, <3>1, <3>2 DEF Injection, IsInjective
  <2> HIDE DEF Index
  <2> QED BY <2>1, <2>2 DEF Injection, IsInjective
<1>4. IsFiniteSet(1 .. PoolSize) /\ Cardinality(1 .. PoolSize) = PoolSize
  BY <1>1, FS_Interval
<1>5. /\ IsFiniteSet(Processes \X (1 .. PoolSize))
      /\ Cardinality(Processes \X (1 .. PoolSize)) = Cardinality(Processes) * PoolSize
  BY <1>1, <1>4, FS_Product
<1> HIDE DEF place
<1>6. IsFiniteSet(Open) /\ Cardinality(Open) <= Cardinality(Processes \X (1 .. PoolSize))
  BY <1>3, <1>5, FS_Injection
<1>7. Cardinality(Processes) \in Nat
  BY <1>1, FS_CardinalityType
<1>8. Cardinality(Processes) * PoolSize = PoolSize * Cardinality(Processes)
  BY <1>1, <1>7
<1> QED BY <1>5, <1>6, <1>8

(* A step adds to the calls of a day only when its day has no rows, and then *)
(* they are all under way.                                                 *)
LEMMA DayCallsStep ==
    ASSUME Base, about = "stats", [Next]_vars, NEW id \in STRING
    PROVE  \/ DayCalls(id)' \subseteq DayCalls(id)
           \/ DayCalls(id)' \subseteq {Op(a) : a \in Open}
<1> USE DEF Base
<1>0. /\ DOMAIN NoRows = {} /\ Idle.change = NoRows /\ Idle.phase = "idle"
      /\ \A a \in Actors : Op(a)' = session'[a].op
      /\ \A a \in Actors : Op(a) = session[a].op
  BY DEF NoRows, Idle, Op
<1>1. \A a \in Inserters : a \in Open
  BY DEF Inserters, Open, SessionsOK, SessionOK
<1>2. ASSUME rows' = rows, \A b \in Actors : session'[b] \in {Idle, session[b]}
      PROVE  DayCalls(id)' \subseteq DayCalls(id)
  <2>1. \A b \in Inserters' : b \in Inserters /\ Op(b)' = Op(b)
    BY <1>0, <1>2 DEF Inserters
  <2> QED BY <1>2, <2>1 DEF DayCalls
<1>3. ASSUME NEW a \in Actors, NEW op \in Operations, Begins(a, op)
      PROVE  DayCalls(id)' \subseteq DayCalls(id)
  <2>1. /\ rows' = rows /\ \A b \in Actors : b # a => session'[b] = session[b]
        /\ a \notin Inserters'
    BY <1>0, <1>3 DEF Begins, Becomes, Is, Inserters
  <2>2. \A b \in Inserters' : b \in Inserters /\ Op(b)' = Op(b)
    BY <1>0, <2>1 DEF Inserters
  <2> QED BY <2>1, <2>2 DEF DayCalls
<1>4. ASSUME NEW a \in Actors, a \in Open, Turn(a), rows' = rows,
             WillInsert(a) => Op(a).id # id
      PROVE  DayCalls(id)' \subseteq DayCalls(id)
  <2>0. /\ Op(a) \notin DOMAIN rows
        /\ session[a].targets \subseteq DOMAIN rows
        /\ (session[a].phase # "commit" => DOMAIN session[a].change \subseteq DOMAIN rows)
    BY <1>4, OpenCall DEF Open, RowsOK, SessionsOK, SessionOK, InPhase, Matching
  <2>1. \A b \in Actors : b # a => session'[b] = session[b]
    BY <1>4, TurnChange
  <2>2. a \in Inserters' => Op(a)' = Op(a) /\ (a \in Inserters \/ WillInsert(a))
    <3>1. Inserts(a) => a \in Inserters /\ Op(a)' = Op(a)
      BY <1>0 DEF Inserts, Becomes, Is, Inserters
    <3>2. ASSUME NEW reply, Reads(a, reply)
          PROVE  a \notin Inserters'
      BY <1>0, <2>0, <3>2 DEF Reads, Becomes, Is, Inserters
    <3>3. ASSUME NEW outcome, Conflicts(a, outcome)
          PROVE  a \notin Inserters'
      BY <1>0, <3>3 DEF Conflicts, Ends, Becomes, Is, Inserters
    <3>4. ASSUME Finds(a) \/ Aims(a) \/ Misses(a)
          PROVE  a \notin Inserters'
      BY <1>0, <2>0, <3>4 DEF Finds, Aims, Misses, MovesTo, Becomes, Is, Inserters
    <3>5. WillInsert(a) => Op(a)' = Op(a)
      BY <1>0 DEF WillInsert, MovesTo, Becomes, Is
    <3>6. ASSUME Updates(a)
          PROVE  a \notin Inserters'
      <4>1. /\ DOMAIN session'[a].change \subseteq DOMAIN session[a].change \cup session[a].targets
            /\ session'[a].op = Op(a) /\ session'[a].phase \in {"update", "commit"}
            /\ session[a].phase = "update"
        BY <3>6 DEF Updates, WritesOneMore, Becomes, Is
      <4> QED BY <1>0, <2>0, <4>1 DEF Inserters
    <3> QED BY <1>4, <3>1, <3>2, <3>3, <3>4, <3>5, <3>6 DEF Turn
  <2>3. \A b \in Inserters' : b # a => b \in Inserters /\ Op(b)' = Op(b)
    BY <1>0, <2>1 DEF Inserters
  <2>4. ASSUME NEW b \in Inserters', Op(b)'.id = id
        PROVE  b \in Inserters /\ Op(b)' = Op(b)
    BY <1>4, <2>2, <2>3, <2>4
  <2> QED BY <1>4, <2>4 DEF DayCalls
<1>5. ASSUME NEW a \in Actors, a \in Open, WillInsert(a), rows' = rows, Op(a).id = id
      PROVE  DayCalls(id)' \subseteq {Op(b) : b \in Open}
  <2>1. {r \in DOMAIN rows' : r.id = id} = {}
    BY <1>5 DEF WillInsert, Matching
  <2>2. Op(a)' = Op(a) /\ \A b \in Actors : b # a => session'[b] = session[b]
    BY <1>0, <1>5 DEF WillInsert, MovesTo, Becomes, Is
  <2>3. \A b \in Inserters' : b \in Open /\ Op(b)' = Op(b)
    BY <1>0, <1>1, <1>5, <2>2 DEF Inserters
  <2> QED BY <2>1, <2>3 DEF DayCalls
<1>6. ASSUME NEW a \in Actors, Lands(a)
      PROVE  DayCalls(id)' \subseteq DayCalls(id)
  <2>1. /\ session'[a] = Idle /\ \A b \in Actors : b # a => session'[b] = session[b]
        /\ \A r \in DOMAIN rows' :
              r \in DOMAIN rows \/ (r = Op(a) /\ Op(a) \in DOMAIN session[a].change)
    BY <1>6, LandedRows, EndedSession DEF Lands, Ends, Becomes
  <2>2. \A b \in Inserters' : b \in Inserters /\ Op(b)' = Op(b)
    BY <1>0, <2>1 DEF Inserters
  <2>3. \A r \in DOMAIN rows' : r \in DOMAIN rows \/ (r = Op(a) /\ a \in Inserters)
    BY <2>1 DEF Inserters
  <2> QED BY <2>2, <2>3 DEF DayCalls
<1>7. ASSUME NEW a \in Actors, Aborts(a)
      PROVE  DayCalls(id)' \subseteq DayCalls(id)
  <2>1. session'[a] = Idle /\ \A b \in Actors : b # a => session'[b] = session[b]
    BY <1>7, EndedSession DEF Aborts, Ends, Becomes
  <2> QED BY <1>2, <1>7, <2>1 DEF Aborts
<1>8. ASSUME NEW p \in Processes, Falls(p)
      PROVE  DayCalls(id)' \subseteq DayCalls(id)
  BY <1>2, <1>8 DEF Falls
<1>9. ASSUME Quiet \/ \E op \in Operations : TimesOut(op)
      PROVE  DayCalls(id)' \subseteq DayCalls(id)
  BY <1>2, <1>9 DEF Quiet, TimesOut
<1> QED BY <1>3, <1>4, <1>5, <1>6, <1>7, <1>8, <1>9, Steps

LEMMA DaysStep ==
    ASSUME Base, PoolsOK, DaysOK, [Next]_vars
    PROVE  DaysOK'
<1> SUFFICES ASSUME about' = "stats", NEW id \in STRING
             PROVE  Cardinality(DayCalls(id)') <= PoolSize * Cardinality(Processes)
  BY DEF DaysOK
<1> DEFINE K == PoolSize * Cardinality(Processes)
<1>1. about = "stats"
  BY Steps DEF Quiet, Begins, TimesOut, Lands, Aborts, Falls
<1>2. IsFiniteSet(DayCalls(id))
  <2>1. DayCalls(id) \subseteq Operations
    <3>1. \A a \in Inserters : Op(a) \in Operations
      BY OpenCall DEF Inserters, Base, SessionsOK, SessionOK
    <3>2. DOMAIN rows \subseteq Operations
      BY ChangesAre DEF Base, Types
    <3> QED BY <3>1, <3>2 DEF DayCalls
  <2> QED BY <2>1, PostgresAssumption, FS_Subset
<1>3. /\ Cardinality(DayCalls(id)) \in Nat /\ Cardinality(DayCalls(id)) <= K
  BY <1>1, <1>2, FS_CardinalityType DEF DaysOK
<1>4. PoolSize \in Nat /\ Cardinality(Processes) \in Nat
  BY PostgresAssumption, FS_CardinalityType
<1>5. K \in Nat
  BY <1>4
<1>6. CASE DayCalls(id)' \subseteq DayCalls(id)
  <2>1. Cardinality(DayCalls(id)') <= Cardinality(DayCalls(id)) /\ IsFiniteSet(DayCalls(id)')
    BY <1>2, <1>6, FS_Subset
  <2>2. Cardinality(DayCalls(id)') \in Nat
    BY <2>1, FS_CardinalityType
  <2> HIDE DEF K
  <2>3. Cardinality(DayCalls(id)') <= K
    BY <1>3, <1>5, <2>1, <2>2
  <2> QED BY <2>3 DEF K
<1>7. CASE DayCalls(id)' \subseteq {Op(a) : a \in Open}
  <2> DEFINE call == [a \in Open |-> Op(a)]
             calls == {Op(a) : a \in Open}
  <2>1. IsFiniteSet(Open) /\ Cardinality(Open) <= K
    BY OpenBounded
  <2>2. call \in Surjection(Open, calls)
    BY DEF Surjection
  <2> HIDE DEF call
  <2>3. IsFiniteSet(calls) /\ Cardinality(calls) <= Cardinality(Open)
    BY <2>1, <2>2, FS_Surjection
  <2>4. DayCalls(id)' \in SUBSET calls
    BY <1>7
  <2> HIDE DEF calls, K
  <2>5. Cardinality(DayCalls(id)') <= Cardinality(calls) /\ IsFiniteSet(DayCalls(id)')
    BY <2>3, <2>4, FS_Subset
  <2>6. /\ Cardinality(DayCalls(id)') \in Nat /\ Cardinality(calls) \in Nat
        /\ Cardinality(Open) \in Nat
    BY <2>1, <2>3, <2>5, FS_CardinalityType
  <2>7. Cardinality(DayCalls(id)') <= K
    BY <1>5, <2>1, <2>3, <2>5, <2>6
  <2> QED BY <2>7 DEF K
<1> QED BY <1>1, <1>6, <1>7, DayCallsStep

(* A day of a tenant has no more rows than there can be connections: of    *)
(* the calls that inserted them all were under way at once.                *)
THEOREM DayRowsAreBounded == Spec => []DayRowsBounded
<1>1. Init => DaysOK
  <2> SUFFICES ASSUME Init, NEW id \in STRING
               PROVE  Cardinality(DayCalls(id)) <= PoolSize * Cardinality(Processes)
    BY DEF DaysOK
  <2>1. DayCalls(id) = {}
    BY DEF Init, DayCalls, Inserters, Idle, NoRows
  <2>2. PoolSize \in Nat /\ Cardinality(Processes) \in Nat /\ Cardinality({}) = 0
    BY PostgresAssumption, FS_CardinalityType, FS_EmptySet
  <2>3. PoolSize * Cardinality(Processes) \in Nat
    BY <2>2
  <2> QED BY <2>1, <2>2, <2>3
<1>2. Base /\ PoolsOK /\ DaysOK /\ [Next]_vars => DaysOK'
  BY DaysStep
<1>3. Base /\ PoolsOK /\ DaysOK => DayRowsBounded
  <2> SUFFICES ASSUME Base, DaysOK, about = "stats", NEW r \in DOMAIN rows
               PROVE  Cardinality(Matching(r)) <= PoolSize * Cardinality(Processes)
    BY DEF DayRowsBounded
  <2> DEFINE K == PoolSize * Cardinality(Processes)
  <2>1. r \in Operations /\ r.id \in STRING /\ DOMAIN rows \subseteq Operations
    BY ChangesAre, PostgresAssumption DEF Base, Types, Operation
  <2>2. Matching(r) \subseteq DayCalls(r.id)
    BY DEF Matching, DayCalls
  <2>3. DayCalls(r.id) \subseteq Operations
    <3>1. \A a \in Inserters : Op(a) \in Operations
      BY OpenCall DEF Inserters, Base, SessionsOK, SessionOK
    <3> QED BY <2>1, <3>1 DEF DayCalls
  <2>4. IsFiniteSet(DayCalls(r.id)) /\ Cardinality(DayCalls(r.id)) <= K
    BY <2>1, <2>3, PostgresAssumption, FS_Subset DEF DaysOK
  <2>5. IsFiniteSet(Matching(r)) /\ Cardinality(Matching(r)) <= Cardinality(DayCalls(r.id))
    BY <2>2, <2>4, FS_Subset
  <2>6. Cardinality(Matching(r)) \in Nat /\ Cardinality(DayCalls(r.id)) \in Nat
    BY <2>4, <2>5, FS_CardinalityType
  <2>7. K \in Nat
    BY PostgresAssumption, FS_CardinalityType
  <2> HIDE DEF K
  <2>8. Cardinality(Matching(r)) <= K
    BY <2>4, <2>5, <2>6, <2>7
  <2> QED BY <2>8 DEF K
<1> QED BY <1>1, <1>2, <1>3, BaseHolds, PoolsHold, PTL DEF Spec

------------------------------------------------------------------------------
(* The transactions implement RecordStore.                                 *)
Table == IF Intact THEN TableOf ELSE [id \in {} |-> "none"]

(* What the table says of a row.                                           *)
Shown(r) == IF rows[r].active THEN rows[r].value ELSE "revoked"

(* While no day has two rows, the table says it of the row of an id.       *)
LEMMA TableIs ==
    /\ Intact => /\ Table = TableOf
                 /\ Table = [id \in DOMAIN Table |-> Table[id]]
                 /\ DOMAIN Table = {r.id : r \in Live}
                 /\ \A r \in Live : Table[r.id] = Shown(r)
    /\ Intact' => /\ Table' = TableOf'
                  /\ Table' = [id \in DOMAIN Table' |-> Table'[id]]
                  /\ DOMAIN Table' = {r.id : r \in Live'}
                  /\ \A r \in Live' : Table'[r.id] = Shown(r)'
<1>1. ASSUME Intact
      PROVE  /\ Table = TableOf
             /\ Table = [id \in DOMAIN Table |-> Table[id]]
             /\ DOMAIN Table = {r.id : r \in Live}
             /\ \A r \in Live : Table[r.id] = Shown(r)
  <2> DEFINE One(id) == CHOOSE r \in Live : r.id = id
  <2>1. Table = TableOf
    BY <1>1 DEF Table
  <2>2. TableOf = [id \in {r.id : r \in Live} |-> Shown(One(id))]
    BY DEF TableOf, Shown
  <2>3. ASSUME NEW r \in Live
        PROVE  One(r.id) = r
    <3>1. One(r.id) \in Live /\ One(r.id).id = r.id
      OBVIOUS
    <3> HIDE DEF One
    <3> QED BY <1>1, <3>1 DEF Intact, Live
  <2> HIDE DEF One
  <2>4. \A r \in Live : TableOf[r.id] = Shown(r)
    BY <2>2, <2>3
  <2> QED BY <2>1, <2>2, <2>4
<1>2. ASSUME Intact'
      PROVE  /\ Table' = TableOf'
             /\ Table' = [id \in DOMAIN Table' |-> Table'[id]]
             /\ DOMAIN Table' = {r.id : r \in Live'}
             /\ \A r \in Live' : Table'[r.id] = Shown(r)'
  <2> DEFINE One(id) == CHOOSE r \in Live' : r.id = id
  <2>1. Table' = TableOf'
    BY <1>2 DEF Table
  <2>2. TableOf' = [id \in {r.id : r \in Live'} |->
           IF rows'[One(id)].active THEN rows'[One(id)].value ELSE "revoked"]
    BY DEF TableOf
  <2>3. ASSUME NEW r \in Live'
        PROVE  One(r.id) = r
    <3>1. One(r.id) \in Live' /\ One(r.id).id = r.id
      OBVIOUS
    <3> HIDE DEF One
    <3> QED BY <1>2, <3>1 DEF Intact, Live
  <2> HIDE DEF One
  <2>4. \A r \in Live' : TableOf'[r.id] = Shown(r)'
    BY <2>2, <2>3 DEF Shown
  <2> QED BY <2>1, <2>2, <2>4
<1> QED BY <1>1, <1>2

(* A record is set, dropped or left, when the rows of the others stay.     *)
LEMMA TableSet ==
    ASSUME Intact, Intact', NEW id0, NEW v,
           \A r \in Live' : r.id # id0 => r \in Live /\ Shown(r)' = Shown(r),
           \A r \in Live : r.id # id0 => r \in Live',
           \E r \in Live' : r.id = id0,
           \A r \in Live' : r.id = id0 => Shown(r)' = v
    PROVE  Table' = [id \in DOMAIN Table \cup {id0} |-> IF id = id0 THEN v ELSE Table[id]]
<1> DEFINE new == [id \in DOMAIN Table \cup {id0} |-> IF id = id0 THEN v ELSE Table[id]]
<1>1. DOMAIN Table' = DOMAIN Table \cup {id0}
  BY TableIs
<1>2. \A id \in DOMAIN Table' : Table'[id] = new[id]
  BY TableIs
<1> QED BY <1>1, <1>2, TableIs

LEMMA TableDrop ==
    ASSUME Intact, Intact', NEW id0,
           \A r \in Live' : r.id # id0 /\ r \in Live /\ Shown(r)' = Shown(r),
           \A r \in Live : r.id # id0 => r \in Live'
    PROVE  Table' = [id \in DOMAIN Table \ {id0} |-> Table[id]]
<1> DEFINE new == [id \in DOMAIN Table \ {id0} |-> Table[id]]
<1>1. DOMAIN Table' = DOMAIN Table \ {id0}
  BY TableIs
<1>2. \A id \in DOMAIN Table' : Table'[id] = new[id]
  BY TableIs
<1> QED BY <1>1, <1>2, TableIs

LEMMA TableLeft ==
    ASSUME Intact, Intact', \A r \in Live' : r \in Live /\ Shown(r)' = Shown(r),
           \A r \in Live : r \in Live'
    PROVE  Table' = Table
<1>1. DOMAIN Table' = DOMAIN Table
  BY TableIs
<1>2. \A id \in DOMAIN Table' : Table'[id] = Table[id]
  BY TableIs
<1> QED BY <1>1, <1>2, TableIs

------------------------------------------------------------------------------
(* The steps of the store.                                                 *)
StoreStep == Store!Next \/ UNCHANGED Store!vars

LEMMA StoreDoes ==
    ASSUME Types, Intact, Intact', NEW op \in Operations, settled[op] = "none",
           NEW reply \in {"true", "false", "error"}, settled' = [settled EXCEPT ![op] = reply],
           Store!Effect(op, reply)
    PROVE  StoreStep
<1>1. Store!Do(op)
  BY DEF Store!Do, Store!Answers
<1> QED BY <1>1 DEF StoreStep, Store!Next

LEMMA StoreDamaged ==
    ASSUME ~Intact', settled' \in [Operations -> Outcomes]
    PROVE  StoreStep
<1>1. Store!Damage
  BY DEF Store!Damage, Store!Answers, Store!Empty, Outcomes
<1> QED BY <1>1 DEF StoreStep, Store!Next

LEMMA StoreLoses ==
    ASSUME Types, Intact, Intact', Table' = Table, settled' \in [Operations -> Outcomes],
           \A op \in Operations : \/ settled'[op] = settled[op]
                                  \/ settled[op] = "none" /\ settled'[op] = "lost"
    PROVE  StoreStep
<1>1. Store!Lose
  BY DEF Store!Lose, Store!Answers, Outcomes, Table
<1> QED BY <1>1 DEF StoreStep, Store!Next

LEMMA SameRows ==
    ASSUME UNCHANGED <<about, rows>>
    PROVE  Table' = Table /\ (Intact' <=> Intact)
<1>1. Intact' <=> Intact
  BY DEF Intact
<1>2. TableOf' = TableOf
  BY DEF TableOf, Live
<1> QED BY <1>1, <1>2 DEF Table

(* What is in the table, of the record that a call is about.               *)
LEMMA PresentIs ==
    ASSUME Base, Intact, NEW op \in Operations
    PROVE  /\ Store!Present(op) <=> op.id \in DOMAIN Table
           /\ op.id \in DOMAIN Table <=>
                 \E r \in Matching(op) : rows[r].active \/ about # "webhooks"
           /\ op.id \in DOMAIN Table /\ Table[op.id] # "revoked" <=>
                 \E r \in Matching(op) : rows[r].active
<1>1. Store!Present(op) <=> op.id \in DOMAIN Table
  BY DEF Store!Present, Table
<1>2. op.id \in DOMAIN Table <=>
         \E r \in Matching(op) : rows[r].active \/ about # "webhooks"
  BY TableIs DEF Live, Matching
<1>3. ASSUME op.id \in DOMAIN Table, Table[op.id] # "revoked"
      PROVE  \E r \in Matching(op) : rows[r].active
  <2>1. PICK r \in Live : r.id = op.id
    BY <1>3, TableIs
  <2>2. Table[op.id] = Shown(r)
    BY <2>1, TableIs
  <2> QED BY <1>3, <2>1, <2>2 DEF Shown, Live, Matching
<1>4. ASSUME NEW r \in Matching(op), rows[r].active
      PROVE  op.id \in DOMAIN Table /\ Table[op.id] # "revoked"
  <2>1. r \in Live /\ r.id = op.id /\ r \in DOMAIN rows
    BY <1>4 DEF Live, Matching
  <2>2. Table[op.id] = rows[r].value
    BY <1>4, <2>1, TableIs DEF Shown
  <2>3. rows[r].value # "revoked"
    BY <2>1 DEF Base, RowsOK
  <2> QED BY <2>1, <2>2, <2>3, TableIs
<1> QED BY <1>1, <1>2, <1>3, <1>4

(* A statement that settles a call does what the store does.               *)
LEMMA TurnImplements ==
    ASSUME Base, NEW a \in Actors, a \in Open, Turn(a), UNCHANGED <<about, rows>>,
           settled' \in [Operations -> Outcomes], Intact'
    PROVE  StoreStep
<1> USE DEF Base
<1>0. /\ Op(a) \in Operations /\ CollectionOf[Op(a).kind] = about
      /\ Intact /\ Table' = Table /\ Types
      /\ (session[a].phase \in {"open", "insert"} => settled[Op(a)] = "none")
  BY SameRows, OpenCall DEF Open, SessionsOK, SessionOK, InPhase
<1>14. ASSUME NEW reply, reply \in {"true", "false", "error"},
             settled' = [settled EXCEPT ![Op(a)] = reply], settled[Op(a)] = "none",
             Store!Effect(Op(a), reply)
      PROVE  StoreStep
  BY <1>0, <1>14, StoreDoes
<1>1. ASSUME settled' = settled
      PROVE  StoreStep
  BY <1>0, <1>1, StoreLoses
<1>2. ASSUME NEW reply \in {"true", "false"}, Reads(a, reply)
      PROVE  StoreStep
  <2>1. /\ reply = (IF Selected(Op(a)) # {} THEN "true" ELSE "false")
        /\ settled' = [settled EXCEPT ![Op(a)] = reply] /\ settled[Op(a)] = "none"
        /\ Op(a).kind \in Reading \/ Op(a).kind = "validate_api_key"
    BY <1>0, <1>2 DEF Reads
  <2>2. CASE Op(a).kind = "validate_api_key"
    <3>1. Selected(Op(a)) # {} <=> Op(a).id \in DOMAIN Table /\ Table[Op(a).id] # "revoked"
      BY <1>0, <2>2, PresentIs DEF Selected
    <3>2. Store!Effect(Op(a), reply)
      BY <1>0, <2>1, <2>2, <3>1, PresentIs DEF Store!Effect, Table
    <3> QED BY <1>14, <2>1, <3>2
  <2>3. CASE Op(a).kind = "get_webhooks_for_tenant"
    <3>1. about = "webhooks"
      BY <1>0, <2>3 DEF CollectionOf
    <3>2. Selected(Op(a)) # {} <=> Op(a).id \in DOMAIN Table
      BY <1>0, <2>3, <3>1, PresentIs DEF Selected
    <3>3. Store!Effect(Op(a), reply)
      BY <1>0, <2>1, <2>3, <3>2, PresentIs DEF Store!Effect, Store!Reading, Table
    <3> QED BY <1>14, <2>1, <3>3
  <2>4. CASE Op(a).kind \in Reading /\ Op(a).kind # "get_webhooks_for_tenant"
    <3>1. about # "webhooks" /\ Op(a).kind # "validate_api_key"
      BY <1>0, <2>4 DEF CollectionOf, Reading
    <3>2. Selected(Op(a)) # {} <=> Op(a).id \in DOMAIN Table
      BY <1>0, <2>4, <3>1, PresentIs DEF Selected
    <3>3. Store!Effect(Op(a), reply)
      BY <1>0, <2>1, <2>4, <3>2, PresentIs DEF Store!Effect, Store!Reading, Reading, Table
    <3> QED BY <1>14, <2>1, <3>3
  <2> QED BY <2>1, <2>2, <2>3, <2>4
<1>3. ASSUME Finds(a)
      PROVE  StoreStep
  <2>1. /\ Op(a).kind = "validate_api_key" /\ Selected(Op(a)) # {}
        /\ settled' = [settled EXCEPT ![Op(a)] = "true"] /\ settled[Op(a)] = "none"
    BY <1>0, <1>3 DEF Finds
  <2>2. Op(a).id \in DOMAIN Table /\ Table[Op(a).id] # "revoked"
    BY <1>0, <2>1, PresentIs DEF Selected
  <2>3. Store!Effect(Op(a), "true")
    BY <1>0, <2>1, <2>2, PresentIs DEF Store!Effect, Table
  <2> QED BY <1>14, <2>1, <2>3
<1>4. ASSUME NEW outcome \in {"lost", "error"}, Conflicts(a, outcome)
      PROVE  StoreStep
  <2>1. settled' = [settled EXCEPT ![Op(a)] = outcome] /\ settled[Op(a)] = "none"
    BY <1>0, <1>4 DEF Conflicts
  <2>2. CASE outcome = "lost"
    <3>1. \A op \in Operations : \/ settled'[op] = settled[op]
                                 \/ settled[op] = "none" /\ settled'[op] = "lost"
      BY <1>0, <2>1, <2>2 DEF Types
    <3> QED BY <1>0, <3>1, StoreLoses
  <2>3. CASE outcome = "error"
    <3>1. Op(a).kind = "create_tenant" /\ Matching(Op(a)) # {}
      BY <1>4, <2>3 DEF Conflicts
    <3>2. about # "webhooks"
      BY <1>0, <3>1 DEF CollectionOf
    <3>3. Store!Present(Op(a))
      BY <1>0, <3>1, <3>2, PresentIs
    <3>4. Store!Effect(Op(a), "error")
      BY <1>0, <3>1, <3>3 DEF Store!Effect, Table
    <3> QED BY <1>14, <2>1, <2>3, <3>4
  <2> QED BY <2>2, <2>3
<1>5. ASSUME Misses(a)
      PROVE  StoreStep
  <2>1. /\ Op(a).kind \in Updating \cup {"revoke_api_key", "delete_webhook"}
        /\ Matching(Op(a)) = {}
        /\ settled' = [settled EXCEPT ![Op(a)] = "false"] /\ settled[Op(a)] = "none"
    BY <1>0, <1>5 DEF Misses
  <2>2. ~Store!Present(Op(a)) /\ Op(a).id \notin DOMAIN Table
    BY <1>0, <2>1, PresentIs
  <2>3. [id \in DOMAIN Table \ {Op(a).id} |-> Table[id]] = Table
    BY <1>0, <2>2, TableIs
  <2>4. Store!Effect(Op(a), "false")
    <3>1. CASE Op(a).kind \in Updating
      BY <1>0, <2>2, <3>1 DEF Store!Effect, Store!Updating, Updating, Table
    <3>2. CASE Op(a).kind = "revoke_api_key"
      BY <1>0, <2>2, <3>2 DEF Store!Effect, Table
    <3>3. CASE Op(a).kind = "delete_webhook"
      <4>1. Store!Without({Op(a).id}) = Table
        BY <2>3 DEF Store!Without, Table
      <4> QED BY <1>0, <2>2, <3>3, <4>1 DEF Store!Effect, Table
    <3> QED BY <2>1, <3>1, <3>2, <3>3
  <2> QED BY <1>14, <2>1, <2>4
<1> QED BY <1>1, <1>2, <1>3, <1>4, <1>5 DEF Turn, WillInsert, Inserts, Aims, Updates

(* A commit that inserts a row adds a record.                              *)
LEMMA InsertImplements ==
    ASSUME Base, NEW a \in Actors, Lands(a), InsertsRow(a), Intact, Intact'
    PROVE  /\ Store!Effect(Op(a), "true")
           /\ settled[Op(a)] = "none" /\ settled' = [settled EXCEPT ![Op(a)] = "true"]
<1> USE DEF Base
<1>14. PICK op \in Operations : op = Op(a)
  BY OpenCall DEF Lands
<1>0. /\ op = Op(a) /\ CollectionOf[op.kind] = about
      /\ answer[op] = "none" /\ op \notin DOMAIN rows /\ about' = about
      /\ op.kind \in InsertingKinds
  BY <1>14, OpenCall DEF Lands, RowsOK, InsertsRow
<1>1. /\ DOMAIN rows' = DOMAIN rows \cup {op}
      /\ rows'[op].value = op.value /\ rows'[op].active = TRUE
      /\ \A r \in DOMAIN rows : rows'[r] = rows[r]
  <2>1. /\ DOMAIN session[a].change = {op}
        /\ session[a].change[op] = [value |-> op.value, active |-> TRUE]
    BY <1>0 DEF InsertsRow
  <2>2. session[a].change[op].value = op.value /\ session[a].change[op].active = TRUE
    BY <2>1
  <2> QED BY <1>0, <2>1, <2>2, LandedRows
<1>2. \A r \in DOMAIN rows : r.id # op.id
  BY <1>0, <1>1 DEF Intact
<1>3. Live' = Live \cup {op} /\ \A r \in Live : Shown(r)' = Shown(r) /\ r.id # op.id
  BY <1>0, <1>1, <1>2 DEF Live, Shown
<1>4. Shown(op)' = op.value
  BY <1>1 DEF Shown
<1>5. Table' = [id \in DOMAIN Table \cup {op.id} |-> IF id = op.id THEN op.value ELSE Table[id]]
  <2>1. \A r \in Live' : r.id # op.id => r \in Live /\ Shown(r)' = Shown(r)
    BY <1>3
  <2>2. \A r \in Live' : r.id = op.id => Shown(r)' = op.value
    BY <1>3, <1>4
  <2>3. \E r \in Live' : r.id = op.id
    BY <1>3
  <2> QED BY <1>3, <2>1, <2>2, <2>3, TableSet
<1>6. op.id \notin DOMAIN Table /\ ~Store!Present(op)
  <2>1. Matching(op) = {}
    BY <1>2 DEF Matching
  <2> QED BY <1>0, <2>1, PresentIs
<1>7. Table' = Store!With(op)
  BY <1>5 DEF Store!With, Table
<1>8. Store!Effect(op, "true")
  <2>1. CASE op.kind \in Creating \cup {"create_tenant", "update_daily_stats"}
    BY <1>6, <1>7, <2>1 DEF Store!Effect, Store!Creating, Creating, Table
  <2>2. CASE op.kind \in Logging
    <3>1. Store!Logged(op)
      <4>1. {} \in SUBSET DOMAIN Table /\ DOMAIN Table \ {} = DOMAIN Table
        OBVIOUS
      <4>2. Table' = [id \in (DOMAIN Table \ {}) \cup {op.id} |->
                        IF id = op.id THEN op.value ELSE Table[id]]
        BY <1>5, <4>1
      <4> QED BY <4>1, <4>2 DEF Store!Logged, Table
    <3> QED BY <2>2, <3>1 DEF Store!Effect, Store!Logging, Logging
  <2> QED BY <1>0, <2>1, <2>2 DEF InsertingKinds
<1>9. settled[op] = "none" /\ settled' = [settled EXCEPT ![op] = "true"]
  BY <1>0 DEF InsertsRow, Lands
<1> QED BY <1>0, <1>8, <1>9

(* A commit that updates a row changes or removes its record.              *)
LEMMA UpdateImplements ==
    ASSUME Base, NEW a \in Actors, Lands(a), UpdatesRows(a), Intact, Intact',
           Op(a).kind # "validate_api_key"
    PROVE  /\ Store!Effect(Op(a), "true")
           /\ settled[Op(a)] = "none" /\ settled' = [settled EXCEPT ![Op(a)] = "true"]
<1> USE DEF Base
<1> DEFINE op == Op(a)
<1>0. /\ op \in Operations /\ op \in Operation /\ CollectionOf[op.kind] = about
      /\ about' = about /\ op.kind \in UpdatingKinds /\ op.kind # "validate_api_key"
      /\ op.value \in STRING \ {"revoked"}
  BY OpenCall, PostgresAssumption DEF Lands, UpdatesRows
<1>1. settled[op] = "none" /\ settled' = [settled EXCEPT ![op] = "true"]
  BY <1>0 DEF UpdatesRows, Lands, Foreseen
<1>2. PICK r \in DOMAIN session[a].change : r \in Matching(op)
  BY DEF UpdatesRows
<1>3. r \in DOMAIN rows /\ r.id = op.id /\ Matching(op) = {r}
      /\ \A q \in DOMAIN rows : q.id = op.id => q = r
  BY <1>2 DEF Intact, Matching
<1>4. /\ DOMAIN rows' = DOMAIN rows /\ rows'[r] = Written(op, rows[r])
      /\ \A q \in DOMAIN rows : q.id # op.id => rows'[q] = rows[q]
  <2>1. /\ DOMAIN session[a].change = {r}
        /\ session[a].change[r] = Written(op, rows[r])
    BY <1>2, <1>3 DEF UpdatesRows
  <2>2. /\ DOMAIN rows' = DOMAIN rows \cup {r} /\ rows'[r] = Written(op, rows[r])
        /\ \A q \in DOMAIN rows \ {r} : rows'[q] = rows[q]
    BY <2>1, LandedRows
  <2> QED BY <1>3, <2>2
<1>5. /\ rows[r] \in Row /\ rows[r].value # "revoked"
      /\ rows[r].active \/ about \in {"api_keys", "webhooks"}
  BY <1>3, ChangesAre DEF Types, RowsOK
<1> HIDE DEF op
<1>6. ASSUME NEW q \in DOMAIN rows, q.id # op.id
      PROVE  /\ q \in Live' <=> q \in Live
             /\ Shown(q)' = Shown(q)
  BY <1>0, <1>4, <1>6 DEF Live, Shown
<1>7. /\ \A q \in Live' : q.id # op.id => q \in Live /\ Shown(q)' = Shown(q)
      /\ \A q \in Live : q.id # op.id => q \in Live'
      /\ \A q \in Live' : q.id = op.id => q = r
      /\ \A q \in Live : q.id = op.id => q = r
      /\ \A q \in Live' : q \in DOMAIN rows
  BY <1>3, <1>4, <1>6 DEF Live
<1>8. /\ r \in Live <=> rows[r].active \/ about # "webhooks"
      /\ r \in Live' <=> rows'[r].active \/ about # "webhooks"
      /\ Store!Present(op) <=> r \in Live
      /\ op.id \in DOMAIN Table <=> r \in Live
  BY <1>0, <1>3, <1>4, PresentIs DEF Live
<1>9. CASE op.kind \in Updating \cup {"update_daily_stats"}
  <2>1. rows'[r] = [value |-> op.value, active |-> rows[r].active \/ Restores(op)]
    BY <1>4, <1>9 DEF Written, Updating
  <2>2. /\ rows'[r].active <=> rows[r].active \/ Restores(op)
        /\ rows'[r].value = op.value
    <3>1. PICK live \in BOOLEAN : live = (rows[r].active \/ Restores(op))
      BY <1>5 DEF Row, Restores
    <3>2. rows'[r] = [value |-> op.value, active |-> live]
      BY <2>1, <3>1
    <3>3. rows'[r].active = live /\ rows'[r].value = op.value
      BY <3>2
    <3> QED BY <3>1, <3>3
  <2>3. about = "webhooks" => op.kind = "update_webhook"
    BY <1>0, <1>9 DEF CollectionOf, Updating
  <2>4. about # "api_keys"
    BY <1>0, <1>9 DEF CollectionOf, Updating
  <2>5. CASE rows'[r].active
    <3>1. r \in Live' /\ Shown(r)' = op.value
      BY <1>8, <2>2, <2>5 DEF Shown
    <3>2. Table' = [id \in DOMAIN Table \cup {op.id} |->
                      IF id = op.id THEN op.value ELSE Table[id]]
      <4>1. \A q \in Live' : q.id = op.id => Shown(q)' = op.value
        BY <1>7, <3>1
      <4>2. \E q \in Live' : q.id = op.id
        BY <1>3, <3>1
      <4> QED BY <1>7, <4>1, <4>2, TableSet
    <3>3. Table' = Store!With(op)
      BY <3>2 DEF Store!With, Table
    <3>4. Store!Present(op) \/ (Restores(op) /\ op.kind = "update_webhook")
      BY <1>8, <2>2, <2>5 DEF Restores
    <3>6. Store!Restores(op) <=> Restores(op)
      BY DEF Store!Restores, Restores
    <3>5. Store!Effect(op, "true")
      BY <1>9, <3>3, <3>4, <3>6 DEF Store!Effect, Store!Updating, Updating, Table
    <3> QED BY <1>1, <3>5 DEF op
  <2>6. CASE ~rows'[r].active
    <3>1. about = "webhooks" /\ r \notin Live /\ r \notin Live' /\ ~Store!Restores(op)
      BY <1>5, <1>8, <2>2, <2>4, <2>6 DEF Store!Restores, Restores
    <3>2. Table' = Table
      <4>1. /\ \A q \in Live' : q \in Live /\ Shown(q)' = Shown(q)
            /\ \A q \in Live : q \in Live'
        BY <1>7, <3>1
      <4> QED BY <4>1, TableLeft
    <3>3. Store!Effect(op, "true")
      BY <1>8, <2>3, <3>1, <3>2 DEF Store!Effect, Table
    <3> QED BY <1>1, <3>3 DEF op
  <2> QED BY <2>5, <2>6
<1>10. CASE op.kind \in {"revoke_api_key", "delete_webhook"}
  <2>1. rows'[r] = [rows[r] EXCEPT !.active = FALSE]
    BY <1>4, <1>10 DEF Written
  <2>2. rows'[r].active = FALSE
    BY <1>5, <2>1 DEF Row
  <2>3. CASE op.kind = "revoke_api_key"
    <3>1. about # "webhooks"
      BY <1>0, <2>3 DEF CollectionOf
    <3>2. r \in Live /\ r \in Live' /\ Shown(r)' = "revoked"
      BY <1>8, <2>2, <3>1 DEF Shown
    <3>3. PICK v : v = "revoked"
      OBVIOUS
    <3>7. Table' = [id \in DOMAIN Table \cup {op.id} |-> IF id = op.id THEN v ELSE Table[id]]
      <4>1. \A q \in Live' : q.id = op.id => Shown(q)' = v
        BY <1>7, <3>2, <3>3
      <4>2. \E q \in Live' : q.id = op.id
        BY <1>3, <3>2
      <4> QED BY <1>7, <4>1, <4>2, TableSet
    <3>4. [op EXCEPT !.value = "revoked"].id = op.id
          /\ [op EXCEPT !.value = "revoked"].value = "revoked"
      BY <1>0 DEF Operation
    <3>5. Table' = Store!With([op EXCEPT !.value = "revoked"])
      BY <3>3, <3>7, <3>4 DEF Store!With, Table
    <3>6. Store!Effect(op, "true")
      BY <1>8, <2>3, <3>2, <3>5 DEF Store!Effect, Table
    <3> QED BY <1>1, <3>6 DEF op
  <2>4. CASE op.kind = "delete_webhook"
    <3>1. about = "webhooks"
      BY <1>0, <2>4 DEF CollectionOf
    <3>2. r \notin Live'
      BY <1>8, <2>2, <3>1
    <3>3. Table' = [id \in DOMAIN Table \ {op.id} |-> Table[id]]
      <4>1. \A q \in Live' : q.id # op.id /\ q \in Live /\ Shown(q)' = Shown(q)
        BY <1>7, <3>2
      <4> QED BY <1>7, <4>1, TableDrop
    <3>4. CASE r \in Live
      <4>1. Table' = Store!Without({op.id})
        BY <3>3 DEF Store!Without, Table
      <4>2. Store!Effect(op, "true")
        BY <1>8, <2>4, <3>4, <4>1 DEF Store!Effect, Table
      <4> QED BY <1>1, <4>2 DEF op
    <3>5. CASE r \notin Live
      <4>1. /\ \A q \in Live' : q \in Live /\ Shown(q)' = Shown(q)
            /\ \A q \in Live : q \in Live'
        BY <1>7, <3>2, <3>5
      <4>2. Table' = Table
        BY <4>1, TableLeft
      <4>3. Store!Effect(op, "true")
        BY <1>8, <2>4, <3>5, <4>2 DEF Store!Effect, Store!Restores, Table
      <4> QED BY <1>1, <4>3 DEF op
    <3> QED BY <3>4, <3>5
  <2> QED BY <1>10, <2>3, <2>4
<1> QED BY <1>0, <1>9, <1>10 DEF UpdatingKinds

(* A commit that has nothing to write, or writes a key as it found it,     *)
(* leaves the rows alone.                                                  *)
LEMMA IdleCommit ==
    ASSUME Base, NEW a \in Actors, Lands(a),
           \/ ChangesNothing(a)
           \/ UpdatesRows(a) /\ Op(a).kind = "validate_api_key"
    PROVE  rows' = rows /\ settled' = settled
<1>1. settled' = settled
  BY DEF Lands, ChangesNothing, UpdatesRows, Foreseen
<1>2. DOMAIN rows' = DOMAIN rows /\ \A r \in DOMAIN rows : rows'[r] = rows[r]
  <2>1. CASE ChangesNothing(a)
    BY <2>1, LandedRows DEF ChangesNothing
  <2>2. CASE UpdatesRows(a) /\ Op(a).kind = "validate_api_key"
    <3>1. \A r \in DOMAIN session[a].change : session[a].change[r] = rows[r]
          /\ r \in DOMAIN rows
      BY <2>2 DEF UpdatesRows, Written, Matching
    <3> QED BY <3>1, LandedRows
  <2> QED BY <2>1, <2>2
<1>3. rows \in [DOMAIN rows -> Row] /\ rows' \in [DOMAIN rows' -> Row]
  BY LandedRows, ChangesAre DEF Base, Types
<1>4. rows' = rows
  BY <1>2, <1>3
<1> QED BY <1>1, <1>4

LEMMA StoreSteps ==
    ASSUME Base, [Next]_vars
    PROVE  StoreStep
<1>0. Types /\ settled' \in [Operations -> Outcomes]
  BY TypesStep DEF Base, Types
<1>1. CASE ~Intact'
  BY <1>0, <1>1, StoreDamaged
<1>2. CASE Intact'
  <2>0. ASSUME UNCHANGED <<about, rows>>,
               \A op \in Operations : \/ settled'[op] = settled[op]
                                      \/ settled[op] = "none" /\ settled'[op] = "lost"
        PROVE  StoreStep
    BY <1>0, <1>2, <2>0, SameRows, StoreLoses
  <2>1. CASE Quiet
    BY <2>0, <2>1 DEF Quiet
  <2>2. CASE \E a \in Actors, op \in Operations : Begins(a, op)
    BY <2>0, <2>2 DEF Begins
  <2>3. ASSUME NEW op \in Operations, TimesOut(op)
        PROVE  StoreStep
    <3>1. \A o \in Operations : \/ settled'[o] = settled[o]
                                \/ settled[o] = "none" /\ settled'[o] = "lost"
      BY <1>0, <2>3 DEF TimesOut, Types
    <3> QED BY <2>0, <2>3, <3>1 DEF TimesOut
  <2>4. ASSUME NEW a \in Actors, a \in Open, Turn(a), UNCHANGED <<about, rows>>
        PROVE  StoreStep
    BY <1>0, <1>2, <2>4, TurnImplements
  <2>5. ASSUME NEW a \in Actors, Aborts(a)
        PROVE  StoreStep
    <3>1. \A o \in Operations : \/ settled'[o] = settled[o]
                                \/ settled[o] = "none" /\ settled'[o] = "lost"
      BY <1>0, <2>5 DEF Aborts, Types
    <3> QED BY <2>0, <2>5, <3>1 DEF Aborts
  <2>6. ASSUME NEW p \in Processes, Falls(p)
        PROVE  StoreStep
    <3>1. \A o \in Operations : \/ settled'[o] = settled[o]
                                \/ settled[o] = "none" /\ settled'[o] = "lost"
      BY <2>6 DEF Falls
    <3> QED BY <2>0, <2>6, <3>1 DEF Falls
  <2>7. ASSUME NEW a \in Actors, Lands(a)
        PROVE  StoreStep
    <3>1. InsertsRow(a) \/ UpdatesRows(a) \/ ChangesNothing(a)
      BY <2>7 DEF Lands, Base, SessionsOK, SessionOK, InPhase
    <3>2. Intact
      <4>1. DOMAIN rows \subseteq DOMAIN rows'
        BY <2>7, LandedRows
      <4> QED BY <1>2, <4>1 DEF Intact
    <3>3. CASE InsertsRow(a) \/ (UpdatesRows(a) /\ Op(a).kind # "validate_api_key")
      <4>1. Op(a) \in Operations
        BY <2>7, OpenCall DEF Lands, Base
      <4>2. /\ Store!Effect(Op(a), "true") /\ settled[Op(a)] = "none"
            /\ settled' = [settled EXCEPT ![Op(a)] = "true"]
        BY <1>2, <2>7, <3>2, <3>3, InsertImplements, UpdateImplements
      <4> QED BY <1>0, <1>2, <3>2, <4>1, <4>2, StoreDoes
    <3>4. CASE ChangesNothing(a) \/ (UpdatesRows(a) /\ Op(a).kind = "validate_api_key")
      <4>1. rows' = rows /\ settled' = settled /\ about' = about
        BY <2>7, <3>4, IdleCommit DEF Lands
      <4> QED BY <2>0, <4>1
    <3> QED BY <3>1, <3>3, <3>4
  <2> QED BY <2>1, <2>2, <2>3, <2>4, <2>5, <2>6, <2>7, Steps
<1> QED BY <1>1, <1>2

(* As long as no day has two rows, every transaction takes effect on the   *)
(* records as a whole, at one moment, or not at all.                       *)
THEOREM PostgresImplementsStore == Spec => ImplementsStore
<1>1. Init => Store!Init
  <2> SUFFICES ASSUME Init PROVE Store!Init
    OBVIOUS
  <2>1. rows = NoRows /\ settled = [op \in Operations |-> "none"] /\ DOMAIN rows = {}
    BY DEF Init, NoRows
  <2>2. Intact /\ Live = {}
    BY <2>1 DEF Intact, Live
  <2>3. TableOf = [id \in {} |-> "none"]
    BY <2>2 DEF TableOf
  <2> QED BY <2>1, <2>2, <2>3 DEF Store!Init, Store!Empty
<1>2. Base /\ [Next]_vars => [Store!Next]_(Store!vars)
  BY StoreSteps DEF StoreStep
<1> QED BY <1>1, <1>2, BaseHolds, PTL DEF Spec, ImplementsStore, Store!Spec
===============================================================================
