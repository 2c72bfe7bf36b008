------------------------------- MODULE Federated ------------------------------
(***************************************************************************)
(* Federated learning (hestia/federated): tenants contribute noisy         *)
(* embeddings to an aggregator, and a sync puts the average of the recent  *)
(* ones into a repository of global patterns.  Embeddings are not          *)
(* modelled: what matters here is when something is contributed, averaged, *)
(* kept and forgotten.                                                     *)
(*                                                                         *)
(* The clock is time.time(), which may be set back.  Each call reads it    *)
(* several times, and it may move once in between.  One call is under way  *)
(* at a time: the API evaluates on its event loop, without an await.       *)
(***************************************************************************)
EXTENDS Integers, Sequences, FiniteSets, SequencesExt

CONSTANTS
    Tenants,               \* each with an UpdateProtocol
    Enabled,               \* those whose protocol is enabled
    Aggregators, Repositories,
    AggregatorOf, RepositoryOf,  \* of each tenant; a decision engine makes
                                 \* its own, a program may share them
    ContributionInterval,  \* 60 seconds in the engine
    SyncInterval,          \* 300 seconds
    Window,                \* aggregation_window: a day
    MinContributions,      \* 1
    MaxPatterns,           \* 10000
    MaxTime,               \* bound: the time
    MaxContributions,      \* bound: contributions to an aggregator
    MaxIngested,           \* bound: patterns made for a repository
    MaxSetBacks            \* bound: how often the clock is set back

Times == 0 .. MaxTime
Never == -1

ASSUME FederatedAssumption ==
    /\ Enabled \subseteq Tenants
    /\ AggregatorOf \in [Tenants -> Aggregators]
    /\ RepositoryOf \in [Tenants -> Repositories]
    /\ ContributionInterval \in Nat /\ SyncInterval \in Nat /\ Window \in Nat
    /\ MinContributions \in Nat /\ MaxPatterns \in Nat \ {0}
    /\ MaxTime \in Nat /\ MaxContributions \in Nat
    /\ MaxIngested \in Nat /\ MaxSetBacks \in Nat

VARIABLES
    clock,
    contributions,     \* _contributions of each aggregator: who, its timestamp
                       \* and, for the history, at what time contribute saw
                       \* that it was due, and whether it was forced
    lastContribution,  \* _last_contribution_time and _last_sync_time of each
    lastSync,          \* tenant
    patterns,          \* _patterns of each repository, in the order of the
                       \* dictionary: _ingestion_count of the id, last_seen
    ingested,          \* _ingestion_count
    evicted,           \* history: the patterns that were deleted
    setBacks

vars == <<clock, contributions, lastContribution, lastSync, patterns, ingested,
          evicted, setBacks>>

Init ==
    /\ clock = 0
    /\ contributions = [a \in Aggregators |-> <<>>]
    /\ lastContribution = [t \in Tenants |-> Never]
    /\ lastSync = [t \in Tenants |-> Never]
    /\ patterns = [r \in Repositories |-> <<>>]
    /\ ingested = [r \in Repositories |-> 0]
    /\ evicted = [r \in Repositories |-> {}]
    /\ setBacks = 0

------------------------------------------------------------------------------
(* Fault: a clock that is behind counts as elapsed time.                   *)
DueEitherWay(last, interval) ==
    last = Never \/ clock - last >= interval \/ last - clock >= interval

(* The interval is over.                                                   *)
Due(last, interval) == last = Never \/ clock - last >= interval

TimePasses == clock < MaxTime /\ clock' = clock + 1 /\ UNCHANGED setBacks

IsSetBack ==
    /\ setBacks < MaxSetBacks /\ setBacks' = setBacks + 1
    /\ clock' \in 0 .. clock - 1

(* Between two readings of a call, clock and clock'.                       *)
Meanwhile == TimePasses \/ IsSetBack \/ UNCHANGED <<clock, setBacks>>

(* contribute: within the interval it does nothing.  The embedding is      *)
(* computed before the contribution gets its timestamp.                    *)
Contribute(t, force) ==
    LET a == AggregatorOf[t]
    IN  /\ t \in Enabled
        /\ force \/ Due(lastContribution[t], ContributionInterval)
        /\ Len(contributions[a]) < MaxContributions
        /\ Meanwhile
        /\ contributions' = [contributions EXCEPT
              ![a] = Append(@, [tenant |-> t, time |-> clock, stamp |-> clock',
                                forced |-> force])]
        /\ lastContribution' = [lastContribution EXCEPT ![t] = clock]
        /\ UNCHANGED <<lastSync, patterns, ingested, evicted>>

(* _get_recent_contributions                                               *)
Recent(a, time) ==
    {i \in DOMAIN contributions[a] : contributions[a][i].stamp >= time - Window}

(* aggregate has an average.                                               *)
Enough(a, time) == Recent(a, time) # {} /\ Cardinality(Recent(a, time)) >= MinContributions

(* min over the dictionary: of those seen first, the first.                *)
Oldest(list) ==
    CHOOSE i \in DOMAIN list : \A j \in DOMAIN list :
        list[i].time < list[j].time \/ (list[i].time = list[j].time /\ i <= j)

(* Fault: the pattern that was ingested first goes.                        *)
KeptInOrder(list) == IF Len(list) > MaxPatterns THEN Tail(list) ELSE list

(* Fault: one pattern too many is kept.                                    *)
KeptLonger(list) ==
    IF Len(list) > MaxPatterns + 1 THEN RemoveAt(list, Oldest(list)) ELSE list

Kept(list) == IF Len(list) > MaxPatterns THEN RemoveAt(list, Oldest(list)) ELSE list

(* ingest: the new pattern itself may be the one that goes.                *)
Ingest(r) ==
    LET list == Append(patterns[r], [id |-> ingested[r], time |-> clock'])
    IN  /\ ingested[r] < MaxIngested
        /\ ingested' = [ingested EXCEPT ![r] = @ + 1]
        /\ patterns' = [patterns EXCEPT ![r] = Kept(list)]
        /\ evicted' = [evicted EXCEPT ![r] = @ \cup (Range(list) \ Range(Kept(list)))]

(* sync: the time is noted also if there was nothing to aggregate.         *)
Sync(t, force) ==
    /\ t \in Enabled
    /\ force \/ Due(lastSync[t], SyncInterval)
    /\ lastSync' = [lastSync EXCEPT ![t] = clock]
    /\ Meanwhile
    /\ \E time \in {clock, clock'} :
          \/ Enough(AggregatorOf[t], time) /\ Ingest(RepositoryOf[t])
          \/ ~Enough(AggregatorOf[t], time) /\ UNCHANGED <<patterns, ingested, evicted>>
    /\ UNCHANGED <<contributions, lastContribution>>

(* Between the calls.                                                      *)
ClockMoves ==
    /\ TimePasses \/ IsSetBack
    /\ UNCHANGED <<contributions, lastContribution, lastSync, patterns, ingested, evicted>>

Next ==
    \/ \E t \in Tenants, force \in BOOLEAN : Contribute(t, force) \/ Sync(t, force)
    \/ ClockMoves

Spec == Init /\ [][Next]_vars

------------------------------------------------------------------------------
(* The shape of the state; a repository never has more than MaxPatterns,   *)
(* and no two of one id.                                                   *)
Pattern == [id : Nat, time : Times]

TypeOK ==
    /\ clock \in Times
    /\ contributions \in [Aggregators ->
          Seq([tenant : Enabled, time : Times, stamp : Times, forced : BOOLEAN])]
    /\ lastContribution \in [Tenants -> Times \cup {Never}]
    /\ lastSync \in [Tenants -> Times \cup {Never}]
    /\ patterns \in [Repositories -> Seq(Pattern)]
    /\ \A r \in Repositories :
          /\ Len(patterns[r]) <= MaxPatterns
          /\ \A i, j \in DOMAIN patterns[r] :
                i < j => patterns[r][i].id < patterns[r][j].id
    /\ ingested \in [Repositories -> Nat]
    /\ evicted \in [Repositories -> SUBSET Pattern]
    /\ setBacks \in 0 .. MaxSetBacks

(* Whatever the clock does, a repository keeps the newest patterns by the  *)
(* time they carry, the later made of two of one time (ingest).  So the    *)
(* pattern that sync just reported is there, unless all the others carry   *)
(* later times: after the clock was set back, sync may go on reporting     *)
(* patterns that are gone.                                                 *)
NewestKept ==
    \A r \in Repositories : \A gone \in evicted[r], kept \in Range(patterns[r]) :
        \/ gone.time < kept.time
        \/ gone.time = kept.time /\ gone.id < kept.id

(* What limits the privacy that a tenant spends: also on a clock that is   *)
(* set back, the times at which its contributions were due increase by the *)
(* interval at least, except where one is forced (contribute).             *)
ContributionsSpaced ==
    \A a \in Aggregators : \A i, j \in DOMAIN contributions[a] :
        LET Mine(k) == contributions[a][k].tenant = contributions[a][i].tenant
        IN  /\ i < j /\ Mine(j)
            /\ \A k \in i + 1 .. j : Mine(k) => ~contributions[a][k].forced
            => contributions[a][j].time
                 >= contributions[a][i].time + ContributionInterval

==============================================================================
